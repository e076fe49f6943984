-------------------------- MODULE BoundedSaver_proofs --------------------------
(***************************************************************************)
(* Proofs about BoundedSaver, for any number of workers and of threads,    *)
(* any limit and any TTL.                                                  *)
(***************************************************************************)
EXTENDS BoundedSaver, FiniteSetTheorems, TLAPS

------------------------------------------------------------------------------
(* Types                                                                    *)

LEMMA TypeInit == Init => TypeOK
  BY DEF Init, TypeOK, PCs

\* A write, a deletion and a sweep are what changes more than one thing.
LEMMA TypeWrite ==
  ASSUME TypeOK, NEW w \in Workers, NEW t \in Threads, RecordWrite(w, t)
  PROVE  TypeOK'
<1>1. PICK E \in SUBSET Threads : Evicted(t, E) /\ Write(w, t, clock, E)
  BY DEF RecordWrite
<1>2. writes' \in Nat /\ clock' \in Nat /\ writes' = writes + 1 /\ clock' = clock
  BY <1>1 DEF Write, TypeOK
<1>3. turn' \in [Threads -> 0 .. writes']
  <2>1. turn' = [s \in Threads |->
                   IF s \in E THEN 0 ELSE [turn EXCEPT ![t] = writes + 1][s]]
    BY <1>1 DEF Write, Without
  <2>2. [turn EXCEPT ![t] = writes + 1] \in [Threads -> 0 .. writes']
    BY <1>2 DEF TypeOK
  <2> QED BY <1>2, <2>1, <2>2
<1>4. stamp' \in [Threads -> 0 .. clock']
  <2>1. stamp' = [s \in Threads |->
                    IF s \in E THEN 0 ELSE [stamp EXCEPT ![t] = clock][s]]
    BY <1>1 DEF Write, Without
  <2>2. [stamp EXCEPT ![t] = clock] \in [Threads -> 0 .. clock']
    BY <1>2 DEF TypeOK
  <2> QED BY <1>2, <2>1, <2>2
<1>5. /\ stored' \subseteq Threads /\ pc' \in [Workers -> PCs]
      /\ putting' \in [Workers -> SUBSET Threads] /\ todo' \in [Workers -> SUBSET Threads]
      /\ cutoff' \in [Workers -> Int]
  BY <1>1 DEF Write, Goto, Drop, TypeOK, PCs
<1>6. overlapped' \subseteq Threads
  BY DEF RecordWrite, Watch, Shared, TypeOK
<1> QED BY <1>2, <1>3, <1>4, <1>5, <1>6 DEF TypeOK

\* Entries that leave _lru leave its type alone.
LEMMA TypeLeave ==
  ASSUME TypeOK, NEW E, Leave(E), UNCHANGED <<clock, writes>>
  PROVE  turn' \in [Threads -> 0 .. writes'] /\ stamp' \in [Threads -> 0 .. clock']
  BY DEF TypeOK, Leave, Without

LEMMA TypeNext == TypeOK /\ [Next]_vars => TypeOK'
<1> SUFFICES ASSUME TypeOK, [Next]_vars PROVE TypeOK'
  OBVIOUS
<1>w. ASSUME Watch PROVE overlapped' \subseteq Threads
  BY <1>w DEF Watch, Shared, TypeOK
<1>1. CASE Tick
  BY <1>1 DEF Tick, TypeOK, lru
<1>2. CASE UNCHANGED vars
  BY <1>2 DEF vars, lru, TypeOK
<1>3. ASSUME NEW w \in Workers, NEW t \in Threads, RecordWrite(w, t) PROVE TypeOK'
  BY <1>3, TypeWrite
<1>4. ASSUME NEW w \in Workers, NEW t \in Threads, DeleteStorage(w, t) PROVE TypeOK'
  BY <1>4, <1>w DEF DeleteStorage, Drop, Goto, TypeOK, PCs, lru
<1>5. ASSUME NEW w \in Workers, SuperPut(w) PROVE TypeOK'
  BY <1>5, <1>w DEF SuperPut, Goto, TypeOK, PCs, lru
<1>6. ASSUME NEW w \in Workers, NEW t \in Threads, Purge(w, t) PROVE TypeOK'
  <2>1. turn' \in [Threads -> 0 .. writes'] /\ stamp' \in [Threads -> 0 .. clock']
    BY <1>6, TypeLeave DEF Purge
  <2> QED BY <1>6, <1>w, <2>1 DEF Purge, Drop, Goto, TypeOK, PCs
<1>7. ASSUME NEW w \in Workers, ReadCutoff(w) PROVE TypeOK'
  BY <1>7, <1>w, SaverAssumption DEF ReadCutoff, Goto, TypeOK, PCs, lru
<1>8. ASSUME NEW w \in Workers, Sweep(w) PROVE TypeOK'
  <2>1. turn' \in [Threads -> 0 .. writes'] /\ stamp' \in [Threads -> 0 .. clock']
    BY <1>8, TypeLeave DEF Sweep
  <2>2. Expired(w) \subseteq Threads
    BY DEF Expired, Tracked
  <2> QED BY <1>8, <1>w, <2>1, <2>2 DEF Sweep, Drop, Goto, TypeOK, PCs
<1> QED
  BY <1>1, <1>2, <1>3, <1>4, <1>5, <1>6, <1>7, <1>8 DEF Next, Worker

\* Every variable of the saver keeps its type; in particular no entry is newer
\* than the last write and no value of _lru is in the future.
THEOREM TypeCorrect == Spec => []TypeOK
<1>1. Init => TypeOK
  BY TypeInit
<1>2. TypeOK /\ [Next]_vars => TypeOK'
  BY TypeNext
<1> QED BY <1>1, <1>2, PTL DEF Spec

------------------------------------------------------------------------------
(* What a step does to _lru                                                 *)

\* A worker between two calls has nothing on its way.
LEMMA IdleHasNothing ==
  ASSUME TypeOK, OnTheirWay, NEW w \in Workers, pc[w] \notin {"put", "delete"}
  PROVE  putting[w] = {} /\ todo[w] = {}
  BY DEF OnTheirWay, TypeOK

\* The entries after a write.
LEMMA WriteEntries ==
  ASSUME TypeOK, NEW w \in Workers, NEW t \in Threads, NEW E \in SUBSET Threads,
         Evicted(t, E), Write(w, t, clock, E)
  PROVE  /\ Tracked' = (Tracked \cup {t}) \ E
         /\ t \notin E
         /\ turn'[t] = writes + 1 /\ stamp'[t] = clock
         /\ \A s \in Tracked' : s # t => turn'[s] = turn[s] /\ stamp'[s] = stamp[s]
<1>1. t \notin E
  BY DEF Evicted
<1>2. \A s \in Threads : turn'[s] = IF s \in E THEN 0 ELSE IF s = t THEN writes + 1 ELSE turn[s]
  BY DEF Write, Without, TypeOK
<1>3. \A s \in Threads : stamp'[s] = IF s \in E THEN 0 ELSE IF s = t THEN clock ELSE stamp[s]
  BY DEF Write, Without, TypeOK
<1>4. writes + 1 # 0
  BY DEF TypeOK
<1>5. Tracked' = (Tracked \cup {t}) \ E
  BY <1>2, <1>4 DEF Tracked, Evicted
<1> QED BY <1>1, <1>2, <1>3, <1>5 DEF Tracked

\* The entries after some have left.
LEMMA LeaveEntries ==
  ASSUME TypeOK, NEW E, Leave(E)
  PROVE  /\ Tracked' = Tracked \ E
         /\ \A s \in Tracked' : turn'[s] = turn[s] /\ stamp'[s] = stamp[s]
<1>1. \A s \in Threads : turn'[s] = IF s \in E THEN 0 ELSE turn[s]
  BY DEF Leave, Without, TypeOK
<1>2. \A s \in Threads : stamp'[s] = IF s \in E THEN 0 ELSE stamp[s]
  BY DEF Leave, Without, TypeOK
<1> QED BY <1>1, <1>2 DEF Tracked

LEMMA TrackedFinite == IsFiniteSet(Tracked)
  BY SaverAssumption, FS_Subset DEF Tracked

LEMMA LruLeave ==
  ASSUME TypeOK, LruSound, NEW E, Leave(E)
  PROVE  LruSound'
<1>1. /\ Tracked' \subseteq Tracked
      /\ \A s \in Tracked' : turn'[s] = turn[s] /\ stamp'[s] = stamp[s]
  BY LeaveEntries
<1>2. Cardinality(Tracked') <= MaxThreads
  <2>1. Cardinality(Tracked') <= Cardinality(Tracked)
    BY <1>1, TrackedFinite, FS_Subset
  <2>2. Cardinality(Tracked') \in Nat /\ Cardinality(Tracked) \in Nat
    BY <1>1, TrackedFinite, FS_Subset, FS_CardinalityType
  <2> QED BY <2>1, <2>2, SaverAssumption DEF LruSound
<1> QED BY <1>1, <1>2 DEF LruSound

LEMMA LruWrite ==
  ASSUME TypeOK, LruSound, NEW w \in Workers, NEW t \in Threads, RecordWrite(w, t)
  PROVE  LruSound'
<1>1. PICK E \in SUBSET Threads : Evicted(t, E) /\ Write(w, t, clock, E)
  BY DEF RecordWrite
<1>2. /\ Tracked' = (Tracked \cup {t}) \ E
      /\ turn'[t] = writes + 1 /\ stamp'[t] = clock
      /\ \A s \in Tracked' : s # t => turn'[s] = turn[s] /\ stamp'[s] = stamp[s]
  BY <1>1, WriteEntries
<1>3. Cardinality(Tracked') <= MaxThreads
  BY <1>1, <1>2 DEF Evicted
<1>4. \A s \in Tracked' : s # t =>
        s \in Tracked /\ turn'[s] < turn'[t] /\ stamp'[s] <= stamp'[t]
  <2>1. \A s \in Threads : turn[s] \in 0 .. writes /\ stamp[s] \in 0 .. clock
    BY DEF TypeOK
  <2>2. writes \in Nat /\ clock \in Nat
    BY DEF TypeOK
  <2> QED BY <1>2, <2>1, <2>2 DEF Tracked
<1>5. \A s \in Tracked' : turn'[s] \in Nat /\ stamp'[s] \in Nat
  BY TypeWrite DEF TypeOK, Tracked
<1>6. \A r, s \in Tracked' : turn'[r] < turn'[s] => stamp'[r] <= stamp'[s]
  BY <1>2, <1>4, <1>5 DEF LruSound
<1>7. \A r, s \in Tracked' : turn'[r] = turn'[s] => r = s
  BY <1>2, <1>4, <1>5 DEF LruSound
<1> QED BY <1>3, <1>6, <1>7 DEF LruSound

\* The LRU metadata is sound: within its limit, and its two orders agree.
THEOREM LruIsSound == Spec => []LruSound
<1>1. Init => LruSound
  <2> SUFFICES ASSUME Init PROVE LruSound
    OBVIOUS
  <2>1. Tracked = {}
    BY DEF Init, Tracked
  <2> QED BY <2>1, FS_EmptySet, SaverAssumption DEF LruSound
<1>2. TypeOK /\ LruSound /\ [Next]_vars => LruSound'
  <2> SUFFICES ASSUME TypeOK, LruSound, [Next]_vars PROVE LruSound'
    OBVIOUS
  <2>1. CASE UNCHANGED lru
    BY <2>1 DEF lru, LruSound, Tracked
  <2>2. ASSUME NEW w \in Workers, NEW t \in Threads, RecordWrite(w, t) PROVE LruSound'
    BY <2>2, LruWrite
  <2>3. ASSUME NEW w \in Workers, NEW t \in Threads, Purge(w, t) PROVE LruSound'
    BY <2>3, LruLeave DEF Purge
  <2>4. ASSUME NEW w \in Workers, Sweep(w) PROVE LruSound'
    BY <2>4, LruLeave DEF Sweep
  <2> QED
    BY <2>1, <2>2, <2>3, <2>4
    DEF Next, Worker, Tick, DeleteStorage, SuperPut, ReadCutoff, vars
<1> QED BY <1>1, <1>2, TypeCorrect, PTL DEF Spec

------------------------------------------------------------------------------
(* The two halves of the saver                                              *)

\* A thread whose key matches no id: nothing deletes its checkpoints.
Kept(t) ==
    FirstOfKey[t] \notin Threads /\ t \in Tracked /\ ~Writing(t) => t \in stored

\* What is true of a thread that no two workers were busy with, the halves of
\* the first two for one whose id is a single character.
Paired(t) ==
    /\ FirstOfKey[t] = t /\ t \in Tracked /\ ~Writing(t) => t \in stored
    /\ FirstOfKey[t] = t /\ t \in stored => t \in Tracked \/ Deleting(t)
Consistent(t) ==
    /\ Paired(t)
    /\ Deleting(t) => t \notin Tracked
    /\ Writing(t) => t \in Tracked

PairsAgree == \A t \in Threads \ overlapped : Paired(t)
AllKept == \A t \in Threads : Kept(t)
AgreementInv == TypeOK /\ OnTheirWay /\ PairsAgree

\* How one worker's step may change what workers have on their way.
Bookkeeping(w, P, D) ==
    /\ putting' = [putting EXCEPT ![w] = P]
    /\ todo' = [todo EXCEPT ![w] = D]

LEMMA Workload ==
  ASSUME TypeOK, NEW w \in Workers, NEW P, NEW D, Bookkeeping(w, P, D), Watch, Shared \subseteq overlapped,
         NEW t \in Threads, t \notin overlapped'
  PROVE  /\ t \notin overlapped
         /\ t \in P \cup D =>
              \A v \in Workers : v # w => t \notin putting[v] /\ t \notin todo[v]
         /\ t \in putting[w] \cup todo[w] =>
              \A v \in Workers : v # w => t \notin putting[v] /\ t \notin todo[v]
         /\ (\E v \in Workers : t \in putting'[v])
               <=> t \in P \/ (\E v \in Workers : v # w /\ t \in putting[v])
         /\ (\E v \in Workers : t \in todo'[v])
               <=> t \in D \/ (\E v \in Workers : v # w /\ t \in todo[v])
<1>1. /\ putting'[w] = P /\ todo'[w] = D
      /\ \A v \in Workers : v # w => putting'[v] = putting[v] /\ todo'[v] = todo[v]
  BY DEF Bookkeeping, TypeOK
<1>2. t \notin overlapped /\ t \notin Shared' /\ t \notin Shared
  BY DEF Watch
<1>3. \A v \in Workers : v # w => ~(t \in Busy(v) /\ t \in Busy(w))
  BY <1>2 DEF Shared
<1>4. \A v \in Workers : v # w => ~(t \in Busy(v)' /\ t \in Busy(w)')
  BY <1>2 DEF Shared
<1> QED BY <1>1, <1>2, <1>3, <1>4 DEF Busy

\* The rest of OnTheirWay: a step of w that leaves its program counter where
\* what it has on its way belongs.
LEMMA Places ==
  ASSUME TypeOK, OnTheirWay, NEW w \in Workers, NEW P, NEW D, NEW label \in PCs,
         Bookkeeping(w, P, D), Goto(w, label), Watch,
         D # {} => label \in {"put", "delete"}, P # {} => label = "put", P \cap D = {}
  PROVE  /\ (Shared \subseteq overlapped)'
         /\ (\A v \in Workers : todo[v] # {} => pc[v] \in {"put", "delete"})'
         /\ (\A v \in Workers : putting[v] # {} => pc[v] = "put")'
         /\ (\A v \in Workers : putting[v] \cap todo[v] = {})'
<1>1. /\ putting'[w] = P /\ todo'[w] = D /\ pc'[w] = label
      /\ \A v \in Workers : v # w =>
            putting'[v] = putting[v] /\ todo'[v] = todo[v] /\ pc'[v] = pc[v]
  BY DEF Bookkeeping, Goto, TypeOK
<1>2. Shared' \subseteq overlapped'
  BY DEF Watch
<1> QED BY <1>1, <1>2 DEF OnTheirWay

\* It is enough to show the four facts for a thread that is not overlapped.
LEMMA Enough ==
  ASSUME (\A t \in Threads \ overlapped : Consistent(t))',
         (Shared \subseteq overlapped)',
         (\A v \in Workers : todo[v] # {} => pc[v] \in {"put", "delete"})',
         (\A v \in Workers : putting[v] # {} => pc[v] = "put")',
         (\A v \in Workers : putting[v] \cap todo[v] = {})'
  PROVE  OnTheirWay' /\ PairsAgree'
  BY DEF Consistent, OnTheirWay, PairsAgree

LEMMA AgreementWrite ==
  ASSUME AgreementInv, NEW w \in Workers, NEW t \in Threads, RecordWrite(w, t)
  PROVE  OnTheirWay' /\ PairsAgree'
<1>1. PICK E \in SUBSET Threads : Evicted(t, E) /\ Write(w, t, clock, E)
  BY DEF RecordWrite
<1>2. Tracked' = (Tracked \cup {t}) \ E /\ t \notin E
  BY <1>1, WriteEntries DEF AgreementInv
<1>3. putting[w] = {} /\ todo[w] = {}
  BY IdleHasNothing DEF AgreementInv, RecordWrite
<1>4. Bookkeeping(w, {t}, E) /\ Goto(w, "put") /\ stored' = stored /\ Watch
  BY <1>1 DEF Write, Bookkeeping, Drop, RecordWrite
<1>5. {t} \in SUBSET Threads /\ "put" \in PCs /\ {t} \cap E = {}
  BY <1>2 DEF PCs
<1>6. ASSUME NEW s \in Threads, s \notin overlapped' PROVE Consistent(s)'
  <2>1. /\ s \notin overlapped
        /\ s \in {t} \cup E =>
              \A v \in Workers : v # w => s \notin putting[v] /\ s \notin todo[v]
        /\ Writing(s)' <=> s \in {t} \/ (\E v \in Workers : v # w /\ s \in putting[v])
        /\ Deleting(s)' <=> s \in E \/ (\E v \in Workers : v # w /\ s \in todo[v])
    BY <1>4, <1>5, <1>6, Workload DEF AgreementInv, OnTheirWay, Writing, Deleting
  <2>2. Consistent(s)
    BY <2>1 DEF AgreementInv, OnTheirWay, PairsAgree, Consistent
  <2> QED BY <1>2, <1>3, <1>4, <2>1, <2>2 DEF Consistent, Paired, Writing, Deleting
<1>7. (\A s \in Threads \ overlapped : Consistent(s))'
  BY <1>6
<1> QED
  BY <1>4, <1>5, <1>7, Places, Enough DEF AgreementInv

\* Entries that leave _lru and become w's to delete.
LEMMA AgreementLeave ==
  ASSUME AgreementInv, NEW w \in Workers, pc[w] \notin {"put", "delete"},
         NEW E \in SUBSET Threads, Leave(E), Drop(w, E),
         NEW label \in PCs, Goto(w, label), E # {} => label = "delete",
         UNCHANGED <<putting, stored>>, Watch
  PROVE  OnTheirWay' /\ PairsAgree'
<1>1. Tracked' = Tracked \ E
  BY LeaveEntries DEF AgreementInv
<1>2. putting[w] = {} /\ todo[w] = {}
  BY IdleHasNothing DEF AgreementInv
<1>3. Bookkeeping(w, {}, E)
  BY <1>2 DEF Bookkeeping, Drop, AgreementInv, TypeOK
<1>4. ASSUME NEW s \in Threads, s \notin overlapped' PROVE Consistent(s)'
  <2>1. /\ s \notin overlapped
        /\ s \in E => \A v \in Workers : v # w => s \notin putting[v] /\ s \notin todo[v]
        /\ Writing(s)' <=> (\E v \in Workers : v # w /\ s \in putting[v])
        /\ Deleting(s)' <=> s \in E \/ (\E v \in Workers : v # w /\ s \in todo[v])
    BY <1>3, <1>4, Workload DEF AgreementInv, OnTheirWay, Writing, Deleting
  <2>2. Consistent(s)
    BY <2>1 DEF AgreementInv, OnTheirWay, PairsAgree, Consistent
  <2> QED BY <1>1, <1>2, <2>1, <2>2 DEF Consistent, Paired, Writing, Deleting
<1>5. (\A s \in Threads \ overlapped : Consistent(s))'
  BY <1>4
<1> QED
  BY <1>3, <1>5, Places, Enough DEF AgreementInv

LEMMA AgreementDelete ==
  ASSUME AgreementInv, NEW w \in Workers, NEW t \in Threads, DeleteStorage(w, t)
  PROVE  OnTheirWay' /\ PairsAgree'
<1>1. Tracked' = Tracked /\ stored' = stored \ Matching(t) /\ t \in todo[w] /\ Watch
  BY DEF DeleteStorage, Tracked, lru
<1>2. todo[w] \in SUBSET Threads /\ putting[w] \in SUBSET Threads
      /\ pc[w] \in {"put", "delete"}
  BY <1>1 DEF AgreementInv, TypeOK, OnTheirWay
<1>3. Bookkeeping(w, putting[w], todo[w] \ {t})
  BY DEF Bookkeeping, DeleteStorage, Drop, AgreementInv, TypeOK
<1>4. PICK label \in PCs : /\ Goto(w, label)
                           /\ label # pc[w] => todo[w] = {t} /\ pc[w] = "delete"
  BY <1>2 DEF DeleteStorage, PCs
<1>5. ASSUME NEW s \in Threads, s \notin overlapped' PROVE Consistent(s)'
  <2>1. /\ s \notin overlapped
        /\ s \in putting[w] \cup todo[w] =>
              \A v \in Workers : v # w => s \notin putting[v] /\ s \notin todo[v]
        /\ Writing(s)' <=> s \in putting[w] \/ (\E v \in Workers : v # w /\ s \in putting[v])
        /\ Deleting(s)' <=> s \in todo[w] \ {t} \/ (\E v \in Workers : v # w /\ s \in todo[v])
    BY <1>1, <1>2, <1>3, <1>5, Workload DEF AgreementInv, OnTheirWay, Writing, Deleting
  <2>2. Consistent(s)
    BY <2>1 DEF AgreementInv, OnTheirWay, PairsAgree, Consistent
  <2>3. Writing(s)' <=> Writing(s)
    BY <2>1 DEF Writing
  <2>4. s # t => (Deleting(s)' <=> Deleting(s))
    BY <2>1 DEF Deleting
  <2>5. Deleting(t) /\ (Deleting(s)' => Deleting(s))
    BY <1>1, <2>1 DEF Deleting
  <2>6. FirstOfKey[s] = s => (s \in stored' <=> s \in stored /\ s # t)
    BY <1>1 DEF Matching
  <2> QED BY <1>1, <2>2, <2>3, <2>4, <2>5, <2>6 DEF Consistent, Paired
<1>6. (\A s \in Threads \ overlapped : Consistent(s))'
  BY <1>5
<1>7. /\ todo[w] \ {t} # {} => label \in {"put", "delete"}
      /\ putting[w] # {} => label = "put"
      /\ putting[w] \cap (todo[w] \ {t}) = {}
  BY <1>2, <1>4 DEF AgreementInv, OnTheirWay
<1> QED
  BY <1>1, <1>2, <1>3, <1>4, <1>6, <1>7, Places, Enough DEF AgreementInv

LEMMA AgreementPut ==
  ASSUME AgreementInv, NEW w \in Workers, SuperPut(w)
  PROVE  OnTheirWay' /\ PairsAgree'
<1>1. Tracked' = Tracked /\ stored' = stored \cup putting[w] /\ todo[w] = {} /\ Watch
  BY DEF SuperPut, Tracked, lru
<1>2. Bookkeeping(w, {}, {}) /\ Goto(w, "idle") /\ "idle" \in PCs
  BY <1>1 DEF Bookkeeping, SuperPut, AgreementInv, TypeOK, PCs
<1>3. ASSUME NEW s \in Threads, s \notin overlapped' PROVE Consistent(s)'
  <2>1. /\ s \notin overlapped
        /\ s \in putting[w] \cup todo[w] =>
              \A v \in Workers : v # w => s \notin putting[v] /\ s \notin todo[v]
        /\ Writing(s)' <=> (\E v \in Workers : v # w /\ s \in putting[v])
        /\ Deleting(s)' <=> (\E v \in Workers : v # w /\ s \in todo[v])
    BY <1>1, <1>2, <1>3, Workload DEF AgreementInv, OnTheirWay, Writing, Deleting
  <2>2. Consistent(s)
    BY <2>1 DEF AgreementInv, OnTheirWay, PairsAgree, Consistent
  <2> QED BY <1>1, <2>1, <2>2 DEF Consistent, Paired, Writing, Deleting
<1>4. (\A s \in Threads \ overlapped : Consistent(s))'
  BY <1>3
<1> QED
  BY <1>1, <1>2, <1>4, Places, Enough DEF AgreementInv

LEMMA AgreementNext == AgreementInv /\ [Next]_vars => AgreementInv'
<1> SUFFICES ASSUME AgreementInv, [Next]_vars PROVE OnTheirWay' /\ PairsAgree'
  BY TypeNext DEF AgreementInv
<1>1. CASE Tick \/ UNCHANGED vars
  BY <1>1 DEF Tick, vars, lru, AgreementInv, OnTheirWay, PairsAgree, Paired, Tracked,
              Writing, Deleting, Shared, Busy
<1>2. ASSUME NEW w \in Workers, NEW t \in Threads, RecordWrite(w, t)
      PROVE  OnTheirWay' /\ PairsAgree'
  BY <1>2, AgreementWrite
<1>3. ASSUME NEW w \in Workers, NEW t \in Threads, DeleteStorage(w, t)
      PROVE  OnTheirWay' /\ PairsAgree'
  BY <1>3, AgreementDelete
<1>4. ASSUME NEW w \in Workers, SuperPut(w) PROVE OnTheirWay' /\ PairsAgree'
  BY <1>4, AgreementPut
<1>5. ASSUME NEW w \in Workers, NEW t \in Threads, Purge(w, t)
      PROVE  OnTheirWay' /\ PairsAgree'
  BY <1>5, AgreementLeave, {t} \in SUBSET Threads, "delete" \in PCs DEF Purge, PCs
<1>6. ASSUME NEW w \in Workers, Sweep(w) PROVE OnTheirWay' /\ PairsAgree'
  <2>1. Expired(w) \in SUBSET Threads /\ "idle" \in PCs /\ "delete" \in PCs
    BY DEF Expired, Tracked, PCs
  <2>2. CASE Expired(w) = {}
    BY <1>6, <2>1, <2>2, AgreementLeave DEF Sweep
  <2>3. CASE Expired(w) # {}
    BY <1>6, <2>1, <2>3, AgreementLeave DEF Sweep
  <2> QED BY <2>2, <2>3
<1>7. ASSUME NEW w \in Workers, ReadCutoff(w) PROVE OnTheirWay' /\ PairsAgree'
  <2>1. Leave({}) /\ Drop(w, {})
    BY <1>7, IdleHasNothing DEF ReadCutoff, Leave, Without, Drop, lru, AgreementInv, TypeOK
  <2> QED BY <1>7, <2>1, AgreementLeave, {} \in SUBSET Threads, "cutoff" \in PCs
          DEF ReadCutoff, PCs
<1> QED
  BY <1>1, <1>2, <1>3, <1>4, <1>5, <1>6, <1>7 DEF Next, Worker

LEMMA KeptInit == Init => AllKept
  BY DEF Init, AllKept, Kept, Tracked

\* A thread that has an entry is being written or has been.
LEMMA KeptNext == AgreementInv /\ AllKept /\ [Next]_vars => AllKept'
<1> SUFFICES ASSUME AgreementInv, AllKept, [Next]_vars, NEW s \in Threads,
                    FirstOfKey[s] \notin Threads, s \in Tracked', ~Writing(s)'
             PROVE  s \in stored'
  BY DEF AllKept, Kept
<1>1. Kept(s)
  BY DEF AllKept
<1>2. putting \in [Workers -> SUBSET Threads]
  BY DEF AgreementInv, TypeOK
<1>3. CASE Tick \/ UNCHANGED vars
  BY <1>1, <1>3 DEF Tick, vars, lru, Kept, Tracked, Writing
<1>4. ASSUME NEW w \in Workers, NEW t \in Threads, RecordWrite(w, t) PROVE s \in stored'
  <2>1. PICK E \in SUBSET Threads : Evicted(t, E) /\ Write(w, t, clock, E)
    BY <1>4 DEF RecordWrite
  <2>2. Tracked' = (Tracked \cup {t}) \ E
    BY <2>1, WriteEntries DEF AgreementInv
  <2>3. putting' = [putting EXCEPT ![w] = {t}] /\ putting[w] = {} /\ stored' = stored
    BY <1>4, <2>1, IdleHasNothing DEF RecordWrite, Write, AgreementInv
  <2>4. s # t /\ ~Writing(s)
    BY <1>2, <2>3 DEF Writing
  <2> QED BY <1>1, <2>2, <2>3, <2>4 DEF Kept
<1>5. ASSUME NEW w \in Workers, NEW t \in Threads, DeleteStorage(w, t) PROVE s \in stored'
  <2>1. Tracked' = Tracked /\ putting' = putting /\ stored' = stored \ Matching(t)
    BY <1>5 DEF DeleteStorage, lru, Tracked
  <2> QED BY <1>1, <2>1 DEF Kept, Matching, Writing
<1>6. ASSUME NEW w \in Workers, SuperPut(w) PROVE s \in stored'
  <2>1. /\ Tracked' = Tracked /\ stored' = stored \cup putting[w]
        /\ putting' = [putting EXCEPT ![w] = {}]
    BY <1>6 DEF SuperPut, lru, Tracked
  <2>2. CASE s \in putting[w]
    BY <2>1, <2>2
  <2>3. CASE s \notin putting[w]
    <3>1. ~Writing(s)
      BY <1>2, <2>1, <2>3 DEF Writing
    <3> QED BY <1>1, <2>1, <3>1 DEF Kept
  <2> QED BY <2>2, <2>3
<1>7. ASSUME NEW E, Leave(E), UNCHANGED <<putting, stored>> PROVE s \in stored'
  <2>1. Tracked' \subseteq Tracked
    BY <1>7, LeaveEntries DEF AgreementInv
  <2> QED BY <1>1, <1>7, <2>1 DEF Kept, Writing
<1>8. ASSUME NEW w \in Workers, ReadCutoff(w) PROVE s \in stored'
  BY <1>1, <1>8 DEF ReadCutoff, lru, Kept, Tracked, Writing
<1> QED
  BY <1>3, <1>4, <1>5, <1>6, <1>7, <1>8 DEF Next, Worker, Purge, Sweep

\* A thread with an entry has its checkpoints unless its first character is the
\* id of another thread, or is its own id and two workers were busy with it; and
\* a thread whose id is one character, with checkpoints, has an entry but for a
\* deletion on its way. All this for any ids and any first characters.
THEOREM HalvesAgree == Spec => []Agreement
<1>1. Init => AgreementInv
  <2> SUFFICES ASSUME Init PROVE OnTheirWay /\ PairsAgree
    BY TypeInit DEF AgreementInv
  <2> QED BY DEF Init, OnTheirWay, PairsAgree, Paired, Tracked, Writing, Deleting, Shared, Busy
<1>2. AgreementInv /\ AllKept => Agreement
  <2> SUFFICES ASSUME AgreementInv, AllKept PROVE Agreement
    OBVIOUS
  <2>1. ASSUME NEW t \in Threads, t \in Tracked, ~Writing(t), FirstOfKey[t] \notin Threads \ {t}
        PROVE  t \in stored \/ t \in overlapped \cap Matching(t)
    <3>1. CASE FirstOfKey[t] = t
      BY <2>1, <3>1 DEF AgreementInv, PairsAgree, Paired, Matching
    <3>2. CASE FirstOfKey[t] # t
      BY <2>1, <3>2 DEF AllKept, Kept
    <3> QED BY <3>1, <3>2
  <2>2. ASSUME NEW t \in Threads \ overlapped, t \in stored, FirstOfKey[t] = t
        PROVE  t \in Tracked \/ Deleting(t)
    BY <2>2 DEF AgreementInv, PairsAgree, Paired
  <2> QED BY <2>1, <2>2 DEF Agreement
<1> QED BY <1>1, <1>2, AgreementNext, KeptInit, KeptNext, PTL DEF Spec

------------------------------------------------------------------------------
(* The sweep                                                                *)

LEMMA CutoffsNext == TypeOK /\ Cutoffs /\ [Next]_vars => Cutoffs'
<1> SUFFICES ASSUME TypeOK, Cutoffs, [Next]_vars, NEW w \in Workers, pc'[w] = "cutoff"
             PROVE  cutoff'[w] <= clock' - Ttl
  BY DEF Cutoffs
<1>1. Ttl \in Nat /\ clock \in Nat /\ cutoff[w] \in Int
  BY SaverAssumption DEF TypeOK
<1>2. CASE Tick \/ UNCHANGED vars
  BY <1>1, <1>2 DEF Tick, vars, Cutoffs
<1>3. ASSUME NEW v \in Workers, Worker(v) PROVE cutoff'[w] <= clock' - Ttl
  <2>1. clock' = clock
    BY <1>3 DEF Worker, SuperPut, ReadCutoff, Sweep, RecordWrite, Write, DeleteStorage, Purge
  <2>2. CASE v # w
    <3>1. pc'[w] = pc[w] /\ cutoff'[w] = cutoff[w]
      BY <1>3, <2>2 DEF Worker, SuperPut, ReadCutoff, Sweep, RecordWrite, Write,
                        DeleteStorage, Purge, Goto, TypeOK
    <3> QED BY <2>1, <3>1 DEF Cutoffs
  <2>3. CASE v = w
    <3>1. ReadCutoff(w) \/ (pc[w] = "cutoff" /\ cutoff'[w] = cutoff[w])
      BY <1>3, <2>3 DEF Worker, SuperPut, Sweep, RecordWrite, Write,
                        DeleteStorage, Purge, Goto, TypeOK
    <3>2. CASE ReadCutoff(w)
      BY <1>1, <2>1, <3>2 DEF ReadCutoff, TypeOK
    <3> QED BY <2>1, <3>1, <3>2 DEF Cutoffs
  <2> QED BY <2>2, <2>3
<1> QED BY <1>2, <1>3 DEF Next

\* A sweep drops only threads that are past the TTL when it drops them.
THEOREM SweepsSpareTheFresh == Spec => SweepsOnlyExpired
<1> DEFINE Drops(w, t) == pc[w] = "cutoff" /\ pc'[w] # "cutoff" /\ turn[t] # 0 /\ turn'[t] = 0
<1>1. Init => Cutoffs
  BY DEF Init, Cutoffs
<1>2. TypeOK /\ Cutoffs /\ [Next]_vars
        => [\A w \in Workers, t \in Threads : Drops(w, t) => clock - stamp[t] > Ttl]_vars
  <2> SUFFICES ASSUME TypeOK, Cutoffs, Next, NEW w \in Workers, NEW t \in Threads, Drops(w, t)
               PROVE  clock - stamp[t] > Ttl
    OBVIOUS
  <2>1. Sweep(w)
    BY DEF Next, Tick, Worker, SuperPut, ReadCutoff, Sweep, RecordWrite, Write,
           DeleteStorage, Purge, Goto, TypeOK
  <2>2. t \in Expired(w)
    BY <2>1 DEF Sweep, Leave, Without, TypeOK
  <2>3. stamp[t] < cutoff[w] /\ cutoff[w] <= clock - Ttl
    BY <2>1, <2>2 DEF Expired, Sweep, Cutoffs
  <2> QED BY <2>3, SaverAssumption DEF TypeOK
<1> QED BY <1>1, <1>2, CutoffsNext, TypeCorrect, PTL DEF Spec, SweepsOnlyExpired

------------------------------------------------------------------------------
(* The refinement of AtomicSaver                                            *)

\* The instance has a copy of FiniteSets of its own.
LEMMA SameCardinality == \A S : Atomic!Cardinality(S) = Cardinality(S)
  BY Zenon DEF Atomic!Cardinality, Cardinality

LEMMA AgeFacts ==
  ASSUME TypeOK
  PROVE  /\ \A t \in Tracked : AgeOf[t] = IF clock - stamp[t] > Ttl THEN Ttl + 1 ELSE clock - stamp[t]
         /\ \A t \in Threads \ Tracked : AgeOf[t] = -1
         /\ \A t \in Tracked : AgeOf[t] \in 0 .. Ttl + 1
         /\ \A t \in Tracked : clock - stamp[t] \in Nat
<1>1. \A t \in Tracked : t \in Threads /\ AgeOf[t] = IF clock - stamp[t] > Ttl THEN Ttl + 1 ELSE clock - stamp[t]
  BY DEF AgeOf, Tracked
<1>2. \A t \in Threads \ Tracked : AgeOf[t] = -1
  BY DEF AgeOf
<1>3. \A t \in Tracked : clock - stamp[t] \in Nat
  BY <1>1 DEF TypeOK
<1>4. \A t \in Tracked : AgeOf[t] \in 0 .. Ttl + 1
  BY <1>1, <1>3, SaverAssumption
<1> QED BY <1>1, <1>2, <1>3, <1>4

LEMMA HeldAreTracked ==
  ASSUME TypeOK
  PROVE  Atomic!Held(AgeOf) = Tracked
<1>1. \A t \in Tracked : t \in Threads /\ AgeOf[t] # -1
  BY AgeFacts, SaverAssumption DEF Tracked
<1>2. \A t \in Threads \ Tracked : AgeOf[t] = -1
  BY AgeFacts
<1> QED BY <1>1, <1>2 DEF Atomic!Held, Atomic!Absent

\* Entries that leave.
LEMMA AgesLeave ==
  ASSUME TypeOK, TypeOK', NEW E, Leave(E), clock' = clock
  PROVE  AgeOf' = Atomic!Without(AgeOf, E)
<1>1. /\ Tracked' = Tracked \ E
      /\ \A s \in Tracked' : stamp'[s] = stamp[s]
  BY LeaveEntries
<1>2. ASSUME NEW s \in Threads
      PROVE  AgeOf'[s] = IF s \in E THEN -1 ELSE AgeOf[s]
  <2>1. AgeOf'[s] = IF s \notin Tracked' THEN -1
                    ELSE IF clock' - stamp'[s] > Ttl THEN Ttl + 1 ELSE clock' - stamp'[s]
    BY DEF AgeOf
  <2>2. AgeOf[s] = IF s \notin Tracked THEN -1
                   ELSE IF clock - stamp[s] > Ttl THEN Ttl + 1 ELSE clock - stamp[s]
    BY DEF AgeOf
  <2> QED BY <1>1, <2>1, <2>2
<1>3. AgeOf' = [s \in Threads |-> AgeOf'[s]]
  BY DEF AgeOf
<1>4. Atomic!Without(AgeOf, E) = [s \in Threads |-> IF s \in E THEN -1 ELSE AgeOf[s]]
  BY DEF Atomic!Without, Atomic!Absent
<1> HIDE DEF AgeOf
<1> QED BY <1>2, <1>3, <1>4

LEMMA AgesWrite ==
  ASSUME TypeOK, TypeOK', LruSound, NEW w \in Workers, NEW t \in Threads, RecordWrite(w, t)
  PROVE  Atomic!Write(t)
<1>1. PICK E \in SUBSET Threads : Evicted(t, E) /\ Write(w, t, clock, E)
  BY DEF RecordWrite
<1>2. /\ Tracked' = (Tracked \cup {t}) \ E /\ t \notin E
      /\ stamp'[t] = clock /\ clock' = clock
      /\ \A s \in Tracked' : s # t => stamp'[s] = stamp[s]
  BY <1>1, WriteEntries DEF Write
<1> DEFINE written == Atomic!With(AgeOf, t)
<1>3. /\ written[t] = 0 /\ DOMAIN written = Threads
      /\ \A s \in Threads : s # t => written[s] = AgeOf[s]
  BY DEF Atomic!With, AgeOf
<1> HIDE DEF written
<1>4. Atomic!Held(written) = Tracked \cup {t}
  <2>1. Atomic!Held(written) = Atomic!Held(AgeOf) \cup {t}
    <3>1. 0 # -1
      OBVIOUS
    <3> QED BY <1>3, <3>1 DEF Atomic!Held, Atomic!Absent
  <2> QED BY <2>1, HeldAreTracked
<1>5. \A e \in E, k \in (Tracked \cup {t}) \ E : written[e] >= written[k]
  <2> SUFFICES ASSUME NEW e \in E, NEW k \in (Tracked \cup {t}) \ E
               PROVE  written[e] >= written[k]
    OBVIOUS
  <2>1. e \in Tracked /\ e # t /\ e \in Threads
    BY <1>1 DEF Evicted, Tracked
  <2>2. written[e] = AgeOf[e] /\ AgeOf[e] \in 0 .. Ttl + 1
    BY <1>3, <2>1, AgeFacts
  <2>3. CASE k = t
    BY <1>3, <2>2, <2>3, SaverAssumption
  <2>4. CASE k # t
    <3>1. k \in Tracked /\ k \in Threads /\ turn[e] < turn[k]
      BY <1>1, <2>4 DEF Evicted, Tracked
    <3>2. stamp[e] <= stamp[k]
      BY <2>1, <3>1 DEF LruSound
    <3>3. written[k] = AgeOf[k]
      BY <1>3, <2>4, <3>1
    <3>4. /\ AgeOf[e] = IF clock - stamp[e] > Ttl THEN Ttl + 1 ELSE clock - stamp[e]
          /\ AgeOf[k] = IF clock - stamp[k] > Ttl THEN Ttl + 1 ELSE clock - stamp[k]
      BY <2>1, <3>1, AgeFacts
    <3>5. clock \in Int /\ stamp[e] \in Int /\ stamp[k] \in Int /\ Ttl \in Int
      BY <2>1, <3>1, SaverAssumption DEF TypeOK
    <3> QED BY <2>2, <3>2, <3>3, <3>4, <3>5
  <2> QED BY <2>3, <2>4
<1>6. Atomic!Excess(written, MaxThreads, t, E)
  <2>1. /\ E \subseteq (Tracked \cup {t}) \ {t}
        /\ Cardinality((Tracked \cup {t}) \ E) <= MaxThreads
        /\ E # {} => Cardinality((Tracked \cup {t}) \ E) = MaxThreads
    BY <1>1 DEF Evicted
  <2> QED BY <1>4, <1>5, <2>1, SameCardinality DEF Atomic!Excess
<1>7. AgeOf' = Atomic!Without(written, E)
  <2>1. ASSUME NEW s \in Threads
        PROVE  AgeOf'[s] = IF s \in E THEN -1 ELSE written[s]
    <3>1. AgeOf'[s] = IF s \notin Tracked' THEN -1
                      ELSE IF clock' - stamp'[s] > Ttl THEN Ttl + 1 ELSE clock' - stamp'[s]
      BY DEF AgeOf
    <3>2. AgeOf[s] = IF s \notin Tracked THEN -1
                     ELSE IF clock - stamp[s] > Ttl THEN Ttl + 1 ELSE clock - stamp[s]
      BY DEF AgeOf
    <3>3. CASE s = t
      <4>1. clock - clock = 0 /\ ~ (0 > Ttl)
        BY SaverAssumption DEF TypeOK
      <4> QED BY <1>2, <1>3, <3>1, <3>3, <4>1
    <3>4. CASE s # t
      BY <1>2, <1>3, <3>1, <3>2, <3>4
    <3> QED BY <3>3, <3>4
  <2>2. AgeOf' = [s \in Threads |-> AgeOf'[s]]
    BY DEF AgeOf
  <2>3. Atomic!Without(written, E) = [s \in Threads |-> IF s \in E THEN -1 ELSE written[s]]
    BY DEF Atomic!Without, Atomic!Absent
  <2> HIDE DEF AgeOf
  <2> QED BY <2>1, <2>2, <2>3
<1> QED BY <1>6, <1>7 DEF Atomic!Write, Atomic!Put, written

\* What a sweep takes has expired.
LEMMA AgesSweep ==
  ASSUME TypeOK, TypeOK', Cutoffs, NEW w \in Workers, Sweep(w)
  PROVE  Atomic!PurgeExpired
<1>1. AgeOf' = Atomic!Without(AgeOf, Expired(w))
  BY AgesLeave DEF Sweep
<1>2. ASSUME NEW t \in Expired(w)
      PROVE  t \in Atomic!Expired(AgeOf)
  <2>1. t \in Tracked /\ t \in Threads /\ stamp[t] < cutoff[w]
    BY DEF Expired, Tracked
  <2>2. cutoff[w] <= clock - Ttl
    BY DEF Cutoffs, Sweep
  <2>3. clock \in Int /\ stamp[t] \in Int /\ cutoff[w] \in Int /\ Ttl \in Int
    BY <2>1, SaverAssumption DEF TypeOK
  <2>4. clock - stamp[t] > Ttl
    BY <2>1, <2>2, <2>3
  <2>5. AgeOf[t] = Ttl + 1
    BY <2>1, <2>4, AgeFacts
  <2> QED BY <2>1, <2>5 DEF Atomic!Expired
<1>3. Expired(w) \in SUBSET Atomic!Expired(AgeOf)
  BY <1>2
<1> QED BY <1>1, <1>3 DEF Atomic!PurgeExpired

LEMMA AgesTick ==
  ASSUME TypeOK, Tick
  PROVE  Atomic!TimePasses
<1>1. clock' = clock + 1 /\ Tracked' = Tracked /\ stamp' = stamp
  BY DEF Tick, lru, Tracked
<1>2. ASSUME NEW s \in Threads
      PROVE  AgeOf'[s] = IF AgeOf[s] \in 0 .. Ttl THEN AgeOf[s] + 1 ELSE AgeOf[s]
  <2>1. AgeOf'[s] = IF s \notin Tracked' THEN -1
                    ELSE IF clock' - stamp'[s] > Ttl THEN Ttl + 1 ELSE clock' - stamp'[s]
    BY DEF AgeOf
  <2>2. AgeOf[s] = IF s \notin Tracked THEN -1
                   ELSE IF clock - stamp[s] > Ttl THEN Ttl + 1 ELSE clock - stamp[s]
    BY DEF AgeOf
  <2>3. Ttl \in Nat /\ clock \in Nat /\ stamp[s] \in Nat /\ clock - stamp[s] \in Nat
    BY SaverAssumption DEF TypeOK
  <2>4. clock' - stamp'[s] = (clock - stamp[s]) + 1
    BY <1>1, <2>3
  <2>5. CASE s \notin Tracked
    BY <1>1, <2>1, <2>2, <2>5
  <2>6. CASE s \in Tracked
    <3> DEFINE a == clock - stamp[s]
    <3>1. a \in Nat /\ AgeOf[s] = (IF a > Ttl THEN Ttl + 1 ELSE a)
          /\ AgeOf'[s] = (IF a + 1 > Ttl THEN Ttl + 1 ELSE a + 1)
      BY <1>1, <2>1, <2>2, <2>3, <2>4, <2>6
    <3> HIDE DEF a
    <3> QED BY <2>3, <3>1
  <2> QED BY <2>5, <2>6
<1>3. AgeOf' = [s \in Threads |-> AgeOf'[s]]
  BY DEF AgeOf
<1>4. Atomic!Older(AgeOf) = [s \in Threads |-> IF AgeOf[s] \in 0 .. Ttl THEN AgeOf[s] + 1 ELSE AgeOf[s]]
  BY DEF Atomic!Older
<1> HIDE DEF AgeOf
<1> QED BY <1>2, <1>3, <1>4 DEF Atomic!TimePasses

LEMMA AgesInit == Init => Atomic!Init
<1> SUFFICES ASSUME Init PROVE Atomic!Init
  OBVIOUS
<1>1. Tracked = {}
  BY DEF Init, Tracked
<1> QED BY <1>1 DEF AgeOf, Atomic!Init, Atomic!Absent

\* Every step of a worker is one call of an atomic saver, or none.
LEMMA AgesNext ==
  TypeOK /\ TypeOK' /\ LruSound /\ Cutoffs /\ [Next]_vars => [Atomic!Next]_AgeOf
<1> SUFFICES ASSUME TypeOK, TypeOK', LruSound, Cutoffs, [Next]_vars
             PROVE  Atomic!Next \/ AgeOf' = AgeOf
  OBVIOUS
<1>1. CASE Tick
  BY <1>1, AgesTick DEF Atomic!Next
<1>2. ASSUME NEW w \in Workers, NEW t \in Threads, RecordWrite(w, t) PROVE Atomic!Next
  BY <1>2, AgesWrite DEF Atomic!Next
<1>3. ASSUME NEW w \in Workers, NEW t \in Threads, Purge(w, t) PROVE Atomic!Next
  <2>1. AgeOf' = Atomic!Without(AgeOf, {t})
    BY <1>3, AgesLeave DEF Purge
  <2>2. Atomic!Purge(t)
    BY <2>1 DEF Atomic!Purge
  <2> QED BY <2>2 DEF Atomic!Next
<1>4. ASSUME NEW w \in Workers, Sweep(w) PROVE Atomic!Next
  BY <1>4, AgesSweep DEF Atomic!Next
<1>5. CASE UNCHANGED <<lru, clock>>
  BY <1>5 DEF AgeOf, Tracked, lru
<1> QED
  BY <1>1, <1>2, <1>3, <1>4, <1>5
  DEF Next, Worker, DeleteStorage, SuperPut, ReadCutoff, vars

\* The saver implements AtomicSaver, for any number of workers and threads and
\* any limit and TTL: whatever happens between the locked sections, its entries
\* change as those of a saver whose calls happen at one moment.
THEOREM SaverImplementsAtomicSaver == Spec => ImplementsAtomicSaver
<1>1. Init => Cutoffs
  BY DEF Init, Cutoffs
<1>2. Spec => [](TypeOK /\ Cutoffs)
  BY <1>1, TypeInit, TypeNext, CutoffsNext, PTL DEF Spec
<1> QED BY <1>2, LruIsSound, AgesInit, AgesNext, PTL DEF Spec, ImplementsAtomicSaver, Atomic!Spec

==============================================================================
