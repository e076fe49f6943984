---------------------------- MODULE Middleware_proofs ----------------------------
(***************************************************************************)
(* Proofs about ToolInputFix, RunState, RateLimit and MessageWindow, the   *)
(* middlewares of the main agent: for any number of threads, callers and   *)
(* jobs, any tools, schema and arguments, any rules, any limits and any    *)
(* division of the minute into ticks, either strategy and either window;   *)
(* and about the types of what MC_AgentRun puts together of them and of    *)
(* ToolCalls.                                                              *)
(***************************************************************************)
EXTENDS MC_AgentRun, ToolCalls_proofs, Subsequences_proofs, SequenceTheorems

------------------------------------------------------------------------------
(* The counts of errors                                                     *)

\* Threads that may still add an error to what has been counted for n.
Busy(n) == {t \in Threads : called[t] = n /\ stage[t] \in {"repair", "run"}}

\* An error that is counted was one that could still be counted.
Foreseen ==
    \A n \in Tools :
        errors[n] + Cardinality(Busy(n)) <= MaxRetries - 1 + Cardinality(Threads)

FixInv == FixTypeOK /\ Foreseen

LEMMA Threads2Nat ==
  /\ Cardinality(Threads) \in Nat
  /\ \A S \in SUBSET Threads :
        IsFiniteSet(S) /\ Cardinality(S) \in Nat /\ Cardinality(S) <= Cardinality(Threads)
  BY FixAssumption, FS_Subset, FS_CardinalityType

LEMMA BusyIsSmall ==
  /\ \A n : Cardinality(Busy(n)) \in Nat /\ Cardinality(Busy(n)) <= Cardinality(Threads)
  /\ \A n : Cardinality(Busy(n))' \in Nat /\ Cardinality(Busy(n))' <= Cardinality(Threads)
<1>1. \A n : Busy(n) \in SUBSET Threads /\ Busy(n)' \in SUBSET Threads
  BY DEF Busy
<1> QED BY <1>1, Threads2Nat

\* A thread that is no longer busy takes one from the busy ones of its tool.
LEMMA BusyLeaves ==
  ASSUME FixTypeOK, NEW t \in Threads, stage[t] \in {"repair", "run"},
         NEW label \in {"start", "read", "unchecked"},
         stage' = [stage EXCEPT ![t] = label], called' = called
  PROVE  /\ Cardinality(Busy(called[t]))' = Cardinality(Busy(called[t])) - 1
         /\ \A n \in Tools \ {called[t]} : Busy(n)' = Busy(n)
<1>1. Busy(called[t])' = Busy(called[t]) \ {t} /\ t \in Busy(called[t])
  BY DEF Busy, FixTypeOK
<1>2. IsFiniteSet(Busy(called[t]))
  BY Threads2Nat DEF Busy
<1>3. \A n \in Tools \ {called[t]} : Busy(n)' = Busy(n)
  BY DEF Busy, FixTypeOK
<1> QED BY <1>1, <1>2, <1>3, FS_RemoveElement

LEMMA FixInitInv == FixInit => FixInv
<1> SUFFICES ASSUME FixInit PROVE FixInv
  OBVIOUS
<1>1. FixTypeOK
  BY DEF FixInit, FixTypeOK, Stages, Shapes
<1>2. \A n \in Tools : errors[n] = 0
  BY DEF FixInit
<1> QED BY <1>1, <1>2, BusyIsSmall, Threads2Nat, FixAssumption DEF FixInv, Foreseen

LEMMA FixNextInv == FixInv /\ [FixNext]_fixVars => FixInv'
<1> SUFFICES ASSUME FixInv, [FixNext]_fixVars PROVE FixInv'
  OBVIOUS
<1> USE DEF FixInv
<1>n. MaxRetries \in Nat /\ MaxRetries >= 1 /\ Cardinality(Threads) \in Nat
  BY FixAssumption, Threads2Nat
<1>1. ASSUME NEW t \in Threads, BeginCall(t) PROVE FixInv'
  <2>1. PICK n \in Tools, a \in Inputs :
           called' = [called EXCEPT ![t] = n] /\ args' = [args EXCEPT ![t] = a]
    BY <1>1 DEF BeginCall
  <2>2. a.shape \in Shapes
    BY FixAssumption
  <2>3. \A x \in Threads : args'[x].shape \in Shapes
    <3>1. TAKE x \in Threads
    <3>2. CASE x = t /\ t \in DOMAIN args
      BY <2>1, <2>2, <3>2
    <3>3. CASE x # t \/ t \notin DOMAIN args
      <4>1. args'[x] = args[x]
        BY <2>1, <3>3
      <4> QED BY <4>1 DEF FixTypeOK
    <3> QED BY <3>2, <3>3
  <2>4. FixTypeOK'
    BY <1>1, <2>1, <2>3 DEF FixTypeOK, BeginCall, GoOn, Stages
  <2>5. \A m \in Tools : Busy(m)' = Busy(m) /\ errors'[m] = errors[m]
    BY <1>1, <2>1 DEF BeginCall, GoOn, Busy, FixTypeOK
  <2> QED BY <2>4, <2>5 DEF Foreseen
<1>2. ASSUME NEW t \in Threads, ReadCount(t) PROVE FixInv'
  <2>1. FixTypeOK'
    BY <1>2 DEF FixTypeOK, ReadCount, GoOn, Stages
  <2>2. ASSUME NEW m \in Tools
        PROVE  errors'[m] + Cardinality(Busy(m))' <= MaxRetries - 1 + Cardinality(Threads)
    <3>0. errors[m] \in Nat /\ errors'[m] = errors[m]
      BY <1>2 DEF FixTypeOK, ReadCount
    <3>1. CASE m = called[t] /\ errors[m] < MaxRetries
      BY <1>n, <3>0, <3>1, BusyIsSmall
    <3>2. CASE ~ (m = called[t] /\ errors[m] < MaxRetries)
      <4>1. Busy(m)' = Busy(m)
        BY <1>2, <1>n, <3>0, <3>2 DEF ReadCount, GoOn, Busy, FixTypeOK
      <4> QED BY <3>0, <4>1 DEF Foreseen
    <3> QED BY <3>1, <3>2
  <2> QED BY <2>1, <2>2 DEF Foreseen
<1>3. ASSUME NEW t \in Threads, RepairAndValidate(t) PROVE FixInv'
  <2> DEFINE n == called[t]
  <2>1. n \in Tools /\ called' = called /\ errors[n] \in Nat
    BY <1>3 DEF RepairAndValidate, FixTypeOK
  <2>2. \/ errors' = [errors EXCEPT ![n] = 0] /\ stage' = [stage EXCEPT ![t] = "run"]
        \/ errors' = [errors EXCEPT ![n] = @ + 1] /\ stage' = [stage EXCEPT ![t] = "start"]
    BY <1>3 DEF RepairAndValidate, GoOn, CountError
  <2>3. \A x \in Threads : args'[x].shape \in Shapes
    <3>1. TAKE x \in Threads
    <3>2. args' = args \/ \E d : args' = [args EXCEPT ![t] = [shape |-> "dict", fields |-> d]]
      BY <1>3 DEF RepairAndValidate
    <3>3. CASE args' = args
      BY <3>3 DEF FixTypeOK
    <3>4. ASSUME NEW d, args' = [args EXCEPT ![t] = [shape |-> "dict", fields |-> d]]
          PROVE  args'[x].shape \in Shapes
      <4>1. CASE x = t /\ t \in DOMAIN args
        <5>1. args'[x] = [shape |-> "dict", fields |-> d]
          BY <3>4, <4>1
        <5> QED BY <5>1 DEF Shapes
      <4>2. CASE x # t \/ t \notin DOMAIN args
        <5>1. args'[x] = args[x]
          BY <3>4, <4>2
        <5> QED BY <5>1 DEF FixTypeOK
      <4> QED BY <4>1, <4>2
    <3> QED BY <3>2, <3>3, <3>4
  <2>4. FixTypeOK'
    BY <2>1, <2>2, <2>3 DEF FixTypeOK, Stages
  <2>5. CASE errors' = [errors EXCEPT ![n] = 0] /\ stage' = [stage EXCEPT ![t] = "run"]
    <3>1. errors'[n] = 0 /\ \A m \in Tools \ {n} : errors'[m] = errors[m]
      BY <2>1, <2>5 DEF FixTypeOK
    <3>2. \A m \in Tools : Busy(m)' = Busy(m)
      BY <1>3, <2>1, <2>5 DEF RepairAndValidate, Busy, FixTypeOK
    <3>3. Cardinality(Busy(n)) \in Nat /\ Cardinality(Busy(n)) <= Cardinality(Threads)
      BY BusyIsSmall
    <3>4. ASSUME NEW m \in Tools
          PROVE  errors'[m] + Cardinality(Busy(m))' <= MaxRetries - 1 + Cardinality(Threads)
      <4>1. CASE m = n
        BY <1>n, <3>1, <3>2, <3>3, <4>1
      <4>2. CASE m # n
        BY <3>1, <3>2, <4>2 DEF Foreseen
      <4> QED BY <4>1, <4>2
    <3> QED BY <2>4, <3>4 DEF Foreseen
  <2>6. CASE errors' = [errors EXCEPT ![n] = @ + 1] /\ stage' = [stage EXCEPT ![t] = "start"]
    <3>1. /\ Cardinality(Busy(n))' = Cardinality(Busy(n)) - 1
          /\ \A m \in Tools \ {n} : Busy(m)' = Busy(m)
      BY <1>3, <2>1, <2>6, BusyLeaves DEF RepairAndValidate
    <3>2. errors'[n] = errors[n] + 1 /\ \A m \in Tools \ {n} : errors'[m] = errors[m]
      BY <2>1, <2>6 DEF FixTypeOK
    <3>3. Cardinality(Busy(n)) \in Nat
      BY BusyIsSmall
    <3>4. ASSUME NEW m \in Tools
          PROVE  errors'[m] + Cardinality(Busy(m))' <= MaxRetries - 1 + Cardinality(Threads)
      <4>1. CASE m = n
        BY <1>n, <2>1, <3>1, <3>2, <3>3, <4>1 DEF Foreseen
      <4>2. CASE m # n
        BY <3>1, <3>2, <4>2 DEF Foreseen
      <4> QED BY <4>1, <4>2
    <3> QED BY <2>4, <3>4 DEF Foreseen
  <2> QED BY <2>2, <2>5, <2>6
<1>4. ASSUME NEW t \in Threads, Finish(t) PROVE FixInv'
  <2> DEFINE n == called[t]
  <2>1. n \in Tools /\ called' = called /\ errors[n] \in Nat
    BY <1>4 DEF Finish, FixTypeOK
  <2>2. FixTypeOK'
    BY <1>4, <2>1 DEF Finish, GoOn, CountError, FixTypeOK, Stages
  <2>3. /\ Cardinality(Busy(n))' = Cardinality(Busy(n)) - 1
        /\ \A m \in Tools \ {n} : Busy(m)' = Busy(m)
    BY <1>4, <2>1, BusyLeaves DEF Finish, GoOn
  <2>4. errors'[n] <= errors[n] + 1 /\ \A m \in Tools \ {n} : errors'[m] = errors[m]
    BY <1>4, <2>1 DEF Finish, CountError, FixTypeOK
  <2>5. Cardinality(Busy(n)) \in Nat /\ errors'[n] \in Nat
    BY <2>1, <2>2, BusyIsSmall DEF FixTypeOK
  <2>6. ASSUME NEW m \in Tools
        PROVE  errors'[m] + Cardinality(Busy(m))' <= MaxRetries - 1 + Cardinality(Threads)
    <3>1. CASE m = n
      BY <1>n, <2>1, <2>3, <2>4, <2>5, <3>1 DEF Foreseen
    <3>2. CASE m # n
      BY <2>3, <2>4, <3>2 DEF Foreseen
    <3> QED BY <3>1, <3>2
  <2> QED BY <2>2, <2>6 DEF Foreseen
<1>5. ASSUME NEW t \in Threads, FinishUnchecked(t) PROVE FixInv'
  <2>1. FixTypeOK'
    BY <1>5 DEF FinishUnchecked, GoOn, FixTypeOK, Stages
  <2>2. \A m \in Tools : Busy(m)' = Busy(m) /\ errors'[m] = errors[m]
    BY <1>5 DEF FinishUnchecked, GoOn, Busy, FixTypeOK
  <2> QED BY <2>1, <2>2 DEF Foreseen
<1>6. CASE NewRun
  <2>1. FixTypeOK'
    BY <1>6 DEF NewRun, FixTypeOK
  <2>2. \A m \in Tools : errors'[m] = 0
    BY <1>6 DEF NewRun
  <2> QED BY <1>n, <2>1, <2>2, BusyIsSmall DEF Foreseen
<1>7. CASE UNCHANGED fixVars
  <2>1. FixTypeOK'
    BY <1>7 DEF fixVars, FixTypeOK
  <2>2. \A m \in Tools : Busy(m)' = Busy(m) /\ errors'[m] = errors[m]
    BY <1>7 DEF fixVars, Busy
  <2> QED BY <2>1, <2>2 DEF Foreseen
<1> QED BY <1>1, <1>2, <1>3, <1>4, <1>5, <1>6, <1>7 DEF FixNext

\* However many threads overlap between the reading of a count and the error
\* that follows it, the count passes the limit by less than one for each.
THEOREM ErrorsStayBounded == FixSpec => []ErrorsBounded
<1>1. FixInv => ErrorsBounded
  <2> SUFFICES ASSUME FixInv, NEW n \in Tools
               PROVE  errors[n] < MaxRetries + Cardinality(Threads)
    BY DEF ErrorsBounded
  <2>1. /\ errors[n] \in Nat /\ MaxRetries \in Nat /\ Cardinality(Threads) \in Nat
        /\ Cardinality(Busy(n)) \in Nat
    BY FixAssumption, Threads2Nat, BusyIsSmall DEF FixInv, FixTypeOK
  <2> QED BY <2>1 DEF FixInv, Foreseen
<1> QED BY <1>1, FixInitInv, FixNextInv, PTL DEF FixSpec

------------------------------------------------------------------------------
(* Runs that no other run overlapped                                        *)

RunTypes ==
    /\ phase \in [Jobs -> {"out", "started", "ready", "audited", "calling"}]
    /\ calls \in [Jobs -> Nat] /\ \A j \in Jobs : phase[j] \in {"out", "started"} => calls[j] = 0
    /\ fault \in [Jobs -> Faults] /\ alone \in [Jobs -> BOOLEAN]
    /\ DOMAIN model = Jobs /\ DOMAIN wanted = Jobs /\ DOMAIN record = Jobs
    /\ Configurable \/ faultId = "UNKNOWN"

\* The fault that a lone run of thread j is recorded with.
FaultNamed(j) == IF Configurable THEN fault[j] ELSE "UNKNOWN"

\* The attributes of the two middlewares are those of the lone run j.
Own(j) ==
    /\ \A i \in Jobs \ {j} : phase[i] = "out"
    /\ faultId = FaultNamed(j) /\ modelCallCount = calls[j]
    /\ record[j] = [fault |-> FaultNamed(j), index |-> calls[j]]
    /\ phase[j] # "started" =>
          /\ callIndex = IF phase[j] = "audited" THEN calls[j] - 1 ELSE calls[j]
          /\ currentModelName \in {NoModel, model[j]}
    /\ phase[j] = "calling" =>
          /\ wanted[j] # NoModel => model[j] = wanted[j]
          /\ \E hit \in BOOLEAN : wanted[j] = MatchRule(hit, calls[j])

LoneRunsOwn == \A j \in Jobs : phase[j] # "out" /\ alone[j] => Own(j)

RunInv == RunTypes /\ LoneRunsOwn

LEMMA RunInitInv == RunInit => RunInv
  BY DEF RunInit, RunInv, RunTypes, LoneRunsOwn

\* A step of run k is a step of the only lone run there is, or there is none.
LEMMA OnlyOneMoves ==
  ASSUME RunInv, NEW j \in Jobs, NEW k \in Jobs, phase[j] # "out", alone[j], phase[k] # "out"
  PROVE  j = k
  BY DEF RunInv, LoneRunsOwn, Own

LEMMA RunNextInv == RunInv /\ [RunNext]_runVars => RunInv'
<1> SUFFICES ASSUME RunInv, [RunNext]_runVars PROVE RunInv'
  OBVIOUS
<1> USE DEF RunInv
<1>1. ASSUME NEW k \in Jobs, AuditBeforeAgent(k) PROVE RunInv'
  <2>1. /\ phase' = [phase EXCEPT ![k] = "started"] /\ phase[k] = "out"
        /\ faultId' = FaultNamed(k) /\ modelCallCount' = 0
        /\ record' = [record EXCEPT ![k] = [fault |-> FaultNamed(k), index |-> 0]]
        /\ alone' = [i \in Jobs |-> i = k /\ \A o \in Jobs \ {k} : phase[o] = "out"]
        /\ UNCHANGED <<fault, model, wanted, calls>>
    <3>1. FaultFound(k) = FaultNamed(k)
      BY DEF FaultFound, FaultNamed, RunTypes
    <3> QED BY <1>1, <3>1 DEF AuditBeforeAgent, Enter, Log
  <2>2. RunTypes'
    BY <2>1 DEF RunTypes, FaultNamed
  <2>3. ASSUME NEW j \in Jobs, alone'[j] PROVE Own(j)'
    <3>1. j = k /\ \A o \in Jobs \ {k} : phase[o] = "out"
      BY <2>1, <2>3
    <3>2. calls'[k] = 0 /\ phase'[k] = "started"
      BY <2>1 DEF RunTypes
    <3> QED BY <2>1, <3>1, <3>2 DEF Own, RunTypes, FaultNamed
  <2> QED BY <2>2, <2>3 DEF LoneRunsOwn
<1>2. ASSUME NEW k \in Jobs, SwitchBeforeAgent(k) PROVE RunInv'
  <2>1. /\ phase' = [phase EXCEPT ![k] = "ready"] /\ phase[k] = "started"
        /\ callIndex' = 0 /\ currentModelName' = NoModel
        /\ UNCHANGED <<faultId, modelCallCount, fault, model, wanted, calls, alone, record>>
    BY <1>2 DEF SwitchBeforeAgent, Enter, audit
  <2>2. RunTypes'
    BY <2>1 DEF RunTypes
  <2>3. ASSUME NEW j \in Jobs, phase'[j] # "out", alone'[j] PROVE Own(j)'
    <3>1. phase[j] # "out" /\ j = k /\ Own(j)
      BY <2>1, <2>3, OnlyOneMoves DEF RunTypes, LoneRunsOwn
    <3>2. calls'[k] = 0 /\ phase'[k] = "ready"
      BY <2>1 DEF RunTypes
    <3> QED BY <2>1, <3>1, <3>2 DEF Own, RunTypes, FaultNamed
  <2> QED BY <2>2, <2>3 DEF LoneRunsOwn
<1>3. ASSUME NEW k \in Jobs, AuditBeforeModel(k) PROVE RunInv'
  <2>1. /\ phase' = [phase EXCEPT ![k] = "audited"] /\ phase[k] = "ready"
        /\ modelCallCount' = modelCallCount + 1
        /\ calls' = [calls EXCEPT ![k] = @ + 1]
        /\ record' = [record EXCEPT ![k] = [fault |-> faultId, index |-> modelCallCount + 1]]
        /\ UNCHANGED <<faultId, callIndex, currentModelName, fault, model, wanted, alone>>
    BY <1>3 DEF AuditBeforeModel, Enter, Log, switch
  <2>2. RunTypes'
    BY <2>1 DEF RunTypes
  <2>3. ASSUME NEW j \in Jobs, phase'[j] # "out", alone'[j] PROVE Own(j)'
    <3>1. phase[j] # "out" /\ j = k /\ Own(j)
      BY <2>1, <2>3, OnlyOneMoves DEF RunTypes, LoneRunsOwn
    <3>2. calls'[k] = calls[k] + 1 /\ calls[k] \in Nat /\ phase'[k] = "audited"
      BY <2>1 DEF RunTypes
    <3> QED BY <2>1, <3>1, <3>2 DEF Own, RunTypes, FaultNamed
  <2> QED BY <2>2, <2>3 DEF LoneRunsOwn
<1>4. ASSUME NEW k \in Jobs, SwitchBeforeModel(k) PROVE RunInv'
  <2>1. PICK hit \in BOOLEAN :
          LET target == MatchRule(hit, callIndex')
          IN  /\ wanted' = [wanted EXCEPT ![k] = target]
              /\ IF target \in {NoModel, currentModelName}
                 THEN UNCHANGED <<model, currentModelName>>
                 ELSE /\ model' = [model EXCEPT ![k] = target]
                      /\ currentModelName' = target
    BY <1>4 DEF SwitchBeforeModel
  <2> DEFINE target == MatchRule(hit, callIndex')
  <2>2. /\ phase' = [phase EXCEPT ![k] = "calling"] /\ phase[k] = "audited"
        /\ callIndex' = callIndex + 1
        /\ UNCHANGED <<faultId, modelCallCount, fault, calls, alone, record>>
    BY <1>4 DEF SwitchBeforeModel, Enter, audit
  <2>3. RunTypes'
    BY <2>1, <2>2 DEF RunTypes
  <2>4. ASSUME NEW j \in Jobs, phase'[j] # "out", alone'[j] PROVE Own(j)'
    <3>1. phase[j] # "out" /\ j = k /\ Own(j)
      BY <2>2, <2>4, OnlyOneMoves DEF RunTypes, LoneRunsOwn
    <3>2. calls'[k] = calls[k] /\ calls[k] \in Nat /\ phase'[k] = "calling"
      BY <2>2 DEF RunTypes
    <3>3. callIndex' = calls'[k]
      BY <2>2, <3>1, <3>2 DEF Own
    <3>4. wanted'[k] = target /\ target = MatchRule(hit, calls'[k])
      BY <2>1, <3>3 DEF RunTypes
    <3>5. /\ target # NoModel => model'[k] = target
          /\ currentModelName' \in {NoModel, model'[k]}
      <4> HIDE DEF target
      <4>1. currentModelName \in {NoModel, model[k]}
        BY <2>2, <3>1 DEF Own
      <4>2. CASE target \in {NoModel, currentModelName}
        BY <2>1, <4>1, <4>2 DEF target
      <4>3. CASE target \notin {NoModel, currentModelName}
        BY <2>1, <4>3 DEF target, RunTypes
      <4> QED BY <4>2, <4>3
    <3>6. \E s \in BOOLEAN : wanted'[k] = MatchRule(s, calls'[k])
      BY <3>4
    <3>7. \A i \in Jobs \ {k} : phase'[i] = "out"
      BY <2>2, <3>1 DEF Own, RunTypes
    <3>8. /\ faultId' = FaultNamed(k)' /\ modelCallCount' = calls'[k]
          /\ record'[k] = [fault |-> FaultNamed(k)', index |-> calls'[k]]
      BY <2>2, <3>1 DEF Own, FaultNamed
    <3> HIDE DEF target
    <3> QED BY <3>1, <3>2, <3>3, <3>4, <3>5, <3>6, <3>7, <3>8 DEF Own
  <2> QED BY <2>3, <2>4 DEF LoneRunsOwn
<1>5. ASSUME NEW k \in Jobs, AfterModel(k) PROVE RunInv'
  <2>1. /\ phase' = [phase EXCEPT ![k] = "ready"] /\ phase[k] = "calling"
        /\ record' = [record EXCEPT ![k] = [fault |-> faultId, index |-> modelCallCount]]
        /\ UNCHANGED <<faultId, modelCallCount, callIndex, currentModelName,
                       fault, model, wanted, calls, alone>>
    BY <1>5 DEF AfterModel, Enter, Log, audit, switch
  <2>2. RunTypes'
    BY <2>1 DEF RunTypes
  <2>3. ASSUME NEW j \in Jobs, phase'[j] # "out", alone'[j] PROVE Own(j)'
    <3>1. phase[j] # "out" /\ j = k /\ Own(j)
      BY <2>1, <2>3, OnlyOneMoves DEF RunTypes, LoneRunsOwn
    <3>2. phase'[k] = "ready"
      BY <2>1 DEF RunTypes
    <3> QED BY <2>1, <3>1, <3>2 DEF Own, RunTypes, FaultNamed
  <2> QED BY <2>2, <2>3 DEF LoneRunsOwn
<1>6. ASSUME NEW k \in Jobs, AfterAgent(k) PROVE RunInv'
  <2>1. /\ phase' = [phase EXCEPT ![k] = "out"] /\ phase[k] # "out"
        /\ \E f \in Faults : fault' = [fault EXCEPT ![k] = f]
        /\ model' = [model EXCEPT ![k] = DefaultModel]
        /\ wanted' = [wanted EXCEPT ![k] = NoModel]
        /\ calls' = [calls EXCEPT ![k] = 0]
        /\ UNCHANGED <<faultId, alone, record>>
    BY <1>6 DEF AfterAgent, Enter, audit
  <2>2. RunTypes'
    BY <2>1 DEF RunTypes
  <2>3. ASSUME NEW j \in Jobs, phase'[j] # "out", alone'[j] PROVE FALSE
    BY <2>1, <2>3, OnlyOneMoves DEF RunTypes
  <2> QED BY <2>2, <2>3 DEF LoneRunsOwn
<1>7. CASE UNCHANGED runVars
  BY <1>7 DEF runVars, RunTypes, LoneRunsOwn, Own, FaultNamed
<1> QED BY <1>1, <1>2, <1>3, <1>4, <1>5, <1>6, <1>7 DEF RunNext

LEMMA AlwaysOwn == RunSpec => []RunInv
  BY RunInitInv, RunNextInv, PTL DEF RunSpec

\* What a run that no other overlapped logs is the number of its own model call,
\* and its own fault, or no fault at all where the hook cannot read it, whatever
\* earlier runs left in the attributes.
THEOREM LoneRunsAreAudited == RunSpec => []LoneRunAudited
<1>1. RunInv => LoneRunAudited
  BY DEF RunInv, LoneRunsOwn, Own, LoneRunAudited, FaultNamed
<1> QED BY <1>1, AlwaysOwn, PTL

\* A run that no other overlapped calls the model that its rules chose, for any
\* list of rules: a switch is never skipped for a name an earlier run left.
THEOREM LoneRunsSwitch == RunSpec => []LoneRunModel
<1>1. RunInv => LoneRunModel
  BY DEF RunInv, LoneRunsOwn, Own, LoneRunModel
<1> QED BY <1>1, AlwaysOwn, PTL

------------------------------------------------------------------------------
(* Arithmetic of one bucket                                                 *)

LEMMA Times ==
  /\ \A a, b \in Nat : a * b \in Nat
  /\ \A a, b \in Nat : a * (b + 1) = a * b + a /\ (a + 1) * b = a * b + b
  /\ \A a, b, c \in Nat : b <= c => a * b <= a * c
  /\ \A a \in Nat : a * 0 = 0 /\ 0 * a = 0
<1>1. \A a, b \in Nat : a * b \in Nat
  OBVIOUS
<1>2. \A a, b \in Nat : a * (b + 1) = a * b + a /\ (a + 1) * b = a * b + b
  OBVIOUS
<1>3. ASSUME NEW a \in Nat, NEW b \in Nat, NEW c \in Nat, b <= c PROVE a * b <= a * c
  <2>1. PICK d \in Nat : c = b + d
    <3>1. c - b \in Nat /\ c = b + (c - b)
      BY <1>3
    <3> QED BY <3>1
  <2>2. a * c = a * b + a * d
    BY <2>1
  <2>3. a * d \in Nat /\ a * b \in Nat
    BY <1>1
  <2> QED BY <2>2, <2>3
<1>4. \A a \in Nat : a * 0 = 0 /\ 0 * a = 0
  OBVIOUS
<1> QED BY <1>1, <1>2, <1>3, <1>4

\* What a bucket holds, when it holds t units since i ticks.
Held(t, i, r) == IF t + r * i > r * Minute THEN r * Minute ELSE t + r * i

LEMMA HeldFacts ==
  ASSUME NEW r \in Nat, NEW t \in Nat, t <= r * Minute, NEW i \in 0 .. Minute
  PROVE  /\ Held(t, i, r) \in Nat /\ Held(t, i, r) <= r * Minute
         /\ Held(t, 0, r) = t
         /\ i = Minute => Held(t, i, r) = r * Minute
         /\ i < Minute => /\ Held(t, i, r) <= Held(t, i + 1, r)
                          /\ Held(t, i + 1, r) <= Held(t, i, r) + r
                          /\ \/ Held(t, i + 1, r) = r * Minute
                             \/ Held(t, i + 1, r) = Held(t, i, r) + r
<1>1. Minute \in Nat /\ i \in Nat
  BY RateAssumption
<1>2. r * Minute \in Nat /\ r * i \in Nat /\ r * 0 = 0 /\ r * (i + 1) = r * i + r
  BY <1>1, Times
<1> DEFINE cap == r * Minute
           gain == r * i
           next == r * (i + 1)
<1>3. cap \in Nat /\ gain \in Nat /\ next = gain + r /\ t <= cap
  BY <1>2
<1>4. i = Minute => gain = cap
  OBVIOUS
<1>5. /\ Held(t, i, r) = IF t + gain > cap THEN cap ELSE t + gain
      /\ Held(t, i + 1, r) = IF t + next > cap THEN cap ELSE t + next
      /\ Held(t, 0, r) = IF t + r * 0 > cap THEN cap ELSE t + r * 0
  BY DEF Held
<1>6. Held(t, 0, r) = t
  BY <1>5, <1>2, <1>3
<1> HIDE DEF cap, gain, next
<1>7. /\ Held(t, i, r) \in Nat /\ Held(t, i, r) <= cap
      /\ i = Minute => Held(t, i, r) = cap
      /\ /\ Held(t, i, r) <= Held(t, i + 1, r)
         /\ Held(t, i + 1, r) <= Held(t, i, r) + r
         /\ \/ Held(t, i + 1, r) = cap
            \/ Held(t, i + 1, r) = Held(t, i, r) + r
  BY <1>3, <1>4, <1>5
<1> QED BY <1>6, <1>7 DEF cap

------------------------------------------------------------------------------
(* Types                                                                    *)

\* The part of the types that is about the buckets, and about the calls.
BucketsOK ==
    /\ tokens \in [Buckets -> Nat] /\ \A b \in Buckets : tokens[b] <= Capacity(b)
    /\ idle \in [Buckets -> 0 .. Minute]
    /\ watched \in Buckets /\ seen \in 0 .. Minute /\ granted \in Nat

CallersOK ==
    /\ strategy \in Strategies
    /\ at \in [Callers -> Positions]
    /\ todo \in [Callers -> Seq(Buckets)]
    /\ \A c \in Callers : at[c] \in {"refused", "loop", "asleep"} => todo[c] # << >>
    /\ left \in [Callers -> 0 .. WaitTimeout]

LEMMA TypeParts == RateTypeOK <=> BucketsOK /\ CallersOK
  BY DEF RateTypeOK, BucketsOK, CallersOK

LEMMA AvailableIsHeld ==
  /\ \A b \in Buckets : Available(b) = Held(tokens[b], idle[b], Rpm[b])
  /\ \A b \in Buckets : Available(b)' = Held(tokens'[b], idle'[b], Rpm[b])
  BY DEF Available, Held, Capacity

LEMMA AvailableFits ==
  ASSUME BucketsOK, NEW b \in Buckets
  PROVE  Available(b) \in Nat /\ Available(b) <= Capacity(b)
<1>1. Rpm[b] \in Nat /\ tokens[b] \in Nat /\ idle[b] \in 0 .. Minute /\ tokens[b] <= Rpm[b] * Minute
  BY RateAssumption DEF BucketsOK, Capacity
<1>2. Held(tokens[b], idle[b], Rpm[b]) \in Nat /\ Held(tokens[b], idle[b], Rpm[b]) <= Rpm[b] * Minute
  BY <1>1, HeldFacts
<1> QED BY <1>2, AvailableIsHeld DEF Capacity

\* A refill and what is spent under its lock: the bucket holds so much less,
\* the others what they held.
LEMMA RefillFacts ==
  ASSUME BucketsOK, NEW b \in Buckets, NEW spent \in Nat, spent <= Available(b),
         Refill(b, spent)
  PROVE  /\ tokens' \in [Buckets -> Nat] /\ \A x \in Buckets : tokens'[x] <= Capacity(x)
         /\ idle' \in [Buckets -> 0 .. Minute]
         /\ Available(b)' = Available(b) - spent
         /\ \A x \in Buckets \ {b} : Available(x)' = Available(x)
<1>1. Available(b) \in Nat /\ Available(b) <= Capacity(b) /\ Minute \in Nat
  BY AvailableFits, RateAssumption
<1>2. Capacity(b) \in Nat /\ Capacity(b) = Rpm[b] * Minute /\ Rpm[b] \in Nat
  BY Times, RateAssumption DEF Capacity
<1>3. /\ tokens' = [tokens EXCEPT ![b] = Available(b) - spent]
      /\ idle' = [idle EXCEPT ![b] = 0]
  BY DEF Refill
<1>4. Available(b) - spent \in Nat /\ Available(b) - spent <= Capacity(b)
  BY <1>1, <1>2
<1>5. /\ tokens' \in [Buckets -> Nat] /\ idle' \in [Buckets -> 0 .. Minute]
      /\ tokens'[b] = Available(b) - spent /\ idle'[b] = 0
      /\ \A x \in Buckets \ {b} : tokens'[x] = tokens[x] /\ idle'[x] = idle[x]
  BY <1>1, <1>3, <1>4 DEF BucketsOK
<1>6. \A x \in Buckets : tokens'[x] <= Capacity(x)
  BY <1>4, <1>5 DEF BucketsOK
<1>7. Held(tokens'[b], 0, Rpm[b]) = tokens'[b]
  BY <1>1, <1>2, <1>4, <1>5, HeldFacts
<1> QED BY <1>5, <1>6, <1>7, AvailableIsHeld

------------------------------------------------------------------------------
(* The books of the bucket that is watched                                  *)

\* What it gave out and what it holds are at most a full bucket and what it
\* gained since the window was opened, and at least the latter.
Balanced ==
    LET account == granted * Minute + Available(watched)
        gained == Rpm[watched] * seen
    IN  gained <= account /\ account <= Capacity(watched) + gained

RateInv == BucketsOK /\ CallersOK /\ Balanced

LEMMA Numbers ==
  ASSUME BucketsOK
  PROVE  /\ Minute \in Nat /\ Minute > 0 /\ seen \in Nat /\ granted \in Nat
         /\ Rpm[watched] \in Nat /\ Rpm[watched] > 0
         /\ Available(watched) \in Nat /\ Available(watched) <= Capacity(watched)
         /\ Capacity(watched) \in Nat /\ Capacity(watched) = Rpm[watched] * Minute
         /\ granted * Minute \in Nat /\ Rpm[watched] * seen \in Nat
<1>1. watched \in Buckets /\ seen \in Nat /\ granted \in Nat /\ Minute \in Nat /\ Minute > 0
  BY RateAssumption DEF BucketsOK
<1>2. Rpm[watched] \in Nat /\ Rpm[watched] > 0
  BY <1>1, RateAssumption
<1>3. Available(watched) \in Nat /\ Available(watched) <= Capacity(watched)
  BY <1>1, AvailableFits
<1> QED BY <1>1, <1>2, <1>3, Times DEF Capacity

LEMMA InitBalanced == RateInit => RateInv
<1> SUFFICES ASSUME RateInit PROVE RateInv
  OBVIOUS
<1>1. \A b \in Buckets : Rpm[b] \in Nat /\ Capacity(b) \in Nat /\ Minute \in Nat
  BY RateAssumption, Times DEF Capacity
<1>2. BucketsOK
  BY <1>1 DEF RateInit, BucketsOK
<1>3. CallersOK
  BY RateAssumption DEF RateInit, CallersOK, Positions
<1>4. seen = 0 /\ granted = 0 /\ granted * Minute = 0 /\ Rpm[watched] * seen = 0
  BY <1>2, Numbers, Times DEF RateInit
<1>5. Balanced
  BY <1>2, <1>4, Numbers DEF Balanced
<1> QED BY <1>2, <1>3, <1>5 DEF RateInv

\* The bucket `b` gives out a token, or is found empty.
LEMMA TakeBalances ==
  ASSUME BucketsOK, Balanced, NEW b \in Buckets, TakeToken(b), UNCHANGED <<watched, seen>>
  PROVE  BucketsOK' /\ Balanced'
<1>1. Minute \in Nat /\ Minute <= Available(b) /\ Refill(b, Minute)
  BY AvailableFits, RateAssumption DEF TakeToken, HasToken
<1>2. /\ tokens' \in [Buckets -> Nat] /\ \A x \in Buckets : tokens'[x] <= Capacity(x)
      /\ idle' \in [Buckets -> 0 .. Minute]
      /\ Available(b)' = Available(b) - Minute
      /\ \A x \in Buckets \ {b} : Available(x)' = Available(x)
  BY <1>1, RefillFacts
<1>3. granted' = IF b = watched THEN granted + 1 ELSE granted
  BY DEF TakeToken
<1>4. BucketsOK'
  BY <1>2, <1>3 DEF BucketsOK, Capacity
<1>5. /\ Available(watched)' = IF b = watched THEN Available(b) - Minute ELSE Available(watched)
      /\ Capacity(watched)' = Capacity(watched)
  BY <1>2 DEF BucketsOK, Capacity, Available
<1>6. granted' * Minute = IF b = watched THEN granted * Minute + Minute ELSE granted * Minute
  BY <1>3, Numbers, Times
<1>7. granted' * Minute + Available(watched)' = granted * Minute + Available(watched)
  BY <1>5, <1>6, <1>1, Numbers
<1>8. Balanced'
  BY <1>5, <1>7 DEF Balanced
<1> QED BY <1>4, <1>8

LEMMA RefillBalances ==
  ASSUME BucketsOK, Balanced, NEW b \in Buckets, Refill(b, 0), UNCHANGED window
  PROVE  BucketsOK' /\ Balanced'
<1>1. 0 <= Available(b) /\ Available(b) \in Nat
  BY AvailableFits
<1>2. /\ tokens' \in [Buckets -> Nat] /\ \A x \in Buckets : tokens'[x] <= Capacity(x)
      /\ idle' \in [Buckets -> 0 .. Minute]
      /\ \A x \in Buckets : Available(x)' = Available(x)
  BY <1>1, RefillFacts
<1>3. BucketsOK'
  BY <1>2 DEF BucketsOK, Capacity, window
<1>4. Available(watched)' = Available(watched) /\ Capacity(watched)' = Capacity(watched)
  BY <1>2 DEF BucketsOK, window, Available, Capacity
<1>5. Balanced'
  BY <1>4 DEF Balanced, window
<1> QED BY <1>3, <1>5

LEMMA TickBalances ==
  ASSUME BucketsOK, Balanced, RateTick
  PROVE  BucketsOK' /\ Balanced'
<1> DEFINE r == Rpm[watched]
           t == tokens[watched]
           i == idle[watched]
<1>1. /\ idle' = [b \in Buckets |-> IF idle[b] < Minute THEN idle[b] + 1 ELSE Minute]
      /\ tokens' = tokens /\ watched' = watched
      /\ \/ seen < Minute /\ seen' = seen + 1 /\ granted' = granted
         \/ seen' = 0 /\ granted' = 0
  BY DEF RateTick
<1>2. /\ Minute \in Nat /\ watched \in Buckets /\ idle \in [Buckets -> 0 .. Minute]
      /\ seen \in 0 .. Minute
  BY RateAssumption DEF BucketsOK
<1>3. BucketsOK'
  <2>1. idle' \in [Buckets -> 0 .. Minute]
    BY <1>1, <1>2
  <2>2. seen' \in 0 .. Minute
    BY <1>1, <1>2
  <2> QED BY <1>1, <2>1, <2>2 DEF BucketsOK, Capacity
<1>4. r \in Nat /\ t \in Nat /\ t <= r * Minute /\ i \in 0 .. Minute
  BY <1>2, RateAssumption DEF BucketsOK, Capacity
<1>5. /\ Available(watched) = Held(t, i, r)
      /\ Available(watched)' = Held(t, IF i < Minute THEN i + 1 ELSE Minute, r)
  <2>1. tokens'[watched'] = t /\ idle'[watched'] = IF i < Minute THEN i + 1 ELSE Minute
    BY <1>1, <1>2
  <2>2. Available(watched)' = Held(tokens'[watched'], idle'[watched'], Rpm[watched'])
    BY DEF Available, Held, Capacity
  <2> QED BY <1>1, <1>2, <2>1, <2>2, AvailableIsHeld
<1> DEFINE before == Available(watched)
           after == Available(watched)'
           cap == Capacity(watched)
<1>6. /\ before <= after /\ after <= before + r
      /\ after = cap \/ after = before + r
  <2>0. cap = r * Minute
    BY DEF Capacity
  <2>1. CASE i < Minute
    BY <2>0, <2>1, <1>4, <1>5, HeldFacts
  <2>2. CASE ~ (i < Minute)
    <3>1. i = Minute /\ before = after
      BY <2>2, <1>4, <1>5, <1>2
    <3>2. before = cap /\ before \in Nat
      BY <3>1, <2>0, <1>4, <1>5, HeldFacts
    <3> QED BY <3>1, <3>2, <1>4
  <2> QED BY <2>1, <2>2
<1>7. cap' = cap /\ r' = r
  BY <1>1 DEF Capacity
<1>8. /\ r \in Nat /\ before \in Nat /\ cap \in Nat /\ cap = r * Minute /\ granted \in Nat
      /\ granted * Minute \in Nat /\ r * seen \in Nat /\ seen \in Nat
  BY Numbers
<1>9. after \in Nat /\ after <= cap
  <2>1. CASE i < Minute
    <3>1. i + 1 \in 0 .. Minute
      BY <2>1, <1>2, <1>4
    <3> QED BY <2>1, <3>1, <1>4, <1>5, <1>8, HeldFacts
  <2>2. CASE ~ (i < Minute)
    <3>1. Minute \in 0 .. Minute
      BY <1>2
    <3> QED BY <2>2, <3>1, <1>4, <1>5, <1>8, HeldFacts
  <2> QED BY <2>1, <2>2
<1>10. CASE seen < Minute /\ seen' = seen + 1 /\ granted' = granted
  <2>1. r * seen' = r * seen + r
    BY <1>10, <1>8, Times
  <2>2. r * seen' <= cap
    BY <1>10, <1>8, <1>2, Times
  <2>3. r * seen <= granted * Minute + before /\ granted * Minute + before <= cap + r * seen
    BY DEF Balanced
  <2>4. r * seen' <= granted * Minute + after
    <3>1. CASE after = cap
      BY <3>1, <2>1, <2>2, <1>8
    <3>2. CASE after = before + r
      BY <3>2, <2>1, <2>3, <1>8
    <3> QED BY <3>1, <3>2, <1>6
  <2>5. granted * Minute + after <= cap + r * seen'
    BY <2>1, <2>3, <1>6, <1>8, <1>9
  <2> QED BY <2>4, <2>5, <1>3, <1>7, <1>10 DEF Balanced
<1>11. CASE seen' = 0 /\ granted' = 0
  <2>1. granted' * Minute = 0 /\ r * seen' = 0
    BY <1>11, <1>2, <1>8, Times
  <2> QED BY <2>1, <1>3, <1>7, <1>8, <1>9 DEF Balanced
<1> QED BY <1>1, <1>10, <1>11

LEMMA OpenBalances ==
  ASSUME BucketsOK, OpenWindow
  PROVE  BucketsOK' /\ Balanced'
<1>1. BucketsOK'
  BY RateAssumption DEF BucketsOK, OpenWindow, Capacity
<1>2. Available(watched)' = Available(watched) /\ Capacity(watched)' = Capacity(watched)
  BY DEF OpenWindow, Available, Capacity
<1>3. granted' * Minute = 0 /\ Rpm[watched'] * seen' = 0
  BY Numbers, Times DEF OpenWindow
<1> QED BY <1>1, <1>2, <1>3, Numbers DEF Balanced

------------------------------------------------------------------------------
(* The invariant                                                            *)

\* Where a caller moves to, with what it has still to do.
LEMMA CallerMoves ==
  ASSUME CallersOK, NEW c \in Callers, NEW label \in Positions, NEW rest \in Seq(Buckets),
         label \in {"refused", "loop", "asleep"} => rest # << >>,
         at' = [at EXCEPT ![c] = label], todo' = [todo EXCEPT ![c] = rest],
         left' \in [Callers -> 0 .. WaitTimeout], UNCHANGED strategy
  PROVE  CallersOK'
<1>1. at' \in [Callers -> Positions] /\ todo' \in [Callers -> Seq(Buckets)]
  BY DEF CallersOK
<1>2. ASSUME NEW x \in Callers, at'[x] \in {"refused", "loop", "asleep"} PROVE todo'[x] # << >>
  <2>1. CASE x = c
    BY <1>2, <2>1 DEF CallersOK
  <2>2. CASE x # c
    BY <1>2, <2>2 DEF CallersOK
  <2> QED BY <2>1, <2>2
<1> QED BY <1>1, <1>2 DEF CallersOK

LEMMA NextBalanced == RateInv /\ [RateNext]_rateVars => RateInv'
<1> SUFFICES ASSUME RateInv, [RateNext]_rateVars PROVE RateInv'
  OBVIOUS
<1> USE DEF RateInv
<1> DEFINE Waiting == {"refused", "loop", "asleep"}
<1>0. \A c \in Callers :
         /\ todo[c] \in Seq(Buckets) /\ todo = [todo EXCEPT ![c] = todo[c]]
         /\ todo[c] # << >> => Head(todo[c]) \in Buckets /\ Tail(todo[c]) \in Seq(Buckets)
         /\ at[c] \in Waiting => todo[c] # << >>
  BY DEF CallersOK
<1>k. /\ Waiting \subseteq Positions /\ {"idle", "check"} \subseteq Positions
      /\ << >> \in Seq(Buckets) /\ 0 \in 0 .. WaitTimeout /\ WaitTimeout \in 0 .. WaitTimeout
      /\ "idle" \notin Waiting /\ "check" \notin Waiting
  BY RateAssumption DEF Positions
<1>l. left \in [Callers -> 0 .. WaitTimeout]
  BY DEF CallersOK
<1>q. ASSUME UNCHANGED <<tokens, idle, window>> PROVE BucketsOK' /\ Balanced'
  BY <1>q DEF BucketsOK, Balanced, Capacity, Available, window
<1>1. ASSUME NEW c \in Callers, Begin(c) PROVE RateInv'
  <2>1. PICK k \in Kinds : todo' = [todo EXCEPT ![c] = Limits[k]]
    BY <1>1 DEF Begin
  <2>2. Limits[k] \in Seq(Buckets)
    BY RateAssumption
  <2>3. CallersOK'
    BY <1>1, <1>k, <1>l, <2>1, <2>2, CallerMoves DEF Begin, Move
  <2> QED BY <1>1, <1>q, <2>3 DEF Begin
<1>2. ASSUME NEW c \in Callers, Check(c) PROVE RateInv'
  <2>0. Head(todo[c]) \in Buckets /\ Tail(todo[c]) \in Seq(Buckets) /\ todo[c] # << >>
    BY <1>2, <1>0 DEF Check
  <2>1. CASE TakeToken(Head(todo[c])) /\ NextBucket(c)
    <3>1. CallersOK'
      BY <1>2, <2>0, <2>1, <1>k, <1>l, CallerMoves DEF Check, NextBucket, Move
    <3> QED BY <1>2, <2>0, <2>1, <3>1, TakeBalances DEF Check
  <2>2. CASE FindEmpty(Head(todo[c])) /\ Move(c, "refused") /\ UNCHANGED todo
    <3>1. CallersOK'
      BY <1>2, <2>0, <2>2, <1>0, <1>k, <1>l, CallerMoves DEF Check, Move
    <3> QED BY <1>2, <2>0, <2>2, <3>1, RefillBalances DEF Check, FindEmpty, window
  <2> QED BY <1>2, <2>1, <2>2 DEF Check
<1>3. ASSUME NEW c \in Callers, Pass(c) PROVE RateInv'
  <2>1. CallersOK'
    BY <1>3, <1>0, <1>k, <1>l, CallerMoves DEF Pass, Move
  <2> QED BY <1>3, <1>q, <2>1 DEF Pass
<1>4. ASSUME NEW c \in Callers, Refused(c) PROVE RateInv'
  <2>0. Head(todo[c]) \in Buckets /\ todo[c] # << >>
    BY <1>4, <1>0 DEF Refused
  <2>1. BucketsOK' /\ Balanced'
    BY <1>4, <2>0, RefillBalances DEF Refused
  <2>2. CASE strategy = "reject" /\ Raise(c) /\ UNCHANGED left
    BY <1>4, <2>1, <2>2, <1>k, <1>l, CallerMoves DEF Refused, Raise, Move
  <2>3. CASE Move(c, "loop") /\ left' = [left EXCEPT ![c] = WaitTimeout] /\ UNCHANGED todo
    <3>1. left' \in [Callers -> 0 .. WaitTimeout]
      BY <2>3, <1>k, <1>l
    <3>2. CallersOK'
      BY <1>4, <2>0, <2>3, <3>1, <1>0, <1>k, CallerMoves DEF Refused, Move
    <3> QED BY <2>1, <3>2
  <2> QED BY <1>4, <2>2, <2>3 DEF Refused
<1>5. ASSUME NEW c \in Callers, Retry(c) PROVE RateInv'
  <2>0. Head(todo[c]) \in Buckets /\ Tail(todo[c]) \in Seq(Buckets) /\ todo[c] # << >>
    BY <1>5, <1>0 DEF Retry
  <2>1. CASE left[c] = 0 /\ Raise(c) /\ UNCHANGED <<tokens, idle, granted, left>>
    <3>1. CallersOK'
      BY <1>5, <2>1, <1>k, <1>l, CallerMoves DEF Retry, Raise, Move
    <3> QED BY <1>5, <1>q, <2>1, <3>1 DEF Retry, window
  <2>2. CASE TakeToken(Head(todo[c])) /\ NextBucket(c) /\ left' = [left EXCEPT ![c] = 0]
    <3>1. left' \in [Callers -> 0 .. WaitTimeout]
      BY <2>2, <1>k, <1>l
    <3>2. CallersOK'
      BY <1>5, <2>0, <2>2, <3>1, <1>k, CallerMoves DEF Retry, NextBucket, Move
    <3> QED BY <1>5, <2>0, <2>2, <3>2, TakeBalances DEF Retry
  <2>3. CASE FindEmpty(Head(todo[c])) /\ Move(c, "asleep") /\ UNCHANGED <<todo, left>>
    <3>1. CallersOK'
      BY <1>5, <2>0, <2>3, <1>0, <1>k, <1>l, CallerMoves DEF Retry, Move
    <3> QED BY <1>5, <2>0, <2>3, <3>1, RefillBalances DEF Retry, FindEmpty, window
  <2> QED BY <1>5, <2>1, <2>2, <2>3 DEF Retry
<1>6. ASSUME NEW c \in Callers, Wake(c) PROVE RateInv'
  <2>1. todo[c] # << >>
    BY <1>6, <1>0 DEF Wake
  <2>2. CallersOK'
    BY <1>6, <2>1, <1>0, <1>k, <1>l, CallerMoves DEF Wake, Move
  <2> QED BY <1>6, <1>q, <2>2 DEF Wake
<1>7. CASE RateTick
  <2>1. left' \in [Callers -> 0 .. WaitTimeout]
    BY <1>7, <1>l, RateAssumption DEF RateTick
  <2>2. CallersOK'
    BY <1>7, <2>1 DEF RateTick, CallersOK
  <2> QED BY <1>7, <2>2, TickBalances
<1>8. CASE OpenWindow
  <2>1. CallersOK'
    BY <1>8 DEF OpenWindow, CallersOK
  <2> QED BY <1>8, <2>1, OpenBalances
<1>9. CASE UNCHANGED rateVars
  <2>1. CallersOK'
    BY <1>9 DEF rateVars, CallersOK
  <2> QED BY <1>9, <2>1, <1>q DEF rateVars
<1> QED
  BY <1>1, <1>2, <1>3, <1>4, <1>5, <1>6, <1>7, <1>8, <1>9 DEF RateNext, CallStep

LEMMA AlwaysBalanced == RateSpec => []RateInv
  BY InitBalanced, NextBalanced, PTL DEF RateSpec

------------------------------------------------------------------------------
(* What follows                                                             *)

\* The middleware keeps its types: a caller that waits has a bucket to wait
\* for, and no bucket overflows.
THEOREM TypeCorrect == RateSpec => []RateTypeOK
<1>1. RateInv => RateTypeOK
  BY TypeParts DEF RateInv
<1> QED BY <1>1, AlwaysBalanced, PTL

\* In no window of a minute or less does a bucket give out more than it could
\* hold at the start and gained since, whatever the callers do.
THEOREM RateIsBounded == RateSpec => []RateBound
<1>1. ASSUME RateInv PROVE RateBound
  <2>1. granted * Minute <= Capacity(watched) + Rpm[watched] * seen
    BY <1>1, Numbers DEF RateInv, Balanced
  <2>2. Rpm[watched] * (Minute + seen) = Rpm[watched] * Minute + Rpm[watched] * seen
    BY <1>1, Numbers DEF RateInv
  <2> QED BY <1>1, <2>1, <2>2, Numbers DEF RateInv, RateBound
<1> QED BY <1>1, AlwaysBalanced, PTL

\* A bucket that is empty after a minute gave out the calls of that minute:
\* no try, however it falls among the others, loses what was refilled.
THEOREM RefillsAreKept == RateSpec => []EmptyOnlyIfSpent
<1>1. ASSUME RateInv, seen = Minute, ~ HasToken(watched) PROVE granted >= Rpm[watched]
  <2>1. Available(watched) < Minute
    BY <1>1, Numbers DEF RateInv, HasToken
  <2>2. Rpm[watched] * Minute <= granted * Minute + Available(watched)
    BY <1>1 DEF RateInv, Balanced
  <2>3. Rpm[watched] * Minute < (granted + 1) * Minute
    BY <1>1, <2>1, <2>2, Numbers, Times DEF RateInv
  <2>4. ASSUME granted + 1 <= Rpm[watched] PROVE FALSE
    <3>1. Minute * (granted + 1) <= Minute * Rpm[watched]
      BY <1>1, <2>4, Numbers, Times DEF RateInv
    <3>2. Minute * (granted + 1) = (granted + 1) * Minute /\ Minute * Rpm[watched] = Rpm[watched] * Minute
      BY <1>1, Numbers DEF RateInv
    <3>3. (granted + 1) * Minute \in Nat /\ Rpm[watched] * Minute \in Nat
      BY <1>1, Numbers, Times DEF RateInv
    <3> QED BY <2>3, <3>1, <3>2, <3>3
  <2> QED BY <1>1, <2>4, Numbers DEF RateInv
<1>2. RateInv => EmptyOnlyIfSpent
  BY <1>1 DEF EmptyOnlyIfSpent
<1> QED BY <1>2, AlwaysBalanced, PTL

------------------------------------------------------------------------------
(* The two parts of the messages                                            *)

\* Summaries stand in front of what was said, k of them.
InFront(ms, k) ==
    /\ k \in 0 .. Len(ms)
    /\ \A i \in 1 .. k : ms[i].from = "summary"
    /\ \A i \in k + 1 .. Len(ms) : ms[i].from # "summary"

LEMMA PartsFacts ==
  ASSUME NEW S, NEW ms \in Seq(S), NEW k, InFront(ms, k)
  PROVE  /\ SystemPart(ms) = [r \in 1 .. k |-> ms[r]]
         /\ SaidPart(ms) = [r \in 1 .. Len(ms) - k |-> ms[k + r]]
<1> DEFINE n == Len(ms)
<1>1. n \in Nat /\ DOMAIN ms = 1 .. n /\ k \in 0 .. n
  BY DEF InFront
<1>2. {i \in DOMAIN ms : IsSystem(ms[i])} = 0 + 1 .. k
  BY <1>1 DEF InFront, IsSystem
<1>3. {i \in DOMAIN ms : ~ IsSystem(ms[i])} = k + 1 .. n
  BY <1>1 DEF InFront, IsSystem
<1>4. Pick(ms, 0 + 1 .. k) = [r \in 1 .. k - 0 |-> ms[0 + r]]
  BY <1>1, PickInterval
<1>5. Pick(ms, k + 1 .. n) = [r \in 1 .. n - k |-> ms[k + r]]
  BY <1>1, PickInterval
<1>6. [r \in 1 .. k - 0 |-> ms[0 + r]] = [r \in 1 .. k |-> ms[r]]
  BY <1>1
<1> QED BY <1>2, <1>3, <1>4, <1>5, <1>6 DEF SystemPart, SaidPart

------------------------------------------------------------------------------
(* What is kept, and how a message and a compression change it              *)

MessageRecords == [from : {"user", "model", "tool", "summary"},
                   of : SUBSET (1 .. MaxSaid), text : SUBSET (1 .. MaxSaid)]

\* A message that has every short text of what it stands in the place of.
Messages == {m \in MessageRecords : {n \in m.of : Content[n] = "short"} \subseteq m.text}

LEMMA MessagesAreRecords == Seq(Messages) \subseteq Seq(MessageRecords)
  BY DEF Messages

\* Behind the k summaries are the last of the n messages said, each alone under
\* its number; when the first is preserved it may stand apart from the others.
Newest(ms, k, n, first) ==
    /\ InFront(ms, k)
    /\ Len(ms) - k <= n
    /\ Len(ms) - k >= IF n < Recent THEN n ELSE Recent
    /\ \A i \in k + 1 .. Len(ms) : i > k + first => ms[i].of = {n - Len(ms) + i}
    /\ first = 1 /\ n > 0 => ms[k + 1].of = {1}

\* The k summaries stand for the first `gone` messages, in their order.
Summed(ms, k, gone) ==
    /\ \A i \in 1 .. k : ms[i].of # {} /\ ms[i].of \subseteq 1 .. gone
    /\ \A i, j \in 1 .. k : i < j => \A a \in ms[i].of, b \in ms[j].of : a < b
    /\ \A a \in 1 .. gone : \E i \in 1 .. k : a \in ms[i].of

LEMMA RecentFacts ==
  /\ Recent \in Nat /\ Recent >= 2
  /\ AtLeast(MaxMessages, 4) \in Nat /\ AtLeast(MaxMessages, 4) >= 4
  BY WindowAssumption DEF Recent, AtLeast

\* One more message.
LEMMA SayKeeps ==
  ASSUME NEW ms \in Seq(Messages), NEW k, NEW n \in Nat, n < MaxSaid, NEW first \in {0, 1},
         NEW from \in {"user", "model", "tool"}, Newest(ms, k, n, first)
  PROVE  /\ Append(ms, Message(n + 1, from)) \in Seq(Messages)
         /\ Newest(Append(ms, Message(n + 1, from)), k, n + 1, first)
         /\ \A gone : Summed(ms, k, gone) => Summed(Append(ms, Message(n + 1, from)), k, gone)
<1> DEFINE m == Message(n + 1, from)
           new == Append(ms, m)
           len == Len(ms)
<1>1. m \in Messages /\ m.from = from /\ m.of = {n + 1}
  <2>1. n + 1 \in 1 .. MaxSaid /\ TextOf(n + 1) \in {{}, {n + 1}}
    BY WindowAssumption DEF TextOf
  <2>2. m \in MessageRecords /\ m.from = from /\ m.of = {n + 1} /\ m.text = TextOf(n + 1)
    BY <2>1 DEF Message, MessageRecords
  <2>3. Content[n + 1] = "short" => TextOf(n + 1) = {n + 1}
    BY DEF TextOf
  <2> HIDE DEF m
  <2> QED BY <2>2, <2>3 DEF Messages
<1>2. len \in Nat /\ k \in 0 .. len
  BY DEF Newest, InFront
<1>3. /\ new \in Seq(Messages) /\ Len(new) = len + 1
      /\ \A i \in 1 .. len : new[i] = ms[i]
      /\ new[len + 1] = m
  BY <1>1, AppendProperties
<1> HIDE DEF m, new, len
<1>4. InFront(new, k)
  BY <1>1, <1>2, <1>3 DEF Newest, InFront, len
<1>5. \A i \in k + 1 .. len + 1 : i > k + first => new[i].of = {(n + 1) - (len + 1) + i}
  <2> TAKE i \in k + 1 .. len + 1
  <2> HAVE i > k + first
  <2>1. CASE i = len + 1
    BY <1>1, <1>2, <1>3, <2>1
  <2>2. CASE i <= len
    <3>1. new[i] = ms[i] /\ ms[i].of = {n - len + i}
      BY <1>2, <1>3, <2>2 DEF Newest, len
    <3>2. n - len + i = (n + 1) - (len + 1) + i
      BY <1>2
    <3> QED BY <3>1, <3>2
  <2> QED BY <1>2, <2>1, <2>2
<1>6. first = 1 => new[k + 1].of = {1}
  <2>1. CASE n = 0
    <3>1. k = len
      BY <1>2, <2>1 DEF Newest, len
    <3> QED BY <1>1, <1>3, <2>1, <3>1
  <2>2. CASE n > 0
    <3>1. k + 1 <= len
      BY <1>2, <2>2, RecentFacts DEF Newest, len
    <3> QED BY <1>2, <1>3, <2>2, <3>1 DEF Newest
  <2> QED BY <2>1, <2>2
<1>7. Newest(new, k, n + 1, first)
  BY <1>2, <1>3, <1>4, <1>5, <1>6, RecentFacts DEF Newest, len
<1>8. ASSUME NEW gone, Summed(ms, k, gone) PROVE Summed(new, k, gone)
  <2>1. \A i \in 1 .. k : new[i] = ms[i]
    BY <1>2, <1>3
  <2> QED BY <1>8, <2>1 DEF Summed
<1> QED BY <1>3, <1>7, <1>8 DEF m, new

\* The last k messages.
LEMMA LastOfFacts ==
  ASSUME NEW s \in Seq(Messages), NEW r \in Nat, r <= Len(s)
  PROVE  /\ LastOf(s, r) \in Seq(Messages) /\ Len(LastOf(s, r)) = r
         /\ \A i \in 1 .. r : LastOf(s, r)[i] = s[Len(s) - r + i]
<1> DEFINE n == Len(s)
           p == n - r + 1
<1>1. n \in Nat /\ p \in Int /\ p >= 1 /\ \A i \in 1 .. n : s[i] \in Messages
  OBVIOUS
<1>2. \A i \in p .. n : s[i] \in Messages
  BY <1>1
<1>3. /\ SubSeq(s, p, n) \in Seq(Messages)
      /\ Len(SubSeq(s, p, n)) = IF p <= n THEN n - p + 1 ELSE 0
      /\ \A i \in 1 .. n - p + 1 : SubSeq(s, p, n)[i] = s[p + i - 1]
  BY <1>1, <1>2, SubSeqProperties
<1>4. n - p + 1 = r /\ (IF p <= n THEN n - p + 1 ELSE 0) = r
  BY <1>1
<1>5. \A i \in 1 .. r : p + i - 1 = n - r + i
  BY <1>1
<1>6. LastOf(s, r) = SubSeq(s, p, n)
  BY DEF LastOf
<1> QED BY <1>3, <1>4, <1>5, <1>6

\* The sliding window keeps what is newest, and the first message if it shall.
LEMMA SlideKeeps ==
  ASSUME NEW ms \in Seq(Messages), NEW n \in Nat,
         Newest(ms, 0, n, IF PreserveFirst THEN 1 ELSE 0)
  PROVE  /\ Slide(ms) \in Seq(Messages)
         /\ Newest(Slide(ms), 0, n, IF PreserveFirst THEN 1 ELSE 0)
         /\ Recent + 1 <= AtLeast(MaxMessages, 4) => Len(Slide(ms)) <= AtLeast(MaxMessages, 4)
<1> DEFINE first == IF PreserveFirst THEN 1 ELSE 0
           len == Len(ms)
           plain == SaidPart(ms)
           kept == LastOf(plain, Recent)
<1>1. len \in Nat /\ first \in {0, 1} /\ DOMAIN ms = 1 .. len /\ InFront(ms, 0)
  BY DEF Newest
<1>2. plain = ms /\ SystemPart(ms) = << >>
  <2>1. SystemPart(ms) = [r \in 1 .. 0 |-> ms[r]] /\ plain = [r \in 1 .. Len(ms) - 0 |-> ms[0 + r]]
    BY <1>1, PartsFacts
  <2>2. SystemPart(ms) = << >>
    BY <2>1
  <2>3. plain = [r \in 1 .. len |-> ms[r]]
    <3>1. len - 0 = len /\ \A r \in 1 .. len : ms[0 + r] = ms[r]
      BY <1>1
    <3> QED BY <2>1, <3>1
  <2> QED BY <1>1, <2>2, <2>3
<1>3. CASE len <= AtLeast(MaxMessages, 4)
  BY <1>3 DEF Slide
<1>4. CASE len > AtLeast(MaxMessages, 4) /\ len <= Recent + first
  <2>1. Slide(ms) = ms
    BY <1>1, <1>2, <1>4, RecentFacts DEF Slide, Trim
  <2> QED BY <1>1, <1>4, <2>1, RecentFacts
<1>5. CASE len > AtLeast(MaxMessages, 4) /\ len > Recent + first
  <2>1. /\ kept \in Seq(Messages) /\ Len(kept) = Recent
        /\ \A i \in 1 .. Recent : kept[i] = ms[len - Recent + i]
    BY <1>1, <1>2, <1>5, RecentFacts, LastOfFacts
  <2>2. ASSUME NEW i \in 1 .. Recent PROVE kept[i].of = {n - Recent + i} /\ kept[i].from # "summary"
    <3>1. len - Recent + i \in 0 + 1 .. len /\ len - Recent + i > 0 + first
      BY <1>1, <1>5, RecentFacts
    <3>2. ms[len - Recent + i].of = {n - len + (len - Recent + i)}
      BY <3>1 DEF Newest
    <3>3. n - len + (len - Recent + i) = n - Recent + i
      BY <1>1, RecentFacts
    <3>4. ms[len - Recent + i].from # "summary"
      BY <1>1, <3>1 DEF InFront
    <3> QED BY <2>1, <3>2, <3>3, <3>4
  <2>3. n >= len
    BY <1>1 DEF Newest
  <2> HIDE DEF kept, plain
  <2>4. CASE PreserveFirst
    <3>1. first = 1 /\ ms[1].of = {1} /\ ms[1].from # "summary" /\ ms[1] \in Messages
      <4>1. first = 1 /\ n > 0
        BY <1>1, <1>5, <2>3, <2>4, RecentFacts
      <4>2. ms[0 + 1].of = {1}
        BY <4>1 DEF Newest
      <4>3. 1 \in 0 + 1 .. len
        BY <1>1, <1>5, RecentFacts
      <4> QED BY <1>1, <4>1, <4>2, <4>3 DEF InFront
    <3>2. Head(plain) = ms[1]
      BY <1>2
    <3>3. ~ Contains(kept, Head(plain))
      <4> SUFFICES ASSUME NEW i \in 1 .. Recent, kept[i] = ms[1] PROVE FALSE
        BY <2>1, <3>2 DEF Contains
      <4>1. {n - Recent + i} = {1}
        BY <2>2, <3>1
      <4>2. n - Recent + i > 1
        BY <1>1, <1>5, <2>3, <3>1, RecentFacts
      <4> QED BY <4>1, <4>2
    <3> DEFINE new == <<ms[1]>> \o kept
    <3>4. Slide(ms) = << >> \o <<ms[1]>> \o kept
      BY <1>1, <1>2, <1>5, <2>4, <3>2, <3>3, RecentFacts DEF Slide, Trim, kept, plain
    <3>5. <<ms[1]>> \in Seq(Messages) /\ Len(<<ms[1]>>) = 1 /\ << >> \o <<ms[1]>> = <<ms[1]>>
      BY <3>1
    <3>6. /\ new \in Seq(Messages) /\ Len(new) = 1 + Recent
          /\ \A i \in 1 .. 1 + Recent : new[i] = IF i <= 1 THEN <<ms[1]>>[i] ELSE kept[i - 1]
      BY <2>1, <3>5, ConcatProperties
    <3>7. Slide(ms) = new
      BY <3>4, <3>5
    <3> HIDE DEF new
    <3>8. /\ new[1] = ms[1]
          /\ \A i \in 2 .. Recent + 1 : new[i].of = {n - (Recent + 1) + i} /\ new[i].from # "summary"
      <4>1. new[1] = ms[1]
        BY <3>6, RecentFacts
      <4>2. ASSUME NEW i \in 2 .. Recent + 1
            PROVE  new[i].of = {n - (Recent + 1) + i} /\ new[i].from # "summary"
        <5>1. new[i] = kept[i - 1] /\ i - 1 \in 1 .. Recent
          BY <3>6, RecentFacts
        <5>2. new[i].of = {n - Recent + (i - 1)} /\ new[i].from # "summary"
          BY <2>2, <5>1
        <5>3. n - Recent + (i - 1) = n - (Recent + 1) + i
          BY RecentFacts
        <5> QED BY <5>2, <5>3
      <4> QED BY <4>1, <4>2
    <3>9. InFront(new, 0)
      BY <3>1, <3>6, <3>8, RecentFacts DEF InFront
    <3>10. Newest(new, 0, n, first)
      BY <1>1, <1>5, <2>3, <3>1, <3>6, <3>8, <3>9, RecentFacts DEF Newest
    <3> QED BY <3>6, <3>7, <3>10, RecentFacts
  <2>5. CASE ~ PreserveFirst
    <3>1. Slide(ms) = << >> \o << >> \o kept
      BY <1>1, <1>2, <1>5, <2>5, RecentFacts DEF Slide, Trim, kept, plain
    <3>2. Slide(ms) = kept
      BY <2>1, <3>1
    <3>3. first = 0
      BY <2>5
    <3>4. InFront(kept, 0)
      <4>1. Len(kept) \in Nat /\ 0 + 1 .. Len(kept) = 1 .. Recent
        BY <2>1, RecentFacts
      <4>2. 0 \in 0 .. Len(kept) /\ 1 .. 0 = {}
        BY <4>1
      <4> QED BY <2>2, <4>1, <4>2 DEF InFront
    <3>5. Newest(kept, 0, n, 0)
      BY <1>1, <1>5, <2>1, <2>2, <2>3, <3>4, RecentFacts DEF Newest
    <3> QED BY <2>1, <3>2, <3>3, <3>5, RecentFacts
  <2> QED BY <2>4, <2>5
<1> QED BY <1>1, <1>3, <1>4, <1>5, RecentFacts

\* A summary of all but the last messages stands for what they stood for.
LEMMA SummarizeKeeps ==
  ASSUME NEW ms \in Seq(Messages), NEW n \in 0 .. MaxSaid, NEW k,
         Newest(ms, k, n, 0), Summed(ms, k, n - (Len(ms) - k))
  PROVE  /\ DoSummarize(ms) \in Seq(Messages)
         /\ \E l : Newest(DoSummarize(ms), l, n, 0)
                   /\ Summed(DoSummarize(ms), l, n - (Len(DoSummarize(ms)) - l))
<1> DEFINE len == Len(ms)
           plain == SaidPart(ms)
           sums == SystemPart(ms)
           cutoff == Len(plain) - Recent
           compressed == SubSeq(plain, 1, cutoff)
           numbers == Covered(compressed)
           text == MessagesToText(compressed)
           kept == LastOf(plain, Recent)
<1>0. n \in Nat /\ MaxSaid \in Nat
  BY WindowAssumption
<1>1. /\ len \in Nat /\ k \in 0 .. len /\ DOMAIN ms = 1 .. len /\ len - k <= n
      /\ \A i \in 1 .. len : ms[i] \in Messages
  BY DEF Newest, InFront
<1>2. /\ sums = [r \in 1 .. k |-> ms[r]]
      /\ plain = [r \in 1 .. len - k |-> ms[k + r]]
  BY PartsFacts DEF Newest
<1>3. sums \in Seq(Messages) /\ Len(sums) = k /\ \A i \in 1 .. k : sums[i] = ms[i]
  <2>1. sums \in [1 .. k -> Messages]
    BY <1>1, <1>2
  <2> QED BY <1>1, <1>2, <2>1
<1>4. plain \in Seq(Messages) /\ Len(plain) = len - k /\ \A r \in 1 .. len - k : plain[r] = ms[k + r]
  <2>1. len - k \in Nat
    BY <1>1
  <2>2. plain \in [1 .. len - k -> Messages]
    BY <1>1, <1>2
  <2> HIDE DEF plain, len
  <2>3. plain \in Seq(Messages) /\ Len(plain) = len - k
    BY <2>1, <2>2
  <2> QED BY <1>2, <2>3
<1>5. \A i \in k + 1 .. len : ms[i].of = {n - len + i} /\ ms[i].from # "summary"
  BY <1>1 DEF Newest, InFront
<1>6. CASE cutoff <= 0
  <2>1. DoSummarize(ms) = ms
    BY <1>6 DEF DoSummarize
  <2> QED BY <2>1
<1>7. CASE ~ (cutoff <= 0)
  <2>1. /\ cutoff \in Nat /\ cutoff >= 1 /\ cutoff = len - k - Recent
        /\ Recent \in Nat /\ Recent >= 2
    BY <1>1, <1>4, <1>7, RecentFacts
  <2>2. /\ kept \in Seq(Messages) /\ Len(kept) = Recent
        /\ \A i \in 1 .. Recent : kept[i] = plain[Len(plain) - Recent + i]
    <3> HIDE DEF plain
    <3>1. Recent <= Len(plain)
      BY <1>4, <2>1
    <3> QED BY <1>4, <2>1, <3>1, LastOfFacts
  <2>3. ASSUME NEW i \in 1 .. Recent
        PROVE  kept[i].of = {n - Recent + i} /\ kept[i].from # "summary"
    <3>1. kept[i] = ms[k + (len - k - Recent + i)]
      <4> HIDE DEF kept, plain, len
      <4>1. len - k - Recent + i \in 1 .. len - k
        BY <1>1, <2>1
      <4> QED BY <1>1, <1>4, <2>1, <2>2, <4>1
    <3>2. k + (len - k - Recent + i) \in k + 1 .. len
      BY <1>1, <2>1
    <3>3. n - len + (k + (len - k - Recent + i)) = n - Recent + i
      BY <1>0, <1>1, <2>1
    <3> QED BY <1>5, <3>1, <3>2, <3>3
  <2>4. numbers = n - (len - k) + 1 .. n - Recent
    <3>1. /\ DOMAIN compressed = 1 .. cutoff
          /\ \A r \in 1 .. cutoff : compressed[r] = ms[k + r]
      <4>1. \A i \in 1 .. cutoff : plain[i] \in Messages
        BY <1>1, <1>4, <2>1
      <4>2. /\ compressed \in Seq(Messages)
            /\ Len(compressed) = IF 1 <= cutoff THEN cutoff - 1 + 1 ELSE 0
            /\ \A i \in 1 .. cutoff - 1 + 1 : compressed[i] = plain[1 + i - 1]
        BY <2>1, <4>1, SubSeqProperties
      <4> QED BY <1>1, <1>4, <2>1, <4>2
    <3>2. ASSUME NEW r \in 1 .. cutoff PROVE compressed[r].of = {n - (len - k) + r}
      <4>1. k + r \in k + 1 .. len /\ n - len + (k + r) = n - (len - k) + r
        BY <1>0, <1>1, <2>1
      <4> QED BY <1>5, <3>1, <4>1
    <3>3. \A a : a \in numbers <=> \E r \in 1 .. cutoff : a \in compressed[r].of
      <4> HIDE DEF compressed, cutoff
      <4> QED BY <3>1 DEF ToSet, Covered
    <3>4. \A a : a \in numbers <=> \E r \in 1 .. cutoff : a = n - (len - k) + r
      <4> HIDE DEF compressed, cutoff, numbers
      <4> QED BY <3>2, <3>3
    <3>5. ASSUME NEW a PROVE (\E r \in 1 .. cutoff : a = n - (len - k) + r)
                             <=> a \in n - (len - k) + 1 .. n - Recent
      <4>1. ASSUME NEW r \in 1 .. cutoff, a = n - (len - k) + r
            PROVE  a \in n - (len - k) + 1 .. n - Recent
        BY <1>0, <1>1, <2>1, <4>1
      <4>2. ASSUME a \in n - (len - k) + 1 .. n - Recent
            PROVE  \E r \in 1 .. cutoff : a = n - (len - k) + r
        <5>1. a - (n - (len - k)) \in 1 .. cutoff
          BY <1>0, <1>1, <2>1, <4>2
        <5>2. a = n - (len - k) + (a - (n - (len - k)))
          BY <1>0, <1>1, <4>2
        <5> QED BY <5>1, <5>2
      <4> QED BY <4>1, <4>2
    <3> HIDE DEF numbers, cutoff
    <3> QED BY <3>4, <3>5
  <2> DEFINE sum == Summarized(compressed)
             front == Append(sums, sum)
             new == front \o kept
             gone == n - (len - k)
  <2>5. sum \in Messages /\ sum.from = "summary" /\ sum.of = numbers
    <3>1. numbers \in SUBSET (1 .. MaxSaid)
      <4>1. \A a \in n - (len - k) + 1 .. n - Recent : a \in 1 .. MaxSaid
        BY <1>0, <1>1, <2>1
      <4> QED BY <2>4, <4>1
    <3>2. ToSet(compressed) \subseteq Messages
      <4>1. \A i \in 1 .. cutoff : plain[i] \in Messages
        BY <1>1, <1>4, <2>1
      <4>2. compressed \in Seq(Messages)
        BY <2>1, <4>1, SubSeqProperties
      <4> HIDE DEF compressed
      <4> QED BY <4>2 DEF ToSet
    <3>3. text \in SUBSET (1 .. MaxSaid) /\ {a \in numbers : Content[a] = "short"} \subseteq text
      <4> HIDE DEF compressed
      <4>1. \A c \in ToSet(compressed) :
               c.text \subseteq 1 .. MaxSaid /\ {a \in c.of : Content[a] = "short"} \subseteq c.text
        BY <3>2 DEF Messages, MessageRecords
      <4>2. text = {a \in UNION {c.text : c \in ToSet(compressed)} : Content[a] # "long"}
        BY DEF MessagesToText
      <4>3. numbers = UNION {c.of : c \in ToSet(compressed)}
        BY DEF Covered
      <4> HIDE DEF numbers, text
      <4> QED BY <4>1, <4>2, <4>3
    <3> HIDE DEF numbers, text
    <3>4. sum = [from |-> "summary", of |-> numbers, text |-> text]
      BY DEF Summarized, Summary, numbers, text
    <3> HIDE DEF sum
    <3>5. sum \in MessageRecords /\ sum.from = "summary" /\ sum.of = numbers /\ sum.text = text
      BY <3>1, <3>3, <3>4 DEF MessageRecords
    <3> QED BY <3>3, <3>5 DEF Messages
  <2> HIDE DEF sum, sums, kept, numbers, text, plain, compressed
  <2>6. /\ front \in Seq(Messages) /\ Len(front) = k + 1
        /\ \A i \in 1 .. k : front[i] = ms[i]
        /\ front[k + 1] = sum
    <3>1. /\ Append(sums, sum) \in Seq(Messages)
          /\ Len(Append(sums, sum)) = Len(sums) + 1
          /\ \A i \in 1 .. Len(sums) : Append(sums, sum)[i] = sums[i]
          /\ Append(sums, sum)[Len(sums) + 1] = sum
      BY <1>3, <2>5, AppendProperties
    <3> QED BY <1>3, <3>1
  <2> HIDE DEF front
  <2>7. /\ new \in Seq(Messages) /\ Len(new) = k + 1 + Recent
        /\ \A i \in 1 .. k + 1 + Recent :
              new[i] = IF i <= k + 1 THEN front[i] ELSE kept[i - (k + 1)]
    <3>1. /\ front \o kept \in Seq(Messages)
          /\ Len(front \o kept) = Len(front) + Len(kept)
          /\ \A i \in 1 .. Len(front) + Len(kept) : (front \o kept)[i] =
                IF i <= Len(front) THEN front[i] ELSE kept[i - Len(front)]
      BY <2>2, <2>6, ConcatProperties
    <3> QED BY <2>2, <2>6, <3>1
  <2>8. DoSummarize(ms) = new
    BY <1>7 DEF DoSummarize, new, front, sum, kept, sums, plain, compressed
  <2> HIDE DEF new
  <2>9. /\ \A i \in 1 .. k : new[i] = ms[i]
        /\ new[k + 1] = sum
        /\ \A i \in k + 2 .. k + 1 + Recent :
              new[i].of = {n - (k + 1 + Recent) + i} /\ new[i].from # "summary"
    <3>1. \A i \in 1 .. k : new[i] = ms[i]
      BY <1>1, <2>1, <2>6, <2>7
    <3>2. new[k + 1] = sum
      BY <1>1, <2>1, <2>6, <2>7
    <3>3. ASSUME NEW i \in k + 2 .. k + 1 + Recent
          PROVE  new[i].of = {n - (k + 1 + Recent) + i} /\ new[i].from # "summary"
      <4>1. new[i] = kept[i - (k + 1)] /\ i - (k + 1) \in 1 .. Recent
        BY <1>1, <2>1, <2>7
      <4>2. n - Recent + (i - (k + 1)) = n - (k + 1 + Recent) + i
        BY <1>0, <1>1, <2>1
      <4> QED BY <2>3, <4>1, <4>2
    <3> QED BY <3>1, <3>2, <3>3
  <2>10. InFront(new, k + 1)
    <3>1. \A i \in 1 .. k : ms[i].from = "summary"
      BY DEF Newest, InFront
    <3>2. \A i \in 1 .. k + 1 : new[i].from = "summary"
      BY <1>1, <2>5, <2>9, <3>1
    <3>3. \A i \in k + 1 + 1 .. k + 1 + Recent : new[i].from # "summary"
      BY <1>1, <2>1, <2>9
    <3> QED BY <1>1, <2>1, <2>7, <3>2, <3>3 DEF InFront
  <2>11. Newest(new, k + 1, n, 0)
    <3>1. Len(new) - (k + 1) = Recent /\ Recent <= n
      <4>1. Len(new) = k + 1 + Recent
        BY <2>7
      <4>2. k \in Nat /\ n \in Nat /\ len - k <= n /\ len - k - Recent >= 1
        BY <1>0, <1>1, <2>1
      <4> HIDE DEF len
      <4> QED BY <1>1, <2>1, <4>1, <4>2
    <3>2. \A i \in k + 1 + 1 .. Len(new) : new[i].of = {n - Len(new) + i}
      <4>1. Len(new) = k + 1 + Recent /\ k + 1 + 1 = k + 2
        BY <1>1, <2>7
      <4> QED BY <2>9, <4>1
    <3>3. Len(new) - (k + 1) >= IF n < Recent THEN n ELSE Recent
      BY <1>0, <2>1, <3>1
    <3>4. \A i \in k + 1 + 1 .. Len(new) : i > k + 1 + 0 => new[i].of = {n - Len(new) + i}
      BY <3>2
    <3> QED BY <2>10, <3>1, <3>3, <3>4 DEF Newest
  <2>12. gone \in Nat /\ n - Recent \in Nat /\ gone < n - Recent
    BY <1>0, <1>1, <2>1
  <2>13. /\ \A i \in 1 .. k : ms[i].of # {} /\ ms[i].of \subseteq 1 .. gone
         /\ \A i, j \in 1 .. k : i < j => \A a \in ms[i].of, b \in ms[j].of : a < b
         /\ \A a \in 1 .. gone : \E i \in 1 .. k : a \in ms[i].of
    BY DEF Summed
  <2>14. sum.of = gone + 1 .. n - Recent
    BY <2>4, <2>5
  <2> HIDE DEF gone
  <2>15. \A i \in 1 .. k + 1 : new[i].of # {} /\ new[i].of \subseteq 1 .. n - Recent
    <3>1. \A i \in 1 .. k : new[i].of # {} /\ new[i].of \subseteq 1 .. n - Recent
      <4>1. 1 .. gone \subseteq 1 .. n - Recent
        BY <2>12
      <4> QED BY <2>9, <2>13, <4>1
    <3>2. gone + 1 \in sum.of /\ sum.of \subseteq 1 .. n - Recent
      BY <2>12, <2>14
    <3> QED BY <1>1, <2>9, <3>1, <3>2
  <2>16. ASSUME NEW i \in 1 .. k + 1, NEW j \in 1 .. k + 1, i < j,
                NEW a \in new[i].of, NEW b \in new[j].of
         PROVE  a < b
    <3>1. i \in 1 .. k /\ a \in ms[i].of /\ a \in 1 .. gone
      BY <1>1, <2>9, <2>13, <2>16
    <3>2. CASE j = k + 1
      <4>1. b \in gone + 1 .. n - Recent
        BY <2>9, <2>14, <2>16, <3>2
      <4> QED BY <2>12, <3>1, <4>1
    <3>3. CASE j # k + 1
      <4>1. j \in 1 .. k /\ b \in ms[j].of
        BY <1>1, <2>9, <2>16, <3>3
      <4> QED BY <2>13, <2>16, <3>1, <4>1
    <3> QED BY <3>2, <3>3
  <2>17. ASSUME NEW a \in 1 .. n - Recent PROVE \E i \in 1 .. k + 1 : a \in new[i].of
    <3>1. CASE a <= gone
      <4>1. a \in 1 .. gone
        BY <2>12, <3>1
      <4>2. PICK i \in 1 .. k : a \in ms[i].of
        BY <2>13, <4>1
      <4>3. i \in 1 .. k + 1
        BY <1>1
      <4> QED BY <2>9, <4>2, <4>3
    <3>2. CASE a > gone
      <4>1. a \in new[k + 1].of
        BY <2>9, <2>12, <2>14, <3>2
      <4>2. k + 1 \in 1 .. k + 1
        BY <1>1
      <4> QED BY <4>1, <4>2
    <3> QED BY <2>12, <3>1, <3>2
  <2>18. Summed(new, k + 1, n - Recent)
    BY <2>15, <2>16, <2>17 DEF Summed
  <2>19. n - (Len(new) - (k + 1)) = n - Recent
    BY <1>0, <1>1, <2>1, <2>7
  <2> QED BY <2>7, <2>8, <2>11, <2>18, <2>19
<1> QED BY <1>6, <1>7

------------------------------------------------------------------------------
(* The message window                                                       *)

First == IF kindOfWindow = "sliding" /\ PreserveFirst THEN 1 ELSE 0

\* With k summaries in front; the sliding window makes none.
Arranged(k) ==
    /\ Newest(messages, k, said, First)
    /\ kindOfWindow = "summary" => Summed(messages, k, said - (Len(messages) - k))
    /\ kindOfWindow = "sliding" => k = 0

SlidWithin ==
    /\ turn = "model" /\ stateKind = "object" /\ kindOfWindow = "sliding"
       /\ Recent + 1 <= AtLeast(MaxMessages, 4) => Len(messages) <= AtLeast(MaxMessages, 4)
    /\ stateKind = "dict" => Len(messages) = said

WindowInv ==
    /\ WindowTypeOK /\ messages \in Seq(Messages)
    /\ turn = "tools" => pending > 0
    /\ \E k : Arranged(k)
    /\ SlidWithin

LEMMA WindowStart == WindowInit => WindowInv
<1> SUFFICES ASSUME WindowInit PROVE WindowInv
  OBVIOUS
<1>1. WindowTypeOK /\ SlidWithin
  BY WindowAssumption DEF WindowInit, WindowTypeOK, SlidWithin
<1>2. Len(messages) = 0 /\ said = 0
  BY DEF WindowInit
<1>3. InFront(messages, 0)
  BY <1>2 DEF InFront
<1>4. Newest(messages, 0, said, First)
  BY <1>2, <1>3, RecentFacts DEF Newest
<1>5. Summed(messages, 0, said - (Len(messages) - 0))
  BY <1>2 DEF Summed
<1>6. Arranged(0)
  BY <1>4, <1>5 DEF Arranged
<1> QED BY <1>1, <1>6 DEF WindowInv, WindowInit, Messages

\* One more message is said.
LEMMA SaidKeeps ==
  ASSUME WindowInv, NEW from \in {"user", "model", "tool"}, said < MaxSaid, Say(from, messages),
         UNCHANGED config
  PROVE  /\ messages' \in Seq(Messages) /\ messages' \in Seq(MessageRecords)
         /\ said' \in 0 .. MaxSaid /\ UNCHANGED <<kindOfWindow, stateKind>>
         /\ \E k : Arranged(k)'
         /\ stateKind = "dict" => Len(messages') = said'
<1>1. /\ messages \in Seq(Messages) /\ said \in Nat /\ First \in {0, 1}
      /\ said + 1 \in 0 .. MaxSaid
  BY WindowAssumption DEF WindowInv, WindowTypeOK, First
<1>2. PICK k : Arranged(k)
  BY DEF WindowInv
<1>3. messages' = Append(messages, Message(said + 1, from)) /\ said' = said + 1
  BY DEF Say
<1>4. Newest(messages, k, said, First)
  BY <1>2 DEF Arranged
<1>5. /\ messages' \in Seq(Messages)
      /\ Newest(messages', k, said', First)
      /\ \A gone : Summed(messages, k, gone) => Summed(messages', k, gone)
  BY <1>1, <1>3, <1>4, SayKeeps
<1>6. Len(messages') = Len(messages) + 1 /\ k \in Nat /\ Len(messages) \in Nat
  <2>1. k \in 0 .. Len(messages)
    BY <1>4 DEF Newest, InFront
  <2> QED BY <1>1, <1>3, <2>1
<1>7. said' - (Len(messages') - k) = said - (Len(messages) - k)
  BY <1>1, <1>3, <1>6
<1>8. kindOfWindow = "summary" => Summed(messages', k, said' - (Len(messages') - k))
  BY <1>2, <1>5, <1>7 DEF Arranged
<1>9. UNCHANGED <<kindOfWindow, stateKind>> /\ First' = First
  BY DEF First, config
<1>10. Arranged(k)'
  BY <1>2, <1>5, <1>8, <1>9 DEF Arranged
<1>11. stateKind = "dict" => Len(messages') = said'
  BY <1>1, <1>3, <1>6 DEF WindowInv, SlidWithin
<1> QED BY <1>1, <1>3, <1>5, <1>9, <1>10, <1>11, MessagesAreRecords

LEMMA WindowKeeps == WindowInv /\ [WindowNext]_windowVars => WindowInv'
<1> SUFFICES ASSUME WindowInv, [WindowNext]_windowVars PROVE WindowInv'
  OBVIOUS
<1>0. /\ messages \in Seq(Messages) /\ said \in 0 .. MaxSaid /\ kindOfWindow \in Windows
      /\ stateKind \in StateKinds /\ pending \in 0 .. MaxToolCalls /\ MaxToolCalls \in Nat /\ MaxSaid \in Nat
      /\ turn = "tools" => pending > 0
  BY WindowAssumption DEF WindowInv, WindowTypeOK
<1>1. CASE UserSays
  <2>1. /\ messages' \in Seq(Messages) /\ messages' \in Seq(MessageRecords)
        /\ said' \in 0 .. MaxSaid /\ UNCHANGED <<kindOfWindow, stateKind>>
        /\ \E k : Arranged(k)'
        /\ stateKind = "dict" => Len(messages') = said'
    BY <1>1, SaidKeeps DEF UserSays
  <2> QED BY <1>0, <1>1, <2>1 DEF UserSays, WindowInv, WindowTypeOK, SlidWithin, MessageRecords
<1>2. CASE BeforeModel
  <2>0. PICK k : Arranged(k)
    BY DEF WindowInv
  <2>a. UNCHANGED <<kindOfWindow, stateKind>>
    BY <1>2 DEF BeforeModel, config
  <2>1. CASE stateKind = "object" /\ kindOfWindow = "sliding" /\ messages' = Slide(messages)
    <3>1. Newest(messages, 0, said, IF PreserveFirst THEN 1 ELSE 0)
      BY <2>0, <2>1 DEF Arranged, First
    <3>2. /\ messages' \in Seq(Messages)
          /\ Newest(messages', 0, said, IF PreserveFirst THEN 1 ELSE 0)
          /\ Recent + 1 <= AtLeast(MaxMessages, 4) => Len(messages') <= AtLeast(MaxMessages, 4)
      BY <1>0, <2>1, <3>1, SlideKeeps
    <3>3. Arranged(0)'
      BY <1>2, <2>a, <2>1, <3>2 DEF BeforeModel, Arranged, First
    <3>4. messages' \in Seq(MessageRecords)
      BY <3>2, MessagesAreRecords
    <3> QED BY <1>0, <1>2, <2>a, <2>1, <3>2, <3>3, <3>4
            DEF BeforeModel, WindowInv, WindowTypeOK, SlidWithin, MessageRecords
  <2>2. CASE stateKind = "object" /\ kindOfWindow = "summary" /\ messages' = DoSummarize(messages)
    <3>1. Newest(messages, k, said, 0) /\ Summed(messages, k, said - (Len(messages) - k))
      BY <2>0, <2>2 DEF Arranged, First
    <3>2. /\ messages' \in Seq(Messages)
          /\ \E l : Newest(messages', l, said, 0)
                    /\ Summed(messages', l, said - (Len(messages') - l))
      BY <1>0, <2>2, <3>1, SummarizeKeeps
    <3>3. \E l : Arranged(l)'
      BY <1>2, <2>a, <2>2, <3>2 DEF BeforeModel, Arranged, First
    <3>4. messages' \in Seq(MessageRecords)
      BY <3>2, MessagesAreRecords
    <3> QED BY <1>0, <1>2, <2>a, <2>2, <3>2, <3>3, <3>4
            DEF BeforeModel, WindowInv, WindowTypeOK, SlidWithin, MessageRecords
  <2>3. CASE (stateKind = "dict" \/ kindOfWindow = "summary") /\ UNCHANGED messages
    <3>1. Arranged(k)'
      BY <1>2, <2>0, <2>a, <2>3 DEF BeforeModel, Arranged, First
    <3>2. WindowTypeOK' /\ messages' \in Seq(Messages)
      BY <1>0, <1>2, <2>a, <2>3 DEF BeforeModel, WindowInv, WindowTypeOK
    <3>3. turn' = "model" /\ said' = said
      BY <1>2 DEF BeforeModel
    <3>4. SlidWithin'
      BY <2>a, <2>3, <3>3 DEF WindowInv, SlidWithin
    <3> QED BY <3>1, <3>2, <3>3, <3>4 DEF WindowInv
  <2> QED BY <1>2, <2>1, <2>2, <2>3 DEF BeforeModel
<1>3. CASE ModelAnswers
  <2>1. /\ messages' \in Seq(Messages) /\ messages' \in Seq(MessageRecords)
        /\ said' \in 0 .. MaxSaid /\ UNCHANGED <<kindOfWindow, stateKind>>
        /\ \E k : Arranged(k)'
        /\ stateKind = "dict" => Len(messages') = said'
    BY <1>3, SaidKeeps DEF ModelAnswers
  <2> QED BY <1>0, <1>3, <2>1 DEF ModelAnswers, WindowInv, WindowTypeOK, SlidWithin, MessageRecords
<1>4. CASE ToolAnswers
  <2>1. /\ messages' \in Seq(Messages) /\ messages' \in Seq(MessageRecords)
        /\ said' \in 0 .. MaxSaid /\ UNCHANGED <<kindOfWindow, stateKind>>
        /\ \E k : Arranged(k)'
        /\ stateKind = "dict" => Len(messages') = said'
    BY <1>4, SaidKeeps DEF ToolAnswers
  <2>2. pending' \in 0 .. MaxToolCalls /\ (turn' = "tools" => pending' > 0)
    BY <1>0, <1>4 DEF ToolAnswers
  <2> QED BY <1>0, <1>4, <2>1, <2>2 DEF ToolAnswers, WindowInv, WindowTypeOK, SlidWithin, MessageRecords
<1>5. CASE UNCHANGED windowVars
  BY <1>5 DEF windowVars, config, WindowInv, WindowTypeOK, SlidWithin, Arranged, First
<1> QED BY <1>1, <1>2, <1>3, <1>4, <1>5 DEF WindowNext

LEMMA AlwaysArranged == WindowSpec => []WindowInv
  BY WindowStart, WindowKeeps, PTL DEF WindowSpec

\* Over any number of compressions and failed summaries, in a session of any
\* length, no message is dropped, repeated or reordered but those the window
\* means to drop; and each message that has text, not cut off for its length,
\* was shown whole to the maker of the summary that stands in its place.
THEOREM MessagesAreKept == WindowSpec => []NothingLost
<1>1. ASSUME WindowInv PROVE NothingLost
  <2> DEFINE plain == SaidPart(messages)
             len == Len(messages)
             numbers == [i \in DOMAIN plain |-> CHOOSE n \in plain[i].of : TRUE]
  <2>1. PICK k : Arranged(k)
    BY <1>1 DEF WindowInv
  <2>2. /\ messages \in Seq(Messages) /\ said \in Nat /\ First \in {0, 1}
        /\ len \in Nat /\ k \in 0 .. len /\ InFront(messages, k) /\ DOMAIN messages = 1 .. len
    BY <1>1, <2>1 DEF WindowInv, WindowTypeOK, Arranged, Newest, InFront, First
  <2>3. plain = [r \in 1 .. len - k |-> messages[k + r]]
    <3>1. messages \in Seq(Messages) /\ InFront(messages, k)
      BY <2>2
    <3> QED BY <3>1, PartsFacts
  <2>4. len - k \in Nat /\ len - k <= said
        /\ len - k >= (IF said < Recent THEN said ELSE Recent)
    BY <2>1, <2>2 DEF Arranged, Newest
  <2>5. /\ \A i \in k + 1 .. len : i > k + First => messages[i].of = {said - len + i}
        /\ First = 1 /\ said > 0 => messages[k + 1].of = {1}
    BY <2>1 DEF Arranged, Newest
  <2>6. /\ DOMAIN plain = 1 .. len - k /\ Len(plain) = len - k
        /\ \A r \in 1 .. len - k : plain[r] = messages[k + r]
    <3> HIDE DEF plain, len
    <3> QED BY <2>3, <2>4
  <2> HIDE DEF plain, len
  <2>7. First = 1 /\ said > 0 => numbers[1] = 1
    <3> SUFFICES ASSUME First = 1, said > 0 PROVE numbers[1] = 1
      OBVIOUS
    <3>1. 1 \in 1 .. len - k /\ plain[1] = messages[k + 1]
      BY <2>2, <2>4, <2>6, RecentFacts
    <3>2. numbers[1] = CHOOSE n \in {1} : TRUE
      BY <2>5, <2>6, <3>1
    <3> QED BY <3>2
  <2>8. ASSUME NEW i \in DOMAIN numbers, i > First PROVE numbers[i] = said - Len(plain) + i
    <3>1. i \in 1 .. len - k /\ plain[i] = messages[k + i]
      BY <2>6
    <3>2. k + i \in k + 1 .. len /\ k + i > k + First
      BY <2>2, <2>8, <3>1
    <3>3. plain[i].of = {said - len + (k + i)}
      BY <2>5, <3>1, <3>2
    <3>4. numbers[i] = CHOOSE n \in {said - len + (k + i)} : TRUE
      BY <2>6, <3>1, <3>3
    <3>5. said - len + (k + i) = said - Len(plain) + i
      BY <2>2, <2>6, <3>1
    <3> QED BY <3>4, <3>5
  <2>9. ASSUME kindOfWindow = "summary"
        PROVE  /\ Covered(messages) = 1 .. said
               /\ \A m \in ToSet(messages) : {n \in m.of : Content[n] = "short"} \subseteq m.text
               /\ \A i, j \in DOMAIN messages :
                     i < j => \A m \in messages[i].of, n \in messages[j].of : m < n
    <3> DEFINE gone == said - (len - k)
    <3>1. gone \in Nat /\ gone <= said
      BY <2>2, <2>4
    <3>2. \A i \in k + 1 .. len : messages[i].of = {said - len + i}
      BY <2>2, <2>5, <2>9 DEF First
    <3>3. /\ \A i \in 1 .. k : messages[i].of # {} /\ messages[i].of \subseteq 1 .. gone
          /\ \A i, j \in 1 .. k : i < j => \A a \in messages[i].of, b \in messages[j].of : a < b
          /\ \A a \in 1 .. gone : \E i \in 1 .. k : a \in messages[i].of
      BY <2>1, <2>9 DEF Arranged, Summed, len
    <3>4. \A a : a \in Covered(messages) <=> \E i \in 1 .. len : a \in messages[i].of
      BY <2>2 DEF Covered, ToSet
    <3>5. ASSUME NEW a \in Covered(messages) PROVE a \in 1 .. said
      <4>1. PICK i \in 1 .. len : a \in messages[i].of
        BY <3>4
      <4>2. CASE i <= k
        <5>1. a \in 1 .. gone
          BY <2>2, <3>3, <4>1, <4>2
        <5> QED BY <2>2, <3>1, <5>1
      <4>3. CASE i > k
        <5>1. a = said - len + i
          BY <2>2, <3>2, <4>1, <4>3
        <5> QED BY <2>2, <2>4, <4>3, <5>1
      <4> QED BY <2>2, <4>2, <4>3
    <3>6. ASSUME NEW a \in 1 .. said PROVE a \in Covered(messages)
      <4>1. CASE a <= gone
        <5>1. a \in 1 .. gone
          BY <3>1, <4>1
        <5>2. PICK i \in 1 .. k : a \in messages[i].of
          BY <3>3, <5>1
        <5>3. i \in 1 .. len
          BY <2>2
        <5> QED BY <3>4, <5>2, <5>3
      <4>2. CASE a > gone
        <5> DEFINE i == a - said + len
        <5>1. i \in k + 1 .. len /\ said - len + i = a
          BY <2>2, <4>2
        <5> HIDE DEF i
        <5>2. i \in 1 .. len /\ a \in messages[i].of
          BY <2>2, <3>2, <5>1
        <5> QED BY <3>4, <5>2
      <4> QED BY <3>1, <4>1, <4>2
    <3>7. ASSUME NEW i \in 1 .. len, NEW j \in 1 .. len, i < j,
                 NEW m \in messages[i].of, NEW n \in messages[j].of
          PROVE  m < n
      <4>1. CASE j <= k
        BY <2>2, <3>3, <3>7, <4>1
      <4>2. CASE j > k
        <5>1. n = said - len + j
          BY <2>2, <3>2, <4>2
        <5>2. CASE i <= k
          <6>1. m \in 1 .. gone
            BY <2>2, <3>3, <5>2
          <6> QED BY <2>2, <4>2, <5>1, <6>1
        <5>3. CASE i > k
          <6>1. m = said - len + i
            BY <2>2, <3>2, <5>3
          <6> QED BY <2>2, <3>7, <5>1, <6>1
        <5> QED BY <2>2, <5>2, <5>3
      <4> QED BY <2>2, <4>1, <4>2
    <3>8. Covered(messages) = 1 .. said
      BY <3>5, <3>6
    <3>9. \A m \in ToSet(messages) : {n \in m.of : Content[n] = "short"} \subseteq m.text
      <4>1. ToSet(messages) \subseteq Messages
        BY <2>2 DEF ToSet
      <4> QED BY <4>1 DEF Messages
    <3> QED BY <2>2, <3>7, <3>8, <3>9
  <2> HIDE DEF numbers
  <2>10. /\ First = 1 /\ said > 0 => numbers[1] = 1
         /\ \A i \in DOMAIN numbers : i > First => numbers[i] = said - Len(plain) + i
    BY <2>7, <2>8
  <2> QED BY <2>9, <2>10 DEF NothingLost, First, numbers, plain
<1> QED BY <1>1, AlwaysArranged, PTL

\* The model is called with the newest messages and, behind a sliding window that
\* is handed an object, with no more than its limit, which may be any that leaves
\* room for the first message; behind one that is handed a dict, with all that
\* was ever said.
THEOREM WindowFits == WindowSpec => []CallFits
<1>1. ASSUME WindowInv, turn = "model" PROVE CallFits
  <2>1. PICK k : Arranged(k)
    BY <1>1 DEF WindowInv
  <2>2. /\ messages \in Seq(Messages) /\ said \in Nat /\ First \in {0, 1} /\ kindOfWindow \in Windows
        /\ Len(messages) \in Nat /\ k \in 0 .. Len(messages) /\ InFront(messages, k)
        /\ DOMAIN messages = 1 .. Len(messages)
    BY <1>1, <2>1 DEF WindowInv, WindowTypeOK, Arranged, Newest, InFront, First
  <2>3. SaidPart(messages) = [r \in 1 .. Len(messages) - k |-> messages[k + r]]
    <3>1. messages \in Seq(Messages) /\ InFront(messages, k)
      BY <2>2
    <3> QED BY <3>1, PartsFacts
  <2>4. Len(messages) - k \in Nat
        /\ Len(messages) - k >= (IF said < Recent THEN said ELSE Recent)
    BY <2>1, <2>2 DEF Arranged, Newest
  <2>5. Len(SaidPart(messages)) = Len(messages) - k
    BY <2>3, <2>4
  <2>6. ASSUME NEW i \in 1 .. Len(messages) PROVE messages[i].of # {}
    <3>1. CASE i <= k
      <4>1. kindOfWindow = "summary"
        BY <2>1, <2>2, <3>1, WindowAssumption DEF Arranged
      <4>2. \A q \in 1 .. k : messages[q].of # {}
        BY <2>1, <4>1 DEF Arranged, Summed
      <4> QED BY <2>2, <3>1, <4>2
    <3>2. CASE i > k
      <4>1. i > k + First => messages[i].of = {said - Len(messages) + i}
        BY <2>1, <2>2, <3>2 DEF Arranged, Newest
      <4>2. i = k + 1 /\ First = 1 => messages[i].of = {1}
        <5>1. Len(messages) - k <= said
          BY <2>1 DEF Arranged, Newest
        <5>2. said > 0
          BY <2>2, <3>2, <5>1
        <5> QED BY <2>1, <5>2 DEF Arranged, Newest
      <4>3. i > k + First \/ (i = k + 1 /\ First = 1)
        BY <2>2, <3>2
      <4> QED BY <4>1, <4>2, <4>3
    <3> QED BY <2>2, <3>1, <3>2
  <2>7. \A m \in ToSet(messages) : m.of # {}
    BY <2>2, <2>6 DEF ToSet
  <2> QED BY <1>1, <2>4, <2>5, <2>7 DEF WindowInv, SlidWithin, CallFits
<1>2. WindowInv => CallFits
  BY <1>1 DEF CallFits
<1> QED BY <1>2, AlwaysArranged, PTL

------------------------------------------------------------------------------
(* The repair of the arguments                                              *)

\* A value that the field accepts is accepted when it has been converted, and
\* is not converted twice.
LEMMA CoercedOnce ==
  ASSUME NEW f \in DOMAIN Schema, NEW v \in Value
  PROVE  /\ Accepts(Schema[f], v) => Accepts(Schema[f], CoerceValue(v, Schema[f].target))
         /\ CoerceValue(CoerceValue(v, Schema[f].target), Schema[f].target)
              = CoerceValue(v, Schema[f].target)
<1> DEFINE s == Schema[f]
           c == CoerceValue(v, s.target)
<1>1. /\ s \in [type : Types, target : Types, required : BOOLEAN, nullable : BOOLEAN]
      /\ s.target = s.type \/ s.type \in {"list", "dict"}
  BY FixAssumption
<1>2. /\ v.reads \subseteq {"int", "float", "bool", "dict"}
      /\ v.reads # {} => v.type \in {"str", "int", "float"}
  BY DEF Value
<1> DEFINE converted == v.type # "null" /\ ~ Instance(v, s.target) /\ Converts(v, s.target)
<1>3. CASE ~ converted
  <2>1. c = v
    BY <1>3 DEF CoerceValue
  <2> QED BY <2>1
<1>4. CASE converted
  <2>1. c = [type |-> s.target, reads |-> {}]
    BY <1>4 DEF CoerceValue
  <2>2. CoerceValue(c, s.target) = c
    BY <2>1 DEF CoerceValue, Instance
  <2>3. ASSUME Accepts(s, v) PROVE Accepts(s, c)
    <3>1. CASE s.target = s.type
      BY <2>1, <3>1 DEF Accepts, Instance
    <3>2. CASE s.target # s.type
      <4>1. s.type \in {"list", "dict"} /\ s.type \notin v.reads \ {"dict"}
        BY <1>1, <1>2, <3>2
      <4>2. v.type \in {"list", "dict"}
        BY <1>4, <2>3, <4>1 DEF Accepts, Instance
      <4>3. v.reads = {}
        BY <1>2, <4>2
      <4> QED BY <1>4, <4>2, <4>3 DEF Converts
    <3> QED BY <3>1, <3>2
  <2> QED BY <2>2, <2>3
<1> QED BY <1>3, <1>4

\* What the repair makes of them.
LEMMA FixedFacts ==
  ASSUME NEW d
  PROVE  LET fixed == FixArgs([shape |-> "dict", fields |-> d])
             known == DOMAIN d \cap DOMAIN Schema
             kept == {f \in known : CoerceValue(d[f], Schema[f].target).type # "null" \/ Schema[f].required}
         IN  fixed = [f \in kept |-> CoerceValue(d[f], Schema[f].target)]
<1> DEFINE known == DOMAIN d \cap DOMAIN Schema
           kept == {f \in known : CoerceValue(d[f], Schema[f].target).type # "null" \/ Schema[f].required}
           coerced == [f \in known |-> CoerceValue(d[f], Schema[f].target)]
<1>1. StripExtra(d) = [f \in known |-> d[f]]
  BY DEF StripExtra, Restrict
<1>2. Coerce([f \in known |-> d[f]]) = coerced
  <2>1. DOMAIN [f \in known |-> d[f]] = known
    OBVIOUS
  <2>2. \A f \in known : [g \in known |-> d[g]][f] = d[f]
    OBVIOUS
  <2> HIDE DEF known
  <2> QED BY <2>1, <2>2 DEF Coerce
<1>3. DropNulls(coerced) = [f \in kept |-> CoerceValue(d[f], Schema[f].target)]
  <2>1. DOMAIN coerced = known /\ \A f \in known : coerced[f] = CoerceValue(d[f], Schema[f].target)
    OBVIOUS
  <2> HIDE DEF known, coerced
  <2>2. DropNulls(coerced) = [f \in {f \in known : coerced[f].type # "null" \/ Schema[f].required} |-> coerced[f]]
    BY <2>1 DEF DropNulls, Restrict
  <2>3. {f \in known : coerced[f].type # "null" \/ Schema[f].required} = kept
    BY <2>1
  <2>4. \A f \in kept : coerced[f] = CoerceValue(d[f], Schema[f].target)
    BY <2>1
  <2> HIDE DEF kept
  <2> QED BY <2>2, <2>3, <2>4
<1>4. FixArgs([shape |-> "dict", fields |-> d]) = DropNulls(Coerce(StripExtra(d)))
  BY DEF FixArgs
<1> QED BY <1>1, <1>2, <1>3, <1>4

LEMMA RepairIsSafe ==
  ASSUME NEW d, \A f \in DOMAIN d : d[f] \in Value
  PROVE  LET fixed == FixArgs([shape |-> "dict", fields |-> d])
         IN  /\ Valid(d) => Valid(fixed)
             /\ FixArgs([shape |-> "dict", fields |-> fixed]) = fixed
<1> DEFINE fixed == FixArgs([shape |-> "dict", fields |-> d])
           known == DOMAIN d \cap DOMAIN Schema
           kept == {f \in known : CoerceValue(d[f], Schema[f].target).type # "null" \/ Schema[f].required}
<1>1. fixed = [f \in kept |-> CoerceValue(d[f], Schema[f].target)]
  BY FixedFacts
<1> DEFINE again == FixArgs([shape |-> "dict", fields |-> fixed])
           known2 == DOMAIN fixed \cap DOMAIN Schema
           kept2 == {f \in known2 : CoerceValue(fixed[f], Schema[f].target).type # "null" \/ Schema[f].required}
<1>2. again = [f \in kept2 |-> CoerceValue(fixed[f], Schema[f].target)]
  <2> HIDE DEF fixed
  <2> QED BY FixedFacts
<1>3. \A f \in kept : f \in DOMAIN d /\ f \in DOMAIN Schema
  OBVIOUS
<1>4. \A f \in known : CoerceValue(d[f], Schema[f].target).type = "null" => f \in kept \/ ~ Schema[f].required
  OBVIOUS
<1>5. \A f \in known : f \in kept \/ (CoerceValue(d[f], Schema[f].target).type = "null" /\ ~ Schema[f].required)
  OBVIOUS
<1>6. \A f \in kept : CoerceValue(d[f], Schema[f].target).type # "null" \/ Schema[f].required
  OBVIOUS
<1>k. \A f : f \in known <=> f \in DOMAIN d /\ f \in DOMAIN Schema
  OBVIOUS
<1> HIDE DEF fixed, kept, known
<1>7. DOMAIN fixed = kept /\ \A f \in kept : fixed[f] = CoerceValue(d[f], Schema[f].target)
  BY <1>1
<1>8. ASSUME NEW f \in kept
      PROVE  CoerceValue(fixed[f], Schema[f].target) = fixed[f]
  <2>1. d[f] \in Value /\ f \in DOMAIN Schema
    BY <1>3
  <2> QED BY <1>7, <2>1, CoercedOnce
<1>9. kept2 = kept
  <2>1. known2 = kept
    BY <1>3, <1>7
  <2> HIDE DEF known2
  <2> QED BY <1>6, <1>7, <1>8, <2>1
<1>10. again = fixed
  <2> HIDE DEF kept2
  <2>1. \A f \in kept : CoerceValue(fixed[f], Schema[f].target) = CoerceValue(d[f], Schema[f].target)
    BY <1>7, <1>8
  <2> QED BY <1>1, <1>2, <1>9, <2>1
<1>11. ASSUME Valid(d) PROVE Valid(fixed)
  <2> SUFFICES ASSUME NEW f \in DOMAIN Schema
               PROVE  IF f \in DOMAIN fixed THEN Accepts(Schema[f], fixed[f]) ELSE ~ Schema[f].required
    BY DEF Valid
  <2>1. IF f \in DOMAIN d THEN Accepts(Schema[f], d[f]) ELSE ~ Schema[f].required
    BY <1>11 DEF Valid
  <2>2. CASE f \in kept
    <3>1. f \in DOMAIN d /\ d[f] \in Value
      BY <1>3, <2>2
    <3>2. Accepts(Schema[f], CoerceValue(d[f], Schema[f].target))
      BY <2>1, <3>1, CoercedOnce
    <3> QED BY <1>7, <2>2, <3>2
  <2>3. CASE f \notin kept
    <3>1. ~ Schema[f].required
      BY <1>5, <1>k, <2>1, <2>3
    <3> QED BY <1>7, <2>3, <3>1
  <2> QED BY <2>2, <2>3
<1> QED BY <1>10, <1>11 DEF fixed

\* The arguments that a thread is about to repair are those it was given.
Arrived ==
    /\ DOMAIN args = Threads
    /\ \A t \in Threads : stage[t] \in {"read", "repair"} => args[t] \in Inputs

LEMMA ArrivedInit == FixInit => Arrived
  BY DEF FixInit, Arrived

LEMMA ArrivedNext == FixInv /\ Arrived /\ [FixNext]_fixVars => Arrived'
<1> SUFFICES ASSUME FixTypeOK, Arrived, [FixNext]_fixVars PROVE Arrived'
  BY DEF FixInv
<1>1. ASSUME NEW t \in Threads, BeginCall(t) PROVE Arrived'
  BY <1>1 DEF BeginCall, GoOn, Arrived, FixTypeOK
<1>2. ASSUME NEW t \in Threads, ReadCount(t) PROVE Arrived'
  BY <1>2 DEF ReadCount, GoOn, Arrived, FixTypeOK
<1>3. ASSUME NEW t \in Threads, RepairAndValidate(t) PROVE Arrived'
  <2>1. /\ stage' = [stage EXCEPT ![t] = "run"] \/ stage' = [stage EXCEPT ![t] = "start"]
        /\ DOMAIN args' = DOMAIN args
        /\ \A x \in Threads \ {t} : args'[x] = args[x]
    BY <1>3 DEF RepairAndValidate, GoOn, Arrived
  <2> QED BY <2>1 DEF Arrived, FixTypeOK
<1>4. ASSUME NEW t \in Threads, Finish(t) \/ FinishUnchecked(t) PROVE Arrived'
  BY <1>4 DEF Finish, FinishUnchecked, GoOn, Arrived, FixTypeOK
<1>5. CASE NewRun
  BY <1>5 DEF NewRun, Arrived
<1>6. CASE UNCHANGED fixVars
  BY <1>6 DEF fixVars, Arrived
<1> QED BY <1>1, <1>2, <1>3, <1>4, <1>5, <1>6 DEF FixNext

\* For every schema and all arguments: what the schema accepts it accepts after
\* the repair, and a second repair changes nothing.
THEOREM RepairsDoNoHarm == FixSpec => []RepairDoesNoHarm
<1>1. ASSUME Arrived PROVE RepairDoesNoHarm
  <2> SUFFICES ASSUME NEW t \in Threads, stage[t] = "repair", args[t].shape = "dict"
               PROVE  LET fixed == FixArgs(args[t])
                      IN  /\ Valid(args[t].fields) => Valid(fixed)
                          /\ FixArgs([shape |-> "dict", fields |-> fixed]) = fixed
    BY DEF RepairDoesNoHarm
  <2> DEFINE d == args[t].fields
  <2>1. \A f \in DOMAIN d : d[f] \in Value
    BY <1>1, FixAssumption DEF Arrived
  <2>2. FixArgs(args[t]) = FixArgs([shape |-> "dict", fields |-> d])
    BY DEF FixArgs
  <2> HIDE DEF d
  <2>3. LET fixed == FixArgs([shape |-> "dict", fields |-> d])
        IN  /\ Valid(d) => Valid(fixed)
            /\ FixArgs([shape |-> "dict", fields |-> fixed]) = fixed
    BY <2>1, RepairIsSafe
  <2> QED BY <2>2, <2>3 DEF d
<1>2. FixSpec => []Arrived
  BY FixInitInv, FixNextInv, ArrivedInit, ArrivedNext, PTL DEF FixSpec
<1> QED BY <1>1, <1>2, PTL

------------------------------------------------------------------------------
(* Types                                                                    *)

\* A rule names one of the models, or none does.
LEMMA RuleNamesModel ==
  ASSUME NEW hit \in BOOLEAN, NEW index \in Nat
  PROVE  MatchRule(hit, index) \in Models \cup {NoModel}
<1> DEFINE E == {Rules[i] : i \in DOMAIN Rules}
           holds(r) == (r.keyword => hit) /\ index >= r.minCall
           P == {i \in DOMAIN Rules : holds(Rules[i])}
           matching == Pick(Rules, P)
<1>1. Rules \in Seq(E) /\ Len(Rules) \in Nat /\ P \in SUBSET (1 .. Len(Rules))
  BY RulesAssumption
<1>2. MatchRule(hit, index) = IF matching = << >> THEN NoModel ELSE Head(matching).model
  BY DEF MatchRule
<1> HIDE DEF P
<1>3. matching \in Seq(E)
  <2> HIDE DEF E
  <2> QED BY <1>1, PickSeq
<1> HIDE DEF matching, E
<1>4. CASE matching # << >>
  <2>1. Head(matching) \in E
    BY <1>3, <1>4
  <2>2. PICK i \in DOMAIN Rules : Head(matching) = Rules[i]
    BY <2>1 DEF E
  <2> QED BY <1>2, <1>4, <2>2 DEF Models
<1> QED BY <1>2, <1>4

LEMMA RunTypesInit == RunInit => RunTypeOK
  BY RulesAssumption DEF RunInit, RunTypeOK, Models

LEMMA RunTypesNext == RunTypeOK /\ [RunNext]_runVars => RunTypeOK'
<1> SUFFICES ASSUME RunTypeOK, [RunNext]_runVars PROVE RunTypeOK'
  OBVIOUS
<1>1. ASSUME NEW k \in Jobs, AuditBeforeAgent(k) PROVE RunTypeOK'
  BY <1>1 DEF AuditBeforeAgent, FaultFound, Enter, Log, switch, RunTypeOK
<1>2. ASSUME NEW k \in Jobs, SwitchBeforeAgent(k) PROVE RunTypeOK'
  BY <1>2 DEF SwitchBeforeAgent, Enter, audit, RunTypeOK
<1>3. ASSUME NEW k \in Jobs, AuditBeforeModel(k) PROVE RunTypeOK'
  <2>1. calls' \in [Jobs -> 0 .. MaxModelCalls]
    BY <1>3, RulesAssumption DEF AuditBeforeModel, RunTypeOK
  <2> QED BY <1>3, <2>1 DEF AuditBeforeModel, Enter, Log, switch, RunTypeOK
<1>4. ASSUME NEW k \in Jobs, SwitchBeforeModel(k) PROVE RunTypeOK'
  <2>1. callIndex' \in Nat
    BY <1>4 DEF SwitchBeforeModel, RunTypeOK
  <2>2. PICK hit \in BOOLEAN :
          LET target == MatchRule(hit, callIndex')
          IN  /\ wanted' = [wanted EXCEPT ![k] = target]
              /\ IF target \in {NoModel, currentModelName}
                 THEN UNCHANGED <<model, currentModelName>>
                 ELSE /\ model' = [model EXCEPT ![k] = target]
                      /\ currentModelName' = target
    BY <1>4 DEF SwitchBeforeModel
  <2> DEFINE target == MatchRule(hit, callIndex')
  <2>3. target \in Models \cup {NoModel}
    BY <2>1, RuleNamesModel
  <2> HIDE DEF target
  <2>4. wanted' \in [Jobs -> Models \cup {NoModel}]
    BY <2>2, <2>3 DEF target, RunTypeOK
  <2>5. model' \in [Jobs -> Models] /\ currentModelName' \in Models \cup {NoModel}
    <3>1. CASE target \in {NoModel, currentModelName}
      BY <2>2, <3>1 DEF target, RunTypeOK
    <3>2. CASE target \notin {NoModel, currentModelName}
      <4>1. model' = [model EXCEPT ![k] = target] /\ currentModelName' = target
        BY <2>2, <3>2 DEF target
      <4> QED BY <2>3, <3>2, <4>1 DEF RunTypeOK
    <3> QED BY <3>1, <3>2
  <2> QED BY <1>4, <2>1, <2>4, <2>5 DEF SwitchBeforeModel, Enter, audit, RunTypeOK
<1>5. ASSUME NEW k \in Jobs, AfterModel(k) PROVE RunTypeOK'
  BY <1>5 DEF AfterModel, Enter, Log, audit, switch, RunTypeOK
<1>6. ASSUME NEW k \in Jobs, AfterAgent(k) PROVE RunTypeOK'
  <2>1. /\ model' \in [Jobs -> Models] /\ wanted' \in [Jobs -> Models \cup {NoModel}]
        /\ calls' \in [Jobs -> 0 .. MaxModelCalls] /\ fault' \in [Jobs -> Faults]
    BY <1>6, RulesAssumption DEF AfterAgent, RunTypeOK, Models
  <2> QED BY <1>6, <2>1 DEF AfterAgent, Enter, audit, switch, RunTypeOK
<1>7. CASE UNCHANGED runVars
  BY <1>7 DEF runVars, RunTypeOK
<1> QED BY <1>1, <1>2, <1>3, <1>4, <1>5, <1>6, <1>7 DEF RunNext

\* What the middlewares remember of a run keeps its types, for any rules: what
\* is switched to is a model that some rule names.
THEOREM RunTypesKept == RunSpec => []RunTypeOK
  BY RunTypesInit, RunTypesNext, PTL DEF RunSpec

\* The messages keep their types, and a run waits for no tool call that has
\* been answered.
THEOREM WindowTypes == WindowSpec => []WindowTypeOK
<1>1. WindowInv => WindowTypeOK
  BY DEF WindowInv
<1> QED BY <1>1, AlwaysArranged, PTL

------------------------------------------------------------------------------
(* All of them together                                                     *)

PartsInv == RateInv /\ FixInv /\ RunTypeOK /\ WindowInv /\ EarnInv /\ Settled

partVars == <<part, rateVars, fixVars, runVars, windowVars, callVars>>

LEMMA PartsNext == PartsInv /\ [MCNext]_partVars => PartsInv'
<1> SUFFICES ASSUME PartsInv, [MCNext]_partVars PROVE PartsInv'
  OBVIOUS
<1>1. /\ [RateNext]_rateVars /\ [FixNext]_fixVars /\ [RunNext]_runVars
      /\ [WindowNext]_windowVars /\ [CallsNext]_callVars
  BY Zenon DEF MCNext, RateStep, FixStep, RunStep, WindowStep, ToolStep, partVars
<1>2. RateInv' /\ FixInv' /\ RunTypeOK'
  BY <1>1, NextBalanced, FixNextInv, RunTypesNext DEF PartsInv
<1>3. WindowInv' /\ EarnInv' /\ Settled'
  BY <1>1, WindowKeeps, EarnNext, SettledNext DEF PartsInv
<1> QED BY <1>2, <1>3 DEF PartsInv

\* All that the main agent's middlewares and the tools below them remember
\* keeps its types, whichever of them moves.
THEOREM AgentRunTypes == MCSpec => []AgentRunTypeOK
<1>1. MCInit => PartsInv
  BY InitBalanced, FixInitInv, RunTypesInit, WindowStart, EarnInit, SettledInit
  DEF MCInit, PartsInv
<1>2. PartsInv => AgentRunTypeOK
  BY TypeParts, EarnedTypes DEF PartsInv, RateInv, FixInv, WindowInv, AgentRunTypeOK
<1> QED BY <1>1, <1>2, PartsNext, PTL DEF MCSpec, partVars

==============================================================================
