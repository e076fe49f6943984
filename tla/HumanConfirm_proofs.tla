------------------------- MODULE HumanConfirm_proofs -------------------------
(* Theorems about HumanConfirm, for any number of calls, ids and people's acts. *)
EXTENDS HumanConfirm, TLAPS

USE DEF config, stores, people

LEMMA ZeroIsAct == 0 \in Acts
  BY ConfirmAssumption DEF Acts

LEMMA StatusOfType == \A n : StatusOf(n) \in {"APPROVED", "REJECTED"}
  BY DEF StatusOf

\* A jump and a decision keep the types of what they change.
LEMMA GotoType ==
  ASSUME pc \in [Calls -> PCs], NEW c \in Calls, NEW label \in PCs, Goto(c, label)
  PROVE  pc' \in [Calls -> PCs]
  BY DEF Goto

LEMMA DecideType ==
  ASSUME TypeOK, NEW c \in Calls, NEW s \in Statuses, NEW n \in Acts, Decide(c, s, n)
  PROVE  /\ pc' \in [Calls -> PCs]
         /\ status' \in [Calls -> Statuses]
         /\ basis' \in [Calls -> Acts]
  BY DEF TypeOK, Decide, Goto, PCs

\* Types are kept by every step of a call's thread.
LEMMA ThreadTypeOK ==
  ASSUME TypeOK, NEW c \in Calls, Thread(c)
  PROVE  TypeOK'
<1> USE ZeroIsAct, StatusOfType DEF Statuses
<1>0. op[c] \in OpIds /\ results[op[c]] \in Acts /\ remote[op[c]] \in Acts
  BY DEF TypeOK
<1>1. CASE WrapToolCall(c)
  BY <1>1, GotoType DEF WrapToolCall, TypeOK, PCs
<1>2. CASE RequestConfirmation(c)
  <2> DEFINE Typed == /\ pc' \in [Calls -> PCs]
                      /\ status' \in [Calls -> Statuses]
                      /\ basis' \in [Calls -> Acts]
                      /\ asked' \subseteq OpIds
  <2>1. Typed
    <3>1. CASE Decide(c, "REJECTED", 0) /\ UNCHANGED asked
      BY <3>1, DecideType DEF TypeOK
    <3>2. ASSUME NEW label \in {"pop", "console", "post"}, Goto(c, label),
                 UNCHANGED <<status, basis>>, asked' \in {asked, asked \cup {op[c]}}
          PROVE  Typed
      BY <1>0, <3>2, GotoType DEF TypeOK, PCs
    <3> QED  BY <1>2, <3>1, <3>2 DEF RequestConfirmation
  <2> QED  BY <1>2, <2>1 DEF RequestConfirmation, TypeOK
<1>3. CASE PopResult(c)
  <2>1. CASE results[op[c]] # 0
    <3>1. Decide(c, StatusOf(results[op[c]]), results[op[c]])
      BY <1>3, <2>1 DEF PopResult
    <3>2. /\ pc' \in [Calls -> PCs]
          /\ status' \in [Calls -> Statuses]
          /\ basis' \in [Calls -> Acts]
      BY <1>0, <3>1, DecideType
    <3>3. results' \in [OpIds -> Acts]
      BY <1>0, <1>3, <2>1 DEF PopResult, TypeOK
    <3> QED  BY <1>3, <3>2, <3>3 DEF PopResult, TypeOK
  <2>2. CASE results[op[c]] = 0
    BY <1>3, <2>2, GotoType DEF PopResult, TypeOK, PCs
  <2> QED  BY <2>1, <2>2
<1>4. CASE ConsoleRead(c)
  <2>1. Head(stdin) \in Acts /\ stdin' \in Seq(Acts)
    BY <1>4 DEF ConsoleRead, TypeOK
  <2>2. /\ pc' \in [Calls -> PCs]
        /\ status' \in [Calls -> Statuses]
        /\ basis' \in [Calls -> Acts]
    <3>1. CASE log[Head(stdin)].says = "other"
      BY <1>4, <3>1, GotoType DEF ConsoleRead, TypeOK, PCs
    <3>2. CASE log[Head(stdin)].says # "other"
      BY <1>4, <2>1, <3>2, DecideType DEF ConsoleRead
    <3> QED  BY <3>1, <3>2
  <2> QED  BY <1>4, <2>1, <2>2 DEF ConsoleRead, TypeOK
<1>5. CASE ConsoleIdle(c) \/ ConsoleHeld(c)
  <2>1. CASE ConsoleIdle(c)
    BY <2>1 DEF ConsoleIdle, TypeOK
  <2>2. CASE ConsoleHeld(c)
    BY <2>2 DEF ConsoleHeld, TypeOK
  <2> QED  BY <1>5, <2>1, <2>2
<1>6. CASE ConsoleTimeout(c)
  BY <1>6, DecideType DEF ConsoleTimeout, TypeOK
<1>7. CASE WebhookPost(c)
  <2>1. CASE Decide(c, "REJECTED", 0) /\ UNCHANGED asked
    BY <1>7, <2>1, DecideType DEF WebhookPost, TypeOK
  <2>2. CASE Goto(c, "poll") /\ asked' = asked \cup {op[c]} /\ UNCHANGED <<status, basis>>
    BY <1>0, <1>7, <2>2, GotoType DEF WebhookPost, TypeOK, PCs
  <2> QED  BY <1>7, <2>1, <2>2 DEF WebhookPost
<1>8. CASE WebhookSleep(c)
  BY <1>8, ConfirmAssumption, GotoType DEF WebhookSleep, TypeOK, PCs
<1>9. CASE WebhookWake(c)
  BY <1>9, GotoType DEF WebhookWake, TypeOK, PCs
<1>10. CASE WebhookGet(c)
  <2>1. elapsed' \in [Calls -> Nat]
    BY <1>10, ConfirmAssumption DEF WebhookGet, TypeOK
  <2>2. /\ pc' \in [Calls -> PCs]
        /\ status' \in [Calls -> Statuses]
        /\ basis' \in [Calls -> Acts]
    <3>1. CASE Decide(c, StatusOf(remote[op[c]]), remote[op[c]])
      BY <1>0, <3>1, DecideType
    <3>2. CASE Goto(c, "poll") /\ UNCHANGED <<status, basis>>
      BY <3>2, GotoType DEF TypeOK, PCs
    <3> QED  BY <1>10, <3>1, <3>2 DEF WebhookGet
  <2> QED  BY <1>10, <2>1, <2>2 DEF WebhookGet, TypeOK
<1>11. CASE WebhookTimeout(c)
  BY <1>11, DecideType DEF WebhookTimeout, TypeOK
<1>12. CASE Resume(c)
  BY <1>12, GotoType DEF Resume, TypeOK, PCs
<1>13. CASE ConsoleSelect(c)
  BY <1>13, GotoType DEF ConsoleSelect, TypeOK, PCs
<1> QED
  BY <1>1, <1>2, <1>3, <1>4, <1>5, <1>6, <1>7, <1>8, <1>9, <1>10, <1>11, <1>12, <1>13 DEF Thread

\* Types are kept by whatever people do.
LEMMA PersonTypeOK ==
  ASSUME TypeOK, NEW o \in OpIds, Person(o)
  PROVE  TypeOK'
<1> USE ConfirmAssumption DEF TypeOK, Record, Act, Acts
<1>1. ASSUME NEW b \in BOOLEAN, SubmitConfirmation(o, b)
      PROVE  TypeOK'
  BY <1>1 DEF SubmitConfirmation
<1>2. ASSUME NEW b \in BOOLEAN, ApiConfirm(o, b)
      PROVE  TypeOK'
  BY <1>2 DEF ApiConfirm
<1>3. ASSUME NEW s \in {"yes", "no", "other"}, TypeLine(o, s)
      PROVE  TypeOK'
  BY <1>3 DEF TypeLine
<1>4. ASSUME NEW s \in {"yes", "no", "other"}, RemoteDecision(o, s)
      PROVE  TypeOK'
  BY <1>4 DEF RemoteDecision
<1> QED  BY <1>1, <1>2, <1>3, <1>4 DEF Person

LEMMA InitTypeOK == Init => TypeOK
  BY ConfirmAssumption DEF Init, TypeOK, Acts, PCs, Statuses

LEMMA NextTypeOK == TypeOK /\ [Next]_vars => TypeOK'
<1> SUFFICES ASSUME TypeOK, [Next]_vars PROVE TypeOK'
  OBVIOUS
<1>1. CASE UNCHANGED vars
  BY <1>1 DEF TypeOK, vars
<1> QED  BY <1>1, ThreadTypeOK, PersonTypeOK DEF Next

\* Every reachable state is of the declared types.
THEOREM TypeCorrect == Spec => []TypeOK
  BY InitTypeOK, NextTypeOK, PTL DEF Spec

------------------------------------------------------------------------------
(* The steps of a thread, by what they do with answers.                     *)

Undecided == {"request", "pop", "console", "reading", "post", "poll", "wake", "get"}

\* The thread goes on without a new decision; it may drop a line it read.
Skip(c) ==
    /\ pc' \in [Calls -> PCs] /\ \A d \in Calls : d # c => pc'[d] = pc[d]
    /\ pc'[c] # "decided"
    /\ pc'[c] = "executed" => \/ pc[c] = "idle" /\ ~Dangerous(c)
                              \/ pc[c] = "decided" /\ Granted(c)
    /\ pc'[c] = "denied" => pc[c] = "decided" /\ ~Granted(c)
    /\ pc[c] = "decided" => pc'[c] \in {"executed", "denied"}
    /\ pc[c] = "idle" => pc'[c] = IF Dangerous(c) THEN "request" ELSE "executed"
    /\ pc[c] \in Undecided => pc'[c] \in Undecided \cup {"failed"}
    /\ pc[c] \notin {"executed", "denied", "failed"}
    /\ UNCHANGED <<status, basis, results>>
    /\ stdin' = stdin \/ (stdin # << >> /\ stdin' = Tail(stdin))

\* The wait ends with no answer.
NoAnswer(c) ==
    /\ pc[c] \in Undecided
    /\ Decide(c, "REJECTED", 0) \/ Decide(c, "TIMEOUT", 0)
    /\ UNCHANGED <<results, stdin>>

TakeResult(c) ==
    /\ pc[c] \in Undecided /\ results[op[c]] # 0
    /\ Decide(c, StatusOf(results[op[c]]), results[op[c]])
    /\ results' = [results EXCEPT ![op[c]] = 0] /\ stdin' = stdin

TakeLine(c) ==
    /\ pc[c] \in Undecided /\ stdin # << >>
    /\ Decide(c, StatusOf(Head(stdin)), Head(stdin))
    /\ stdin' = Tail(stdin) /\ results' = results

TakeRemote(c) ==
    /\ pc[c] \in Undecided /\ remote[op[c]] # 0
    /\ Decide(c, StatusOf(remote[op[c]]), remote[op[c]])
    /\ UNCHANGED <<results, stdin>>

LEMMA GotoSkips ==
  ASSUME TypeOK, NEW c \in Calls, NEW label \in PCs \ {"decided"}, Goto(c, label)
  PROVE  /\ pc' \in [Calls -> PCs] /\ \A d \in Calls : d # c => pc'[d] = pc[d]
         /\ pc'[c] = label
  BY DEF TypeOK, Goto

\* Every step of a thread is one of these, and leaves what people have done.
LEMMA ThreadStep ==
  ASSUME TypeOK, NEW c \in Calls, Thread(c)
  PROVE  /\ UNCHANGED <<tool, op, remote, log>>
         /\ Skip(c) \/ NoAnswer(c) \/ TakeResult(c) \/ TakeLine(c) \/ TakeRemote(c)
<1> USE DEF Undecided, PCs
<1>1. CASE WrapToolCall(c)
  BY <1>1, GotoSkips DEF WrapToolCall, Skip, Dangerous
<1>2. CASE RequestConfirmation(c)
  <2>1. CASE Decide(c, "REJECTED", 0)
    BY <1>2, <2>1 DEF RequestConfirmation, NoAnswer
  <2>2. ASSUME NEW label \in {"pop", "console", "post"}, Goto(c, label), UNCHANGED <<status, basis>>
        PROVE  Skip(c)
    BY <1>2, <2>2, GotoSkips DEF RequestConfirmation, Skip
  <2> QED  BY <1>2, <2>1, <2>2 DEF RequestConfirmation
<1>3. CASE PopResult(c)
  <2>1. CASE results[op[c]] # 0
    BY <1>3, <2>1 DEF PopResult, TakeResult
  <2>2. CASE results[op[c]] = 0
    BY <1>3, <2>2, GotoSkips DEF PopResult, Skip
  <2> QED  BY <1>3, <2>1, <2>2 DEF PopResult
<1>4. CASE ConsoleRead(c)
  <2>1. CASE log[Head(stdin)].says = "other"
    BY <1>4, <2>1, GotoSkips DEF ConsoleRead, Skip
  <2>2. CASE log[Head(stdin)].says # "other"
    BY <1>4, <2>2 DEF ConsoleRead, TakeLine
  <2> QED  BY <1>4, <2>1, <2>2 DEF ConsoleRead
<1>5. CASE ConsoleIdle(c) \/ ConsoleHeld(c)
  BY <1>5 DEF ConsoleIdle, ConsoleHeld, Skip, TypeOK
<1>6. CASE ConsoleTimeout(c)
  BY <1>6 DEF ConsoleTimeout, NoAnswer
<1>7. CASE WebhookPost(c)
  <2>1. CASE Decide(c, "REJECTED", 0)
    BY <1>7, <2>1 DEF WebhookPost, NoAnswer
  <2>2. CASE Goto(c, "poll") /\ UNCHANGED <<status, basis>>
    BY <1>7, <2>2, GotoSkips DEF WebhookPost, Skip
  <2> QED  BY <1>7, <2>1, <2>2 DEF WebhookPost
<1>8. CASE WebhookSleep(c)
  BY <1>8, GotoSkips DEF WebhookSleep, Skip
<1>9. CASE WebhookWake(c)
  BY <1>9, GotoSkips DEF WebhookWake, Skip
<1>10. CASE WebhookGet(c)
  <2>1. CASE remote[op[c]] # 0 /\ Decide(c, StatusOf(remote[op[c]]), remote[op[c]])
    BY <1>10, <2>1 DEF WebhookGet, TakeRemote
  <2>2. CASE Goto(c, "poll") /\ UNCHANGED <<status, basis>>
    BY <1>10, <2>2, GotoSkips DEF WebhookGet, Skip
  <2> QED  BY <1>10, <2>1, <2>2 DEF WebhookGet
<1>11. CASE WebhookTimeout(c)
  BY <1>11 DEF WebhookTimeout, NoAnswer
<1>12. CASE Resume(c)
  BY <1>12, GotoSkips DEF Resume, Skip, Granted
<1>13. CASE ConsoleSelect(c)
  BY <1>13, GotoSkips DEF ConsoleSelect, Skip
<1> QED
  BY <1>1, <1>2, <1>3, <1>4, <1>5, <1>6, <1>7, <1>8, <1>9, <1>10, <1>11, <1>12, <1>13 DEF Thread

------------------------------------------------------------------------------

\* What a recorded act does to the log.
LEMMA RecordStep ==
  ASSUME TypeOK, NEW via, NEW o, NEW says, Record(via, o, says)
  PROVE  /\ Len(log') \in Nat /\ Len(log') = Len(log) + 1
         /\ DOMAIN log \subseteq DOMAIN log' /\ Len(log') \in DOMAIN log'
         /\ Len(log') \notin DOMAIN log
         /\ \A n \in DOMAIN log : log'[n] = log[n]
         /\ log'[Len(log')] = [via |-> via, op |-> o, says |-> says]
         /\ UNCHANGED <<pc, tool, op, status, basis>>
  BY DEF TypeOK, Record

LEMMA PersonStep ==
  ASSUME TypeOK, NEW o \in OpIds, Person(o)
  PROVE  \E via \in {"submit", "console", "remote", "api"}, says \in {"yes", "no", "other"} :
            /\ Record(via, o, says)
            /\ results' = IF via = "submit" THEN [results EXCEPT ![o] = Len(log')] ELSE results
            /\ remote' = IF via = "remote" THEN [remote EXCEPT ![o] = Len(log')] ELSE remote
            /\ stdin' = IF via = "console" THEN Append(stdin, Len(log')) ELSE stdin
  BY DEF Person, SubmitConfirmation, ApiConfirm, TypeLine, RemoteDecision

------------------------------------------------------------------------------
(* The inductive invariant                                                  *)

Inv == TypeOK /\ StoredAnswers /\ Decisions

LEMMA InitInv == Init => Inv
<1> SUFFICES ASSUME Init PROVE StoredAnswers /\ Decisions
  BY InitTypeOK DEF Inv
<1> QED  BY DEF Init, StoredAnswers, Decisions, Granted

LEMMA ThreadStored ==
  ASSUME Inv, NEW c \in Calls, Thread(c)
  PROVE  StoredAnswers'
<1> USE DEF Inv
<1>1. UNCHANGED <<remote, log>>
  BY ThreadStep
<1>2. results' = results \/ results' = [results EXCEPT ![op[c]] = 0]
  BY ThreadStep DEF Skip, NoAnswer, TakeResult, TakeLine, TakeRemote
<1>3. stdin' = stdin \/ (stdin # << >> /\ stdin' = Tail(stdin))
  BY ThreadStep DEF Skip, NoAnswer, TakeResult, TakeLine, TakeRemote
<1>4. \A i \in DOMAIN stdin' : \E j \in DOMAIN stdin : stdin'[i] = stdin[j]
  <2>1. CASE stdin # << >> /\ stdin' = Tail(stdin)
    <3>1. \A i \in DOMAIN stdin' : i + 1 \in DOMAIN stdin /\ stdin'[i] = stdin[i + 1]
      BY <2>1 DEF TypeOK
    <3> QED  BY <3>1
  <2> QED  BY <1>3, <2>1
<1>5. \A o \in OpIds : results'[o] # 0 => results'[o] = results[o]
  BY <1>2 DEF TypeOK
<1> QED  BY <1>1, <1>4, <1>5 DEF StoredAnswers

LEMMA PersonStored ==
  ASSUME Inv, NEW o \in OpIds, Person(o)
  PROVE  StoredAnswers'
<1> USE DEF Inv
<1>1. PICK via \in {"submit", "console", "remote", "api"}, says \in {"yes", "no", "other"} :
            /\ Record(via, o, says)
            /\ results' = IF via = "submit" THEN [results EXCEPT ![o] = Len(log')] ELSE results
            /\ remote' = IF via = "remote" THEN [remote EXCEPT ![o] = Len(log')] ELSE remote
            /\ stdin' = IF via = "console" THEN Append(stdin, Len(log')) ELSE stdin
  BY PersonStep
<1>2. /\ Len(log') \in Nat /\ Len(log') = Len(log) + 1
      /\ DOMAIN log \subseteq DOMAIN log' /\ Len(log') \in DOMAIN log'
      /\ \A n \in DOMAIN log : log'[n] = log[n]
      /\ log'[Len(log')] = [via |-> via, op |-> o, says |-> says]
  BY <1>1, RecordStep
<1>3. \A p \in OpIds : results'[p] # 0 => results'[p] \in DOMAIN log'
        /\ log'[results'[p]].via = "submit" /\ log'[results'[p]].op = p
  BY <1>1, <1>2 DEF TypeOK, StoredAnswers
<1>4. \A p \in OpIds : remote'[p] # 0 => remote'[p] \in DOMAIN log'
        /\ log'[remote'[p]].via = "remote" /\ log'[remote'[p]].op = p
  BY <1>1, <1>2 DEF TypeOK, StoredAnswers
<1>5. \A i \in DOMAIN stdin' : stdin'[i] \in DOMAIN log' /\ log'[stdin'[i]].via = "console"
  <2>1. CASE via = "console"
    <3>1. \A i \in DOMAIN stdin' : \/ i \in DOMAIN stdin /\ stdin'[i] = stdin[i]
                                   \/ stdin'[i] = Len(log')
      BY <1>1, <1>2, <2>1 DEF TypeOK
    <3> QED  BY <1>2, <2>1, <3>1 DEF StoredAnswers
  <2>2. CASE via # "console"
    BY <1>1, <1>2, <2>2 DEF StoredAnswers
  <2> QED  BY <2>1, <2>2
<1> QED  BY <1>3, <1>4, <1>5 DEF StoredAnswers

LEMMA ThreadDecisions ==
  ASSUME Inv, NEW c \in Calls, Thread(c)
  PROVE  Decisions'
<1> USE DEF Inv, Dangerous
<1>1. UNCHANGED <<tool, op, remote, log>>
  BY ThreadStep
<1>2. CASE Skip(c)
  BY <1>1, <1>2 DEF Skip, Decisions, TypeOK, Granted, StatusOf, Undecided
<1>3. ASSUME NEW s, NEW n \in Acts, pc[c] \in Undecided, Decide(c, s, n),
             n = 0 => s \in {"REJECTED", "TIMEOUT"},
             n # 0 => /\ n \in DOMAIN log
                      /\ s = StatusOf(n)
                      /\ log[n].via \in {"submit", "console", "remote"}
                      /\ log[n].via # "console" => log[n].op = op[c]
      PROVE  Decisions'
  <2>1. /\ pc'[c] = "decided" /\ status'[c] = s /\ basis'[c] = n
        /\ \A d \in Calls : d # c => pc'[d] = pc[d] /\ status'[d] = status[d] /\ basis'[d] = basis[d]
    BY <1>3 DEF TypeOK, Decide, Goto
  <2>2. Dangerous(c)
    BY <1>3 DEF Decisions, Undecided
  <2> HIDE DEF Dangerous
  <2>3. \A d \in Calls : Dangerous(d)' = Dangerous(d)
    BY <1>1 DEF Dangerous
  <2> QED  BY <1>1, <1>3, <2>1, <2>2, <2>3 DEF Decisions, Granted, StatusOf
<1>4. CASE NoAnswer(c)
  BY <1>3, <1>4, ZeroIsAct DEF NoAnswer
<1>5. CASE TakeResult(c)
  <2>1. op[c] \in OpIds /\ results[op[c]] \in Acts /\ results[op[c]] # 0
    BY <1>5 DEF TakeResult, TypeOK
  <2>2. results[op[c]] \in DOMAIN log /\ log[results[op[c]]].via = "submit" /\ log[results[op[c]]].op = op[c]
    BY <2>1 DEF StoredAnswers
  <2> QED  BY <1>3, <1>5, <2>1, <2>2 DEF TakeResult
<1>6. CASE TakeLine(c)
  <2>1. Head(stdin) = stdin[1] /\ 1 \in DOMAIN stdin /\ stdin[1] \in Acts
    BY <1>6 DEF TakeLine, TypeOK
  <2>2. stdin[1] \in DOMAIN log /\ log[stdin[1]].via = "console" /\ stdin[1] # 0
    BY <2>1 DEF StoredAnswers, TypeOK
  <2> QED  BY <1>3, <1>6, <2>1, <2>2 DEF TakeLine
<1>7. CASE TakeRemote(c)
  <2>1. op[c] \in OpIds /\ remote[op[c]] \in Acts /\ remote[op[c]] # 0
    BY <1>7 DEF TakeRemote, TypeOK
  <2>2. remote[op[c]] \in DOMAIN log /\ log[remote[op[c]]].via = "remote" /\ log[remote[op[c]]].op = op[c]
    BY <2>1 DEF StoredAnswers
  <2> QED  BY <1>3, <1>7, <2>1, <2>2 DEF TakeRemote
<1> QED  BY <1>2, <1>4, <1>5, <1>6, <1>7, ThreadStep

LEMMA PersonDecisions ==
  ASSUME Inv, NEW o \in OpIds, Person(o)
  PROVE  Decisions'
<1>1. /\ DOMAIN log \subseteq DOMAIN log'
      /\ \A n \in DOMAIN log : log'[n] = log[n]
      /\ UNCHANGED <<pc, tool, op, status, basis>>
  BY PersonStep, RecordStep DEF Inv
<1> QED  BY <1>1 DEF Inv, Decisions, Granted, Dangerous, StatusOf

LEMMA NextInv == Inv /\ [Next]_vars => Inv'
<1> SUFFICES ASSUME Inv, [Next]_vars PROVE StoredAnswers' /\ Decisions'
  BY NextTypeOK DEF Inv
<1>1. CASE UNCHANGED vars
  BY <1>1 DEF vars, Inv, StoredAnswers, Decisions, Granted, Dangerous, StatusOf
<1> QED
  BY <1>1, ThreadStored, ThreadDecisions, PersonStored, PersonDecisions DEF Next

LEMMA InvHolds == Spec => []Inv
  BY InitInv, NextInv, PTL DEF Spec

\* No dangerous tool runs without a person's yes, whatever the number of calls,
\* the ids they share and the order of answers, timeouts and polls.
THEOREM OnlyApprovedCallsExecute == Spec => []ExecutedOnlyIfApproved
<1>1. Inv => ExecutedOnlyIfApproved
  BY DEF Inv, Decisions, ExecutedOnlyIfApproved, Granted, StatusOf
<1> QED  BY <1>1, InvHolds, PTL

------------------------------------------------------------------------------
(* One call per answer: what decided a call is not found again.             *)

SpentInv == Inv /\ SpentAnswers /\ OneCallPerAnswer

LEMMA InitSpent == Init => SpentInv
<1> SUFFICES ASSUME Init PROVE SpentAnswers /\ OneCallPerAnswer
  BY InitInv DEF SpentInv
<1> QED  BY DEF Init, SpentAnswers, OneCallPerAnswer

\* Dropping the first line leaves distinct lines that were there before.
LEMMA TailLines ==
  ASSUME TypeOK, SpentAnswers, stdin # << >>, stdin' = Tail(stdin)
  PROVE  /\ \A i \in DOMAIN stdin' : \E j \in DOMAIN stdin : stdin'[i] = stdin[j]
         /\ \A i, j \in DOMAIN stdin' : i # j => stdin'[i] # stdin'[j]
         /\ \A i \in DOMAIN stdin' : stdin'[i] # stdin[1]
         /\ Head(stdin) = stdin[1] /\ 1 \in DOMAIN stdin
<1>1. \A i \in DOMAIN stdin' : i \in Nat /\ i # 0 /\ i + 1 \in DOMAIN stdin /\ stdin'[i] = stdin[i + 1]
  BY DEF TypeOK
<1>2. 1 \in DOMAIN stdin /\ Head(stdin) = stdin[1]
  BY DEF TypeOK
<1>3. \A i, j \in DOMAIN stdin : i # j => stdin[i] # stdin[j]
  BY DEF SpentAnswers
<1>4. \A i \in DOMAIN stdin' : i + 1 # 1
  BY <1>1
<1>5. \A i, j \in DOMAIN stdin' : i # j => i + 1 # j + 1
  BY <1>1
<1> QED  BY <1>1, <1>2, <1>3, <1>4, <1>5

LEMMA ThreadSpent ==
  ASSUME SpentInv, NEW c \in Calls, Thread(c)
  PROVE  SpentAnswers' /\ OneCallPerAnswer'
<1> USE DEF SpentInv, Inv
<1>1. UNCHANGED <<tool, op, remote, log>>
  BY ThreadStep
<1>2. CASE Skip(c)
  <2>1. CASE stdin' = stdin
    BY <1>1, <1>2, <2>1 DEF Skip, SpentAnswers, OneCallPerAnswer
  <2>2. CASE stdin # << >> /\ stdin' = Tail(stdin)
    BY <1>1, <1>2, <2>2, TailLines DEF Skip, SpentAnswers, OneCallPerAnswer
  <2> QED  BY <1>2, <2>1, <2>2 DEF Skip
<1>3. ASSUME pc[c] \in Undecided, NEW s, NEW n \in Acts, Decide(c, s, n)
      PROVE  /\ basis[c] = 0 /\ basis'[c] = n
             /\ \A d \in Calls : d # c => basis'[d] = basis[d]
  BY <1>3 DEF Decide, Decisions, Undecided, TypeOK
<1>4. CASE NoAnswer(c)
  <2>1. basis'[c] = 0 /\ \A d \in Calls : d # c => basis'[d] = basis[d]
    BY <1>3, <1>4, ZeroIsAct DEF NoAnswer
  <2> QED  BY <1>1, <1>4, <2>1 DEF NoAnswer, SpentAnswers, OneCallPerAnswer
<1>5. CASE TakeResult(c)
  <2> DEFINE n == results[op[c]]
  <2>1. op[c] \in OpIds /\ n \in Acts /\ n # 0
    BY <1>5 DEF TakeResult, TypeOK
  <2>2. log[n].via = "submit" /\ log[n].op = op[c]
    BY <2>1 DEF StoredAnswers
  <2>3. basis'[c] = n /\ \A d \in Calls : d # c => basis'[d] = basis[d]
    BY <1>3, <1>5, <2>1 DEF TakeResult
  <2>4. stdin' = stdin /\ \A o \in OpIds : results'[o] = IF o = op[c] THEN 0 ELSE results[o]
    BY <1>5, <2>1 DEF TakeResult, TypeOK
  <2>5. \A o \in OpIds : results[o] # 0 /\ results[o] = n => o = op[c]
    BY <2>2 DEF StoredAnswers
  <2>6. \A i \in DOMAIN stdin : stdin[i] # n
    BY <2>2 DEF StoredAnswers
  <2>7. \A d \in Calls : basis[d] # 0 => basis[d] # n
    BY <2>1 DEF SpentAnswers
  <2>8. SpentAnswers'
    BY <2>1, <2>3, <2>4, <2>5, <2>6 DEF SpentAnswers
  <2>9. OneCallPerAnswer'
    BY <1>1, <2>1, <2>3, <2>7 DEF OneCallPerAnswer
  <2> QED  BY <2>8, <2>9
<1>6. CASE TakeLine(c)
  <2>0. stdin # << >> /\ stdin' = Tail(stdin) /\ results' = results
    BY <1>6 DEF TakeLine
  <2>1. /\ \A i \in DOMAIN stdin' : \E j \in DOMAIN stdin : stdin'[i] = stdin[j]
        /\ \A i, j \in DOMAIN stdin' : i # j => stdin'[i] # stdin'[j]
        /\ \A i \in DOMAIN stdin' : stdin'[i] # stdin[1]
        /\ Head(stdin) = stdin[1] /\ 1 \in DOMAIN stdin
    BY <2>0, TailLines
  <2>2. log[stdin[1]].via = "console" /\ stdin[1] \in Acts /\ stdin[1] \in DOMAIN log
    BY <2>1 DEF StoredAnswers, TypeOK
  <2>3. basis'[c] = stdin[1] /\ \A d \in Calls : d # c => basis'[d] = basis[d]
    BY <1>3, <1>6, <2>1, <2>2 DEF TakeLine
  <2>4. \A o \in OpIds : results[o] # stdin[1]
    BY <2>2 DEF StoredAnswers, TypeOK
  <2>5. \A d \in Calls : basis[d] # 0 => basis[d] # stdin[1]
    BY <2>1 DEF SpentAnswers
  <2>6. SpentAnswers'
    BY <2>0, <2>1, <2>3, <2>4 DEF SpentAnswers
  <2>7. OneCallPerAnswer'
    BY <1>1, <2>3, <2>5 DEF OneCallPerAnswer
  <2> QED  BY <2>6, <2>7
<1>7. CASE TakeRemote(c)
  <2> DEFINE n == remote[op[c]]
  <2>1. op[c] \in OpIds /\ n \in Acts /\ n # 0
    BY <1>7 DEF TakeRemote, TypeOK
  <2>2. log[n].via = "remote" /\ log[n].op = op[c]
    BY <2>1 DEF StoredAnswers
  <2>3. basis'[c] = n /\ \A d \in Calls : d # c => basis'[d] = basis[d]
    BY <1>3, <1>7, <2>1 DEF TakeRemote
  <2>4. results' = results /\ stdin' = stdin
    BY <1>7 DEF TakeRemote
  <2>5. /\ \A o \in OpIds : results[o] # n
        /\ \A i \in DOMAIN stdin : stdin[i] # n
    BY <2>1, <2>2 DEF StoredAnswers
  <2>6. \A d \in Calls : basis[d] = n => op[d] = op[c]
    BY <2>1, <2>2 DEF Decisions
  <2>7. SpentAnswers'
    BY <2>3, <2>4, <2>5 DEF SpentAnswers
  <2>8. OneCallPerAnswer'
    BY <1>1, <2>2, <2>3, <2>6 DEF OneCallPerAnswer
  <2> QED  BY <2>7, <2>8
<1> QED  BY <1>2, <1>4, <1>5, <1>6, <1>7, ThreadStep

LEMMA PersonSpent ==
  ASSUME SpentInv, NEW o \in OpIds, Person(o)
  PROVE  SpentAnswers' /\ OneCallPerAnswer'
<1> USE DEF SpentInv, Inv
<1>1. PICK via \in {"submit", "console", "remote", "api"}, says \in {"yes", "no", "other"} :
            /\ Record(via, o, says)
            /\ results' = IF via = "submit" THEN [results EXCEPT ![o] = Len(log')] ELSE results
            /\ stdin' = IF via = "console" THEN Append(stdin, Len(log')) ELSE stdin
  BY PersonStep
<1>2. /\ Len(log') \in Nat /\ Len(log') \notin DOMAIN log
      /\ \A n \in DOMAIN log : log'[n] = log[n]
      /\ UNCHANGED <<op, basis>>
  BY <1>1, RecordStep
<1>3. \A c \in Calls : basis[c] # 0 => basis[c] \in DOMAIN log
  BY DEF Decisions
<1>4. \A p \in OpIds : results'[p] = results[p] \/ results'[p] = Len(log')
  BY <1>1 DEF TypeOK
<1>5. /\ \A i \in DOMAIN stdin' : \/ i \in DOMAIN stdin /\ stdin'[i] = stdin[i]
                                  \/ i = Len(stdin) + 1 /\ stdin'[i] = Len(log')
      /\ Len(stdin) + 1 \notin DOMAIN stdin
  BY <1>1, <1>2 DEF TypeOK
<1>6. \A i \in DOMAIN stdin : stdin[i] # Len(log')
  BY <1>2 DEF StoredAnswers
<1>7. SpentAnswers'
  BY <1>2, <1>3, <1>4, <1>5, <1>6 DEF SpentAnswers
<1>8. OneCallPerAnswer'
  BY <1>2, <1>3 DEF OneCallPerAnswer
<1> QED  BY <1>7, <1>8

LEMMA NextSpent == SpentInv /\ [Next]_vars => SpentInv'
<1> SUFFICES ASSUME SpentInv, [Next]_vars PROVE SpentAnswers' /\ OneCallPerAnswer'
  BY NextInv DEF SpentInv
<1>1. CASE UNCHANGED vars
  BY <1>1 DEF vars, SpentInv, SpentAnswers, OneCallPerAnswer
<1> QED  BY <1>1, ThreadSpent, PersonSpent DEF Next

\* A line of input and a submitted result each decide one call at most.
THEOREM AnswersDecideOneCall == Spec => []OneCallPerAnswer
<1>1. SpentInv => OneCallPerAnswer
  BY DEF SpentInv
<1> QED  BY <1>1, InitSpent, NextSpent, PTL DEF Spec

------------------------------------------------------------------------------
(* Time past the bound passes only in a read of standard input: a poll      *)
(* starts before the timeout, and a call between the two halves of a poll   *)
(* got there from the polling loop, so no held read adds to its time.       *)

InPoll == \A c \in Calls : pc[c] \in {"wake", "get"} => elapsed[c] < Timeout + PollInterval
WaitInv == TypeOK /\ InPoll

\* The time of one call's step passes in four places.
LEMMA ThreadTime ==
  ASSUME TypeOK, NEW c \in Calls, Thread(c)
  PROVE  /\ \A d \in Calls : d # c => pc'[d] = pc[d] /\ elapsed'[d] = elapsed[d]
         /\ \/ /\ elapsed' = elapsed
               /\ pc'[c] \notin {"wake", "get"} \/ (pc[c] = "wake" /\ pc'[c] = "get")
            \/ ConsoleIdle(c) \/ ConsoleHeld(c) \/ WebhookSleep(c) \/ WebhookGet(c)
<1>1. elapsed \in [Calls -> Nat] /\ pc \in [Calls -> PCs]
  BY DEF TypeOK
<1>2. CASE ConsoleIdle(c) \/ ConsoleHeld(c) \/ WebhookSleep(c) \/ WebhookGet(c)
  BY <1>1, <1>2 DEF ConsoleIdle, ConsoleHeld, WebhookSleep, WebhookGet, Decide, Goto
<1>3. CASE WrapToolCall(c) \/ RequestConfirmation(c) \/ PopResult(c) \/ ConsoleSelect(c)
           \/ ConsoleRead(c) \/ ConsoleTimeout(c)
  BY <1>1, <1>3 DEF WrapToolCall, RequestConfirmation, PopResult, ConsoleSelect, ConsoleRead,
       ConsoleTimeout, Decide, Goto
<1>4. CASE WebhookPost(c) \/ WebhookWake(c) \/ WebhookTimeout(c) \/ Resume(c)
  BY <1>1, <1>4 DEF WebhookPost, WebhookWake, WebhookTimeout, Resume, Decide, Goto
<1> QED  BY <1>2, <1>3, <1>4 DEF Thread

LEMMA ThreadWait ==
  ASSUME WaitInv, NEW c \in Calls, Thread(c)
  PROVE  /\ InPoll'
         /\ elapsed'[c] > elapsed[c] /\ pc[c] # "reading" => elapsed'[c] < Overdue
<1> USE ConfirmAssumption DEF WaitInv
<1>1. elapsed \in [Calls -> Nat] /\ pc \in [Calls -> PCs]
  BY DEF TypeOK
<1>2. \A d \in Calls : d # c => pc'[d] = pc[d] /\ elapsed'[d] = elapsed[d]
  BY ThreadTime
<1>3. CASE /\ elapsed' = elapsed
           /\ pc'[c] \notin {"wake", "get"} \/ (pc[c] = "wake" /\ pc'[c] = "get")
  <2>1. InPoll'
    BY <1>2, <1>3 DEF InPoll
  <2> QED  BY <1>1, <1>3, <2>1
<1>4. CASE ConsoleIdle(c)
  BY <1>1, <1>2, <1>4 DEF ConsoleIdle, InPoll, Overdue
<1>5. CASE ConsoleHeld(c)
  BY <1>1, <1>2, <1>5 DEF ConsoleHeld, InPoll
<1>6. CASE WebhookSleep(c)
  <2>1. elapsed'[c] = elapsed[c] + PollInterval /\ elapsed[c] < Timeout
    BY <1>1, <1>6 DEF WebhookSleep
  <2> QED  BY <1>1, <1>2, <2>1 DEF InPoll, Overdue
<1>7. CASE WebhookGet(c)
  <2>1. elapsed'[c] < Overdue
    BY <1>1, <1>7 DEF WebhookGet, InPoll, Overdue
  <2>2. pc'[c] \notin {"wake", "get"}
    BY <1>1, <1>7 DEF WebhookGet, Decide, Goto
  <2> QED  BY <1>2, <2>1, <2>2 DEF InPoll
<1> QED  BY <1>3, <1>4, <1>5, <1>6, <1>7, ThreadTime

LEMMA NextWait ==
  ASSUME WaitInv, [Next]_vars
  PROVE  /\ WaitInv'
         /\ \A c \in Calls : elapsed'[c] > elapsed[c] /\ pc[c] # "reading"
                                => elapsed'[c] < Overdue
<1>1. TypeOK' /\ elapsed \in [Calls -> Nat]
  BY NextTypeOK DEF WaitInv, TypeOK
<1>2. CASE UNCHANGED <<pc, elapsed>>
  <2>1. InPoll'
    BY <1>2 DEF WaitInv, InPoll
  <2> QED  BY <1>1, <1>2, <2>1 DEF WaitInv
<1>3. ASSUME NEW o \in OpIds, Person(o)
      PROVE  UNCHANGED <<pc, elapsed>>
  BY <1>3 DEF Person, SubmitConfirmation, ApiConfirm, TypeLine, RemoteDecision, Record
<1>4. ASSUME NEW c \in Calls, Thread(c)
      PROVE  /\ WaitInv'
             /\ \A d \in Calls : elapsed'[d] > elapsed[d] /\ pc[d] # "reading"
                                    => elapsed'[d] < Overdue
  <2>1. \A d \in Calls : d # c => elapsed'[d] = elapsed[d]
    BY <1>4, ThreadTime DEF WaitInv
  <2> QED  BY <1>1, <1>4, <2>1, ThreadWait DEF WaitInv
<1> QED  BY <1>2, <1>3, <1>4 DEF Next, vars

\* A call's time runs past its timeout by less than one poll, but for the time
\* it spends in a read of standard input.
THEOREM WaitsAreBounded == Spec => WaitBounded
<1>1. Init => WaitInv
  BY InitTypeOK DEF Init, WaitInv, InPoll
<1>2. WaitInv /\ [Next]_vars => WaitInv'
  BY NextWait
<1>3. WaitInv /\ [Next]_vars
        => [\A c \in Calls : elapsed'[c] > elapsed[c] /\ pc[c] # "reading"
               => elapsed'[c] < Overdue]_vars
  BY NextWait
<1> QED  BY <1>1, <1>2, <1>3, PTL DEF Spec, WaitBounded

------------------------------------------------------------------------------
(* The middleware implements DangerousCall.                                  *)

LEMMA InitRefines == Init => Abstract!Init
  BY DEF Init, Abstract!Init, Phase, Waiting, PCs, Granted, YesSaid, GrantUsed

\* A change of one call's phase is a move of the abstract call.
LEMMA PhaseMove ==
  ASSUME NEW c \in Calls, NEW from, NEW to, Phase(c) = from, Phase(c)' = to,
         \A d \in Calls : d # c => Phase(d)' = Phase(d)
  PROVE  Abstract!Move(c, from, to)
  BY DEF Abstract!Move

\* How one thread's step shows on its call, and that it shows on no other.
LEMMA ThreadRefines ==
  ASSUME Inv, Inv', NEW c \in Calls, Thread(c)
  PROVE  Abstract!Next \/ UNCHANGED Abstract!vars
<1> DEFINE phase == [d \in Calls |-> Phase(d)]
           used == [d \in Calls |-> GrantUsed(d)]
<1> USE DEF Inv, Dangerous, Granted, Phase, Waiting, PCs, Undecided
<1>1. UNCHANGED <<tool, op, remote, log>>
  BY ThreadStep
<1>2. YesSaid' = YesSaid
  BY <1>1 DEF YesSaid
<1>3. /\ pc \in [Calls -> PCs] /\ status \in [Calls -> Statuses] /\ basis \in [Calls -> Acts]
  BY DEF TypeOK
<1>4. CASE Skip(c)
  <2>1. \A d \in Calls : d # c => Phase(d)' = Phase(d)
    BY <1>1, <1>4 DEF Skip
  <2>2. \A d \in Calls : GrantUsed(d)' = GrantUsed(d)
    BY <1>4 DEF Skip, GrantUsed
  <2>3. used' = used
    BY <2>2
  <2>4. ASSUME NEW from, NEW to, Phase(c) = from, Phase(c)' = to
        PROVE  Abstract!Move(c, from, to)
    BY <2>1, <2>4, PhaseMove
  <2>5. \/ Phase(c)' = Phase(c)
        \/ Phase(c) = "idle" /\ Phase(c)' \in {"passed", "asking"}
        \/ Phase(c) = "asking" /\ Phase(c)' = "refused"
        \/ Phase(c) = "granted" /\ Phase(c)' = "executed"
    <3>1. CASE pc[c] = "idle"
      BY <1>1, <1>4, <3>1 DEF Skip
    <3>2. CASE pc[c] = "decided"
      BY <1>1, <1>4, <3>2 DEF Skip, Decisions
    <3>3. CASE pc[c] \in Undecided
      BY <1>1, <1>4, <3>3 DEF Skip
    <3> QED  BY <1>3, <1>4, <3>1, <3>2, <3>3 DEF Skip
  <2>6. CASE Phase(c)' = Phase(c)
    <3>1. phase' = phase
      BY <2>1, <2>6
    <3> QED  BY <1>2, <2>3, <3>1 DEF Abstract!vars
  <2>7. CASE Phase(c) = "idle" /\ Phase(c)' = "passed"
    BY <1>2, <2>3, <2>4, <2>7 DEF Abstract!Next, Abstract!Pass
  <2>8. CASE Phase(c) = "idle" /\ Phase(c)' = "asking"
    BY <1>2, <2>3, <2>4, <2>8 DEF Abstract!Next, Abstract!Ask
  <2>9. CASE Phase(c) = "asking" /\ Phase(c)' = "refused"
    BY <1>2, <2>3, <2>4, <2>9 DEF Abstract!Next, Abstract!Refuse
  <2>10. CASE Phase(c) = "granted" /\ Phase(c)' = "executed"
    BY <1>2, <2>3, <2>4, <2>10 DEF Abstract!Next, Abstract!Execute
  <2> QED  BY <2>5, <2>6, <2>7, <2>8, <2>9, <2>10
<1>5. ASSUME pc[c] \in Undecided, NEW s \in Statuses, NEW n \in Acts, Decide(c, s, n),
             s = "APPROVED" => n \in YesSaid,
             s # "none"
      PROVE  Abstract!Next
  <2>1. /\ pc'[c] = "decided" /\ status'[c] = s /\ basis'[c] = n
        /\ \A d \in Calls : d # c => pc'[d] = pc[d] /\ status'[d] = status[d] /\ basis'[d] = basis[d]
    BY <1>3, <1>5 DEF Decide, Goto
  <2>2. Phase(c) = "asking" /\ GrantUsed(c) = 0
    BY <1>5 DEF GrantUsed, Decisions
  <2>3. \A d \in Calls : d # c => Phase(d)' = Phase(d) /\ GrantUsed(d)' = GrantUsed(d)
    BY <1>1, <2>1 DEF GrantUsed
  <2>4. CASE s = "APPROVED"
    <3>1. Phase(c)' = "granted" /\ GrantUsed(c)' = n
      BY <2>1, <2>4 DEF GrantUsed
    <3>2. Abstract!Move(c, "asking", "granted")
      BY <2>2, <2>3, <3>1, PhaseMove
    <3>3. used' = [used EXCEPT ![c] = n]
      BY <2>3, <3>1
    <3> QED  BY <1>2, <1>5, <2>4, <3>2, <3>3 DEF Abstract!Grant, Abstract!Next
  <2>5. CASE s # "APPROVED"
    <3>1. Phase(c)' = "refused" /\ GrantUsed(c)' = 0
      BY <2>1, <2>5 DEF GrantUsed
    <3>2. Abstract!Move(c, "asking", "refused")
      BY <2>2, <2>3, <3>1, PhaseMove
    <3>3. used' = used
      BY <2>2, <2>3, <3>1
    <3> QED  BY <1>2, <3>2, <3>3 DEF Abstract!Refuse, Abstract!Next
  <2> QED  BY <2>4, <2>5
<1>6. \A n \in DOMAIN log : StatusOf(n) = "APPROVED" => n \in YesSaid
  BY DEF StatusOf, YesSaid
<1>7. CASE NoAnswer(c)
  BY <1>5, <1>7, ZeroIsAct DEF NoAnswer, Statuses
<1>8. CASE TakeResult(c)
  <2>1. op[c] \in OpIds /\ results[op[c]] \in Acts /\ results[op[c]] # 0
    BY <1>8 DEF TakeResult, TypeOK
  <2>2. results[op[c]] \in DOMAIN log
    BY <2>1 DEF StoredAnswers
  <2> QED  BY <1>5, <1>6, <1>8, <2>1, <2>2, StatusOfType DEF TakeResult, Statuses
<1>9. CASE TakeLine(c)
  <2>1. Head(stdin) = stdin[1] /\ 1 \in DOMAIN stdin /\ stdin[1] \in Acts
    BY <1>9 DEF TakeLine, TypeOK
  <2>2. stdin[1] \in DOMAIN log /\ stdin[1] # 0
    BY <2>1 DEF StoredAnswers, TypeOK
  <2> QED  BY <1>5, <1>6, <1>9, <2>1, <2>2, StatusOfType DEF TakeLine, Statuses
<1>10. CASE TakeRemote(c)
  <2>1. op[c] \in OpIds /\ remote[op[c]] \in Acts /\ remote[op[c]] # 0
    BY <1>10 DEF TakeRemote, TypeOK
  <2>2. remote[op[c]] \in DOMAIN log
    BY <2>1 DEF StoredAnswers
  <2> QED  BY <1>5, <1>6, <1>10, <2>1, <2>2, StatusOfType DEF TakeRemote, Statuses
<1> QED  BY <1>4, <1>7, <1>8, <1>9, <1>10, ThreadStep

\* What people do shows as an answer heard, or not at all.
LEMMA PersonRefines ==
  ASSUME Inv, Inv', NEW o \in OpIds, Person(o)
  PROVE  Abstract!Next
<1>1. /\ DOMAIN log \subseteq DOMAIN log'
      /\ \A n \in DOMAIN log : log'[n] = log[n]
      /\ UNCHANGED <<pc, tool, op, status, basis>>
  BY PersonStep, RecordStep DEF Inv
<1>2. YesSaid \subseteq YesSaid'
  BY <1>1 DEF YesSaid
<1>3. YesSaid' \subseteq Nat
  BY DEF YesSaid, Inv, TypeOK
<1>4. /\ [d \in Calls |-> Phase(d)]' = [d \in Calls |-> Phase(d)]
      /\ [d \in Calls |-> GrantUsed(d)]' = [d \in Calls |-> GrantUsed(d)]
  BY <1>1 DEF Phase, Waiting, Granted, Dangerous, GrantUsed
<1> QED  BY <1>2, <1>3, <1>4 DEF Abstract!Next, Abstract!Hear

LEMMA NextRefines == Inv /\ Inv' /\ [Next]_vars => [Abstract!Next]_(Abstract!vars)
<1> SUFFICES ASSUME Inv, Inv', [Next]_vars PROVE Abstract!Next \/ UNCHANGED Abstract!vars
  OBVIOUS
<1>1. CASE UNCHANGED vars
  BY <1>1 DEF vars, Abstract!vars, Phase, Waiting, Granted, Dangerous, GrantUsed, YesSaid
<1> QED  BY <1>1, ThreadRefines, PersonRefines DEF Next

\* Every behaviour of the middleware is one of the abstract guarded calls.
THEOREM MiddlewareImplementsDangerousCall == Spec => ImplementsDangerousCall
  BY InitRefines, NextRefines, InvHolds, PTL DEF Spec, Abstract!Spec, ImplementsDangerousCall

==============================================================================
