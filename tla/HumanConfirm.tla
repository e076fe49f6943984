----------------------------- MODULE HumanConfirm -----------------------------
(***************************************************************************)
(* middleware/human_confirm.py: one HumanConfirmMiddleware instance, shared *)
(* by the threads that run the recovery agent's tool calls. A call of a    *)
(* dangerous tool waits for a person, who is asked on the console or       *)
(* through a webhook, or whose decision was submitted beforehand; it goes  *)
(* on to handler(request) or raises PermissionError.                       *)
(*                                                                         *)
(* A person's acts are kept in `log`, in the order they happen; whatever   *)
(* else holds an answer (the instance's dictionary, standard input, the    *)
(* webhook service's result resource, the API server's dictionary) holds   *)
(* the number of an act, 0 for none. `basis` records which act decided a   *)
(* call. Time is each call's own, counted from its start_time; of a call   *)
(* that stays in a read of standard input it is counted up to Overdue.     *)
(***************************************************************************)
EXTENDS Naturals, Sequences, FiniteSets

CONSTANTS
    Calls,           \* tool calls in flight, each in a thread of its own
    OpIds,           \* tool_call ids, chosen by the model provider
    Tools,           \* tools of the recovery agent
    DangerousTools,  \* those in DANGEROUS_TOOLS
    Timeout,         \* settings.human_confirm_timeout
    PollInterval,    \* pause between two polls of the webhook result
    GetTime,         \* the longest one poll takes
    MaxActs          \* bound on what people do in one behaviour

ASSUME ConfirmAssumption ==
    /\ DangerousTools \subseteq Tools
    /\ Timeout \in Nat \ {0}
    /\ PollInterval \in Nat \ {0}
    /\ GetTime \in Nat
    /\ MaxActs \in Nat

VARIABLES
    mode,            \* where confirmation is asked: configuration of the instance
    stdinKind,       \* what select and input() do on this process's standard input
    pc,              \* where each call's thread stands
    tool, op,        \* the call's tool and operation id
    status,          \* the ConfirmationResult's status, "none" before there is one
    basis,           \* the act that result came from, 0 if none
    elapsed,         \* time.time() - start_time
    results,         \* _confirmation_results
    stdin,           \* lines typed and not yet read
    remote,          \* the webhook service's result resource of each operation
    apiConfirms,     \* the API server's _pending_confirms
    asked,           \* operations a person was asked about
    log              \* every act of a person, in order

config == <<mode, stdinKind>>
stores == <<results, stdin, remote, apiConfirms>>
people == <<asked, log>>
vars == <<config, pc, tool, op, status, basis, elapsed, stores, people>>

Modes == {"console", "webhook", "none"}
StdinKinds == {"select", "blocking", "eof"}
PCs == {"idle", "request", "pop", "console", "reading", "post", "poll", "wake", "get",
        "decided", "executed", "denied", "failed"}
Statuses == {"none", "APPROVED", "REJECTED", "TIMEOUT"}
Act == [via : {"submit", "console", "remote", "api"}, op : OpIds, says : {"yes", "no", "other"}]
Acts == 0 .. MaxActs

\* Types; `log` stays within its bound.
TypeOK ==
    /\ mode \in Modes /\ stdinKind \in StdinKinds
    /\ pc \in [Calls -> PCs]
    /\ tool \in [Calls -> Tools] /\ op \in [Calls -> OpIds]
    /\ status \in [Calls -> Statuses]
    /\ basis \in [Calls -> Acts]
    /\ elapsed \in [Calls -> Nat]
    /\ results \in [OpIds -> Acts] /\ remote \in [OpIds -> Acts]
    /\ apiConfirms \in [OpIds -> Acts]
    /\ stdin \in Seq(Acts)
    /\ asked \subseteq OpIds
    /\ log \in Seq(Act) /\ Len(log) <= MaxActs

Init ==
    /\ mode \in Modes /\ stdinKind \in StdinKinds
    /\ pc = [c \in Calls |-> "idle"]
    /\ tool \in [Calls -> Tools] /\ op \in [Calls -> OpIds]
    /\ status = [c \in Calls |-> "none"]
    /\ basis = [c \in Calls |-> 0]
    /\ elapsed = [c \in Calls |-> 0]
    /\ results = [o \in OpIds |-> 0] /\ remote = [o \in OpIds |-> 0]
    /\ apiConfirms = [o \in OpIds |-> 0]
    /\ stdin = << >>
    /\ asked = {}
    /\ log = << >>

------------------------------------------------------------------------------
(* The thread of call c                                                     *)

\* The first moment at which no poll may find a call still waiting; also the
\* bound up to which the time of a held read is counted.
Overdue == Timeout + PollInterval + GetTime

Goto(c, label) == pc' = [pc EXCEPT ![c] = label]

\* The ConfirmationResult is there; n is the act it came from.
Decide(c, s, n) ==
    /\ Goto(c, "decided")
    /\ status' = [status EXCEPT ![c] = s]
    /\ basis' = [basis EXCEPT ![c] = n]

StatusOf(n) == IF log[n].says = "yes" THEN "APPROVED" ELSE "REJECTED"

\* wrap_tool_call up to the confirmation: other tools go straight to handler.
WrapToolCall(c) ==
    /\ pc[c] = "idle"
    /\ Goto(c, IF tool[c] \in DangerousTools THEN "request" ELSE "executed")
    /\ UNCHANGED <<config, tool, op, status, basis, elapsed, stores, people>>

\* As RequestConfirmation, but with no way configured the call is let through.
RequestApprovedByDefault(c) ==
    /\ pc[c] = "request"
    /\ Decide(c, "APPROVED", 0)
    /\ UNCHANGED <<config, tool, op, elapsed, stores, people>>

\* _request_confirmation: a submitted result first, else the configured way.
RequestConfirmation(c) ==
    /\ pc[c] = "request"
    /\ \/ /\ results[op[c]] # 0
          /\ Goto(c, "pop")
          /\ UNCHANGED <<status, basis, asked>>
       \/ /\ results[op[c]] = 0 /\ mode = "console"
          /\ Goto(c, "console")
          /\ asked' = asked \cup {op[c]}
          /\ UNCHANGED <<status, basis>>
       \/ /\ results[op[c]] = 0 /\ mode = "webhook"
          /\ Goto(c, "post")
          /\ UNCHANGED <<status, basis, asked>>
       \/ /\ results[op[c]] = 0 /\ mode = "none"
          /\ Decide(c, "REJECTED", 0)
          /\ UNCHANGED asked
    /\ UNCHANGED <<config, tool, op, elapsed, stores, log>>

\* As PopResult, but the result stays in the dictionary.
PopWithoutRemoving(c) ==
    /\ pc[c] = "pop"
    /\ Decide(c, StatusOf(results[op[c]]), results[op[c]])
    /\ UNCHANGED <<config, tool, op, elapsed, stores, people>>

\* `_confirmation_results.pop(operation_id)`, some time after the check that it
\* is there: a second thread with the same id may have taken it (KeyError).
PopResult(c) ==
    /\ pc[c] = "pop"
    /\ \/ /\ results[op[c]] # 0
          /\ Decide(c, StatusOf(results[op[c]]), results[op[c]])
          /\ results' = [results EXCEPT ![op[c]] = 0]
       \/ /\ results[op[c]] = 0
          /\ Goto(c, "failed")
          /\ UNCHANGED <<status, basis, results>>
    /\ UNCHANGED <<config, tool, op, elapsed, stdin, remote, apiConfirms, people>>

\* Head of the prompt's loop: select says there is a line to read, or where
\* select cannot be used, input() is called. No line is taken yet.
ConsoleSelect(c) ==
    /\ pc[c] = "console" /\ elapsed[c] < Timeout
    /\ stdinKind = "blocking" \/ (stdinKind = "select" /\ stdin # << >>)
    /\ Goto(c, "reading")
    /\ UNCHANGED <<config, tool, op, status, basis, elapsed, stores, people>>

\* readline or input() returns a line: y, yes and comment: approve, n and no
\* reject, anything else asks again. Whose line it is, the reader cannot tell.
ConsoleRead(c) ==
    /\ pc[c] = "reading" /\ stdin # << >>
    /\ stdin' = Tail(stdin)
    /\ IF log[Head(stdin)].says = "other"
       THEN Goto(c, "console") /\ UNCHANGED <<status, basis>>
       ELSE Decide(c, StatusOf(Head(stdin)), Head(stdin))
    /\ UNCHANGED <<config, tool, op, elapsed, results, remote, apiConfirms, people>>

\* There is no line, or none any more: readline and input() wait for the next
\* one, however long that takes.
ConsoleHeld(c) ==
    /\ pc[c] = "reading" /\ stdin = << >>
    /\ elapsed[c] < Overdue
    /\ elapsed' = [elapsed EXCEPT ![c] = @ + 1]
    /\ UNCHANGED <<config, pc, tool, op, status, basis, stores, people>>

\* As ConsoleIdle, but select is called without a timeout.
ConsoleIdleUntimed(c) ==
    /\ pc[c] = "console" /\ elapsed[c] < Timeout
    /\ stdinKind = "select" /\ stdin # << >>
    /\ elapsed' = [elapsed EXCEPT ![c] = @ + 1]
    /\ UNCHANGED <<config, pc, tool, op, status, basis, stores, people>>

\* select returned nothing to read.
ConsoleIdle(c) ==
    /\ pc[c] = "console" /\ elapsed[c] < Timeout
    /\ stdinKind = "select"
    /\ elapsed' = [elapsed EXCEPT ![c] = @ + 1]
    /\ UNCHANGED <<config, pc, tool, op, status, basis, stores, people>>

\* The loop ends: its time is up, or input() raised EOFError.
ConsoleTimeout(c) ==
    /\ pc[c] = "console"
    /\ elapsed[c] >= Timeout \/ stdinKind = "eof"
    /\ Decide(c, "TIMEOUT", 0)
    /\ UNCHANGED <<config, tool, op, elapsed, stores, people>>

\* The POST to the webhook: no answer or an error status rejects.
WebhookPost(c) ==
    /\ pc[c] = "post"
    /\ \/ /\ Goto(c, "poll")
          /\ asked' = asked \cup {op[c]}
          /\ UNCHANGED <<status, basis>>
       \/ /\ Decide(c, "REJECTED", 0)
          /\ UNCHANGED asked
    /\ UNCHANGED <<config, tool, op, elapsed, stores, log>>

\* As WebhookSleep, but the deadline is not looked at.
SleepPastDeadline(c) ==
    /\ pc[c] = "poll"
    /\ elapsed[c] <= 3 * Timeout
    /\ Goto(c, "wake")
    /\ elapsed' = [elapsed EXCEPT ![c] = @ + PollInterval]
    /\ UNCHANGED <<config, tool, op, status, basis, stores, people>>

\* Head of the polling loop and its sleep.
WebhookSleep(c) ==
    /\ pc[c] = "poll" /\ elapsed[c] < Timeout
    /\ Goto(c, "wake")
    /\ elapsed' = [elapsed EXCEPT ![c] = @ + PollInterval]
    /\ UNCHANGED <<config, tool, op, status, basis, stores, people>>

\* After the sleep the instance's own dictionary comes first.
WebhookWake(c) ==
    /\ pc[c] = "wake"
    /\ Goto(c, IF results[op[c]] # 0 THEN "pop" ELSE "get")
    /\ UNCHANGED <<config, tool, op, status, basis, elapsed, stores, people>>

\* As WebhookGet, but the service's status is passed on whatever it is.
WebhookGetAnyStatus(c) ==
    /\ pc[c] = "get" /\ remote[op[c]] # 0
    /\ Decide(c, IF log[remote[op[c]]].says = "other" THEN "MODIFIED"
                 ELSE StatusOf(remote[op[c]]), remote[op[c]])
    /\ UNCHANGED <<config, tool, op, elapsed, stores, people>>

\* GET of the result resource: a decision ends the wait; no answer, an error or
\* any other status goes round again.
WebhookGet(c) ==
    /\ pc[c] = "get"
    /\ \E t \in 0 .. GetTime : elapsed' = [elapsed EXCEPT ![c] = @ + t]
    /\ \/ /\ remote[op[c]] # 0 /\ log[remote[op[c]]].says # "other"
          /\ Decide(c, StatusOf(remote[op[c]]), remote[op[c]])
       \/ /\ Goto(c, "poll")
          /\ UNCHANGED <<status, basis>>
    /\ UNCHANGED <<config, tool, op, stores, people>>

WebhookTimeout(c) ==
    /\ pc[c] = "poll" /\ elapsed[c] >= Timeout
    /\ Decide(c, "TIMEOUT", 0)
    /\ UNCHANGED <<config, tool, op, elapsed, stores, people>>

\* As Resume, but only an explicit rejection stops the call.
ResumeUnlessRejected(c) ==
    /\ pc[c] = "decided"
    /\ Goto(c, IF status[c] # "REJECTED" THEN "executed" ELSE "denied")
    /\ UNCHANGED <<config, tool, op, status, basis, elapsed, stores, people>>

\* wrap_tool_call after the confirmation: handler(request), or PermissionError.
Resume(c) ==
    /\ pc[c] = "decided"
    /\ Goto(c, IF status[c] = "APPROVED" THEN "executed" ELSE "denied")
    /\ UNCHANGED <<config, tool, op, status, basis, elapsed, stores, people>>

Thread(c) ==
    \/ WrapToolCall(c) \/ RequestConfirmation(c) \/ PopResult(c)
    \/ ConsoleSelect(c) \/ ConsoleRead(c) \/ ConsoleHeld(c)
    \/ ConsoleIdle(c)  \/ ConsoleTimeout(c)
    \/ WebhookPost(c)  \/ WebhookSleep(c)        \/ WebhookWake(c)
    \/ WebhookGet(c)   \/ WebhookTimeout(c)      \/ Resume(c)

------------------------------------------------------------------------------
(* What people do                                                           *)

Record(via, o, says) ==
    /\ Len(log) < MaxActs
    /\ log' = Append(log, [via |-> via, op |-> o, says |-> says])
    /\ UNCHANGED <<config, pc, tool, op, status, basis, elapsed, asked>>

\* submit_confirmation on the middleware: the last decision replaces the one
\* before it. It may come before the request, or after the wait is over.
SubmitConfirmation(o, approved) ==
    /\ Record("submit", o, IF approved THEN "yes" ELSE "no")
    /\ results' = [results EXCEPT ![o] = Len(log')]
    /\ UNCHANGED <<stdin, remote, apiConfirms>>

\* A line typed in answer to the prompt of operation o, in time or late.
TypeLine(o, says) ==
    /\ mode = "console" /\ o \in asked
    /\ Record("console", o, says)
    /\ stdin' = Append(stdin, Len(log'))
    /\ UNCHANGED <<results, remote, apiConfirms>>

\* The webhook service publishes a result for an operation it was told of.
RemoteDecision(o, says) ==
    /\ mode = "webhook" /\ o \in asked
    /\ Record("remote", o, says)
    /\ remote' = [remote EXCEPT ![o] = Len(log')]
    /\ UNCHANGED <<results, stdin, apiConfirms>>

\* POST /api/v1/confirm: recorded in the server's own dictionary, which no code
\* reads; middleware.submit_confirmation is not called.
ApiConfirm(o, approved) ==
    /\ mode = "webhook" /\ o \in asked
    /\ Record("api", o, IF approved THEN "yes" ELSE "no")
    /\ apiConfirms' = [apiConfirms EXCEPT ![o] = Len(log')]
    /\ UNCHANGED <<results, stdin, remote>>

Person(o) ==
    \/ \E b \in BOOLEAN : SubmitConfirmation(o, b) \/ ApiConfirm(o, b)
    \/ \E s \in {"yes", "no", "other"} : TypeLine(o, s) \/ RemoteDecision(o, s)

Next == (\E c \in Calls : Thread(c)) \/ (\E o \in OpIds : Person(o))

Spec == Init /\ [][Next]_vars

\* A thread that can go on does; people need not do anything.
Fairness == \A c \in Calls : WF_vars(Thread(c))
FairSpec == Spec /\ Fairness

------------------------------------------------------------------------------
(* Properties                                                               *)

Granted(c) == status[c] = "APPROVED"
Dangerous(c) == tool[c] \in DangerousTools

\* wrap_tool_call runs a dangerous tool's handler only on a "yes" that a person
\* did say; a "yes" that reached it by operation id was said of its operation.
ExecutedOnlyIfApproved ==
    \A c \in Calls : pc[c] = "executed" /\ Dangerous(c) =>
        /\ basis[c] \in DOMAIN log
        /\ log[basis[c]].says = "yes"
        /\ log[basis[c]].via # "console" => log[basis[c]].op = op[c]

\* An answer that is taken from where it lies (a line of input, a result in the
\* instance's dictionary) decides one call, however the threads interleave.
\* Only the webhook's result resource may be read by several calls of one id.
OneCallPerAnswer ==
    \A c, d \in Calls : c # d /\ basis[c] = basis[d] /\ basis[c] # 0 =>
        log[basis[c]].via = "remote" /\ op[c] = op[d]

\* A call's time runs past its timeout by less than one poll (the deadline is
\* read before the sleep, so a decision that comes a little late still counts),
\* unless it is in a read of standard input: that alone has no timeout.
WaitBounded ==
    [][\A c \in Calls : elapsed'[c] > elapsed[c] /\ pc[c] # "reading"
            => elapsed'[c] < Overdue]_vars

\* What the prompt says (enter the answer within `timeout` seconds), where select
\* watches the time. Not so of two prompts: both may see the same line, and the
\* one that does not get it stays in readline.
PromptTimesOut ==
    \A c \in Calls :
        mode = "console" /\ stdinKind = "select" => elapsed[c] <= Timeout

Waiting(c) == pc[c] \in PCs \ {"idle", "decided", "executed", "denied", "failed"}
Settled(c) == pc[c] \in {"executed", "denied", "failed"}

\* Every call that asks is settled in the end, whether or not anybody answers,
\* but for one that stays for ever in a read of standard input.
AsksSettle ==
    \A c \in Calls : Waiting(c) ~> (Settled(c) \/ [](pc[c] = "reading"))

\* The inductive strengthening of the two invariants above. Whatever is held for
\* a call to find is the number of an act of the kind that is put there, ...
StoredAnswers ==
    /\ \A o \in OpIds : results[o] # 0 =>
        results[o] \in DOMAIN log /\ log[results[o]].via = "submit" /\ log[results[o]].op = o
    /\ \A o \in OpIds : remote[o] # 0 =>
        remote[o] \in DOMAIN log /\ log[remote[o]].via = "remote" /\ log[remote[o]].op = o
    /\ \A i \in DOMAIN stdin :
        stdin[i] \in DOMAIN log /\ log[stdin[i]].via = "console"

\* ... a call is decided by such an act or by none, and then never as approved, ...
Decisions ==
    \A c \in Calls :
        /\ basis[c] # 0 => /\ basis[c] \in DOMAIN log
                           /\ status[c] = StatusOf(basis[c])
                           /\ log[basis[c]].via \in {"submit", "console", "remote"}
                           /\ log[basis[c]].via # "console" => log[basis[c]].op = op[c]
        /\ Granted(c) => basis[c] # 0
        /\ pc[c] = "executed" /\ Dangerous(c) => Granted(c)
        /\ pc[c] \notin {"idle", "executed"} => Dangerous(c)
        /\ pc[c] \notin {"decided", "executed", "denied"} => status[c] = "none" /\ basis[c] = 0

\* ... and what decided a call is not there to be found again.
SpentAnswers ==
    /\ \A c \in Calls : basis[c] # 0 =>
        /\ \A o \in OpIds : results[o] # basis[c]
        /\ \A i \in DOMAIN stdin : stdin[i] # basis[c]
    /\ \A i, j \in DOMAIN stdin : i # j => stdin[i] # stdin[j]

\* What the source says of DANGEROUS_TOOLS (they "must pass human confirmation
\* before they run"): the confirmation was of this operation. Not so on the
\* console, where a line is read by whichever prompt gets to it.
ConfirmedItself ==
    \A c \in Calls : pc[c] = "executed" /\ Dangerous(c) => log[basis[c]].op = op[c]

\* What the API's doc says (the operator submits the decision there): no call
\* gives up waiting although its decision has been posted.
ApiDecisionHeard ==
    [][\A c \in Calls : status[c] = "none" /\ status'[c] = "TIMEOUT"
            => apiConfirms[op[c]] = 0]_vars

\* The abstract call: decided means granted or refused.
Phase(c) ==
    CASE pc[c] = "idle" -> "idle"
      [] Waiting(c) -> "asking"
      [] pc[c] = "decided" /\ Granted(c) -> "granted"
      [] pc[c] = "executed" /\ Dangerous(c) -> "executed"
      [] pc[c] = "executed" /\ ~Dangerous(c) -> "passed"
      [] OTHER -> "refused"

YesSaid == {n \in DOMAIN log : log[n].says = "yes"}
GrantUsed(c) == IF Granted(c) THEN basis[c] ELSE 0

Abstract == INSTANCE DangerousCall WITH
    phase <- [c \in Calls |-> Phase(c)],
    heard <- YesSaid,
    used <- [c \in Calls |-> GrantUsed(c)]

\* The middleware implements the promise of DangerousCall.
ImplementsDangerousCall == Abstract!Spec

==============================================================================
