------------------------------ MODULE RateLimit ------------------------------
(***************************************************************************)
(* middleware/rate_limit.py: one RateLimitMiddleware, shared by the        *)
(* threads of every run of the main agent. A model call or a tool call     *)
(* takes a token from each bucket that limits it, one bucket after the     *)
(* other; strategy decides what a call does that finds a bucket empty.     *)
(*                                                                         *)
(* Time is counted in ticks, Minute of them to a minute, and a token has   *)
(* Minute units, so that a bucket of rpm calls per minute gains rpm units  *)
(* a tick. `idle` is the age of last_refill, `left` what remains until a   *)
(* waiting call's deadline. `granted` counts the tokens that the bucket    *)
(* `watched` gave out in the last `seen` ticks: an observer's window, up   *)
(* to a minute long, that may be opened at any moment. The statistics,     *)
(* which are only logged, are left out.                                    *)
(***************************************************************************)
EXTENDS Integers, Sequences

CONSTANTS
    Callers,      \* threads that make model and tool calls
    Kinds,        \* kinds of call: the model, or one tool
    Buckets,      \* _model_bucket, _tool_bucket, _per_tool_buckets
    Limits,       \* Limits[k]: the buckets a call of kind k takes from, in order
    Rpm,          \* the calls per minute each bucket is configured with
    Minute,       \* ticks in a minute
    Strategies,   \* the configurations of strategy: "wait", "reject"
    WaitTimeout   \* wait_timeout, in ticks

ASSUME RateAssumption ==
    /\ Limits \in [Kinds -> Seq(Buckets)]
    /\ Rpm \in [Buckets -> Nat \ {0}]
    /\ Minute \in Nat \ {0}
    /\ Strategies \subseteq {"wait", "reject"}
    /\ WaitTimeout \in Nat

VARIABLES
    strategy,     \* configuration of the instance
    tokens,       \* units in each bucket at its last refill
    idle,         \* ticks since then; a minute fills any bucket
    at,           \* where each caller stands
    todo,         \* the buckets its call has still to take a token from
    left,         \* ticks until its deadline, while it waits
    watched, seen, granted

window == <<watched, seen, granted>>
rateVars == <<strategy, tokens, idle, at, todo, left, window>>

Positions == {"idle", "check", "refused", "loop", "asleep"}
Capacity(b) == Rpm[b] * Minute

RateTypeOK ==
    /\ strategy \in Strategies
    /\ tokens \in [Buckets -> Nat] /\ \A b \in Buckets : tokens[b] <= Capacity(b)
    /\ idle \in [Buckets -> 0 .. Minute]
    /\ at \in [Callers -> Positions]
    /\ todo \in [Callers -> Seq(Buckets)]
    /\ \A c \in Callers : at[c] \in {"refused", "loop", "asleep"} => todo[c] # << >>
    /\ left \in [Callers -> 0 .. WaitTimeout]
    /\ watched \in Buckets /\ seen \in 0 .. Minute /\ granted \in Nat

RateInit ==
    /\ strategy \in Strategies
    /\ tokens = [b \in Buckets |-> Capacity(b)]
    /\ idle = [b \in Buckets |-> 0]
    /\ at = [c \in Callers |-> "idle"]
    /\ todo = [c \in Callers |-> << >>]
    /\ left = [c \in Callers |-> 0]
    /\ watched \in Buckets /\ seen = 0 /\ granted = 0

------------------------------------------------------------------------------
(* The bucket                                                               *)

\* As Available, but the bucket overflows.
AvailableUncapped(b) == tokens[b] + Rpm[b] * idle[b]

\* What _refill makes of b's tokens now.
Available(b) ==
    LET filled == tokens[b] + Rpm[b] * idle[b]
    IN  IF filled > Capacity(b) THEN Capacity(b) ELSE filled

HasToken(b) == Available(b) >= Minute

\* _refill, with `spent` units taken under the same lock.
Refill(b, spent) ==
    /\ tokens' = [tokens EXCEPT ![b] = Available(b) - spent]
    /\ idle' = [idle EXCEPT ![b] = 0]

TakeToken(b) ==
    /\ HasToken(b)
    /\ Refill(b, Minute)
    /\ granted' = IF b = watched THEN granted + 1 ELSE granted

\* As FindEmpty, but the tokens of the refill are not stored with its time.
FindEmptyForgetting(b) ==
    /\ ~ HasToken(b)
    /\ idle' = [idle EXCEPT ![b] = 0]
    /\ UNCHANGED <<tokens, granted>>

FindEmpty(b) ==
    /\ ~ HasToken(b)
    /\ Refill(b, 0)
    /\ UNCHANGED granted

------------------------------------------------------------------------------
(* A call                                                                   *)

Move(c, label) == at' = [at EXCEPT ![c] = label]
NextBucket(c) == Move(c, "check") /\ todo' = [todo EXCEPT ![c] = Tail(@)]
Raise(c) ==
    /\ Move(c, "idle")
    /\ todo' = [todo EXCEPT ![c] = << >>]

\* before_model or wrap_tool_call, which knows the buckets of its call.
Begin(c) ==
    /\ at[c] = "idle"
    /\ Move(c, "check")
    /\ \E k \in Kinds : todo' = [todo EXCEPT ![c] = Limits[k]]
    /\ UNCHANGED <<strategy, tokens, idle, left, window>>

\* try_acquire at the next bucket.
Check(c) ==
    /\ at[c] = "check" /\ todo[c] # << >>
    /\ \/ TakeToken(Head(todo[c])) /\ NextBucket(c)
       \/ FindEmpty(Head(todo[c])) /\ Move(c, "refused") /\ UNCHANGED todo
    /\ UNCHANGED <<strategy, left, watched, seen>>

\* The last bucket is behind: the model is called, or handler(request), and
\* the thread comes back.
Pass(c) ==
    /\ at[c] = "check" /\ todo[c] = << >>
    /\ Move(c, "idle")
    /\ UNCHANGED <<strategy, tokens, idle, todo, left, window>>

\* An empty bucket: time_until_available refills it once more; then "reject"
\* raises RateLimitError and "wait" sets the deadline of wait_and_acquire.
\* The tokens of the buckets before it are not given back.
Refused(c) ==
    /\ at[c] = "refused"
    /\ Refill(Head(todo[c]), 0)
    /\ \/ strategy = "reject" /\ Raise(c) /\ UNCHANGED left
       \/ /\ strategy = "wait" /\ Move(c, "loop")
          /\ left' = [left EXCEPT ![c] = WaitTimeout]
          /\ UNCHANGED todo
    /\ UNCHANGED <<strategy, window>>

\* As Retry, but each round sets a deadline of its own.
RetryFromNow(c) ==
    /\ at[c] = "loop"
    /\ \/ left[c] = 0 /\ Raise(c) /\ UNCHANGED <<tokens, idle, granted, left>>
       \/ /\ left[c] > 0 /\ TakeToken(Head(todo[c]))
          /\ NextBucket(c)
          /\ left' = [left EXCEPT ![c] = 0]
       \/ /\ left[c] > 0 /\ FindEmpty(Head(todo[c]))
          /\ Move(c, "asleep") /\ UNCHANGED todo
          /\ left' = [left EXCEPT ![c] = WaitTimeout]
    /\ UNCHANGED <<strategy, watched, seen>>

\* One round of wait_and_acquire's loop; at the deadline it raises.
Retry(c) ==
    /\ at[c] = "loop"
    /\ \/ left[c] = 0 /\ Raise(c) /\ UNCHANGED <<tokens, idle, granted, left>>
       \/ /\ left[c] > 0 /\ TakeToken(Head(todo[c]))
          /\ NextBucket(c)
          /\ left' = [left EXCEPT ![c] = 0]
       \/ /\ left[c] > 0 /\ FindEmpty(Head(todo[c]))
          /\ Move(c, "asleep") /\ UNCHANGED <<todo, left>>
    /\ UNCHANGED <<strategy, watched, seen>>

\* sleep lasts at most to the deadline, and at most a second.
Wake(c) ==
    /\ at[c] = "asleep"
    /\ Move(c, "loop")
    /\ UNCHANGED <<strategy, tokens, idle, todo, left, window>>

CallStep(c) == Check(c) \/ Pass(c) \/ Refused(c) \/ Retry(c) \/ Wake(c)

------------------------------------------------------------------------------
(* Time, and the observer                                                   *)

RateTick ==
    /\ idle' = [b \in Buckets |-> IF idle[b] < Minute THEN idle[b] + 1 ELSE Minute]
    /\ left' = [c \in Callers |-> IF left[c] > 0 THEN left[c] - 1 ELSE 0]
    /\ IF seen < Minute
       THEN seen' = seen + 1 /\ UNCHANGED granted
       ELSE seen' = 0 /\ granted' = 0
    /\ UNCHANGED <<strategy, tokens, at, todo, watched>>

OpenWindow ==
    /\ seen' = 0 /\ granted' = 0
    /\ UNCHANGED <<strategy, tokens, idle, at, todo, left, watched>>

RateNext ==
    \/ \E c \in Callers : Begin(c) \/ CallStep(c)
    \/ RateTick
    \/ OpenWindow

RateFairness ==
    /\ WF_rateVars(RateTick)
    /\ \A c \in Callers : WF_rateVars(CallStep(c))

RateSpec == RateInit /\ [][RateNext]_rateVars /\ RateFairness

------------------------------------------------------------------------------
(* Properties                                                               *)

\* In any window of a minute or less, whoever the callers are and however
\* their tries fall, a bucket gives out no more than it can have held at the
\* start and gained since: 2 * rpm in a minute, which is the burst the class
\* describes and twice the "20 a minute" of its usage note.
RateBound == granted * Minute <= Rpm[watched] * (Minute + seen)

\* No refill is lost: a bucket is found empty after a full minute only if it
\* gave out the calls of that minute. A failed try, and the estimate made
\* after it, both move last_refill.
EmptyOnlyIfSpent ==
    seen = Minute /\ ~ HasToken(watched) => granted >= Rpm[watched]

\* A call that is refused under "wait" gets its token or its RateLimitError:
\* nobody waits for ever, however often the token it waits for is taken by
\* another thread.
WaitsEnd == \A c \in Callers : at[c] # "idle" ~> at[c] = "idle"

==============================================================================
