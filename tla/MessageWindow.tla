----------------------------- MODULE MessageWindow -----------------------------
(***************************************************************************)
(* middleware/sliding_window.py and middleware/summarization.py: what is   *)
(* done to the messages of one session before each model call, over all    *)
(* the calls and runs of the session. A message is the number it was said  *)
(* with, counted from 1, and who said it; a summary carries the numbers it *)
(* stands in the place of, and those whose text its maker was shown.       *)
(* Tokens are estimated per message that has text, Tokens each.            *)
(***************************************************************************)
EXTENDS Subsequences, SequencesExt

CONSTANTS
    Windows,          \* the configurations: "sliding", "summary"
    StateKinds,       \* what the agent's state is: "object", with attributes, or "dict"
    Content,          \* of each message: "none", "short", or "long" (over 2000 characters)
    MaxMessages,      \* max_messages of either
    PreserveRecent,   \* preserve_recent of either
    PreserveFirst,    \* preserve_first of the sliding window
    MaxTokens,        \* max_tokens of the summarization
    Tokens,           \* _estimate_tokens of a message
    MaxToolCalls,     \* bound on the tool calls of one answer
    MaxSaid           \* bound on the messages of a behaviour

ASSUME WindowAssumption ==
    /\ Windows \subseteq {"sliding", "summary"}
    /\ StateKinds \subseteq {"object", "dict"}
    /\ Content \in [1 .. MaxSaid -> {"none", "short", "long"}]
    /\ MaxMessages \in Nat /\ PreserveRecent \in Nat
    /\ PreserveFirst \in BOOLEAN
    /\ {MaxTokens, Tokens, MaxToolCalls, MaxSaid} \subseteq Nat

VARIABLES
    kindOfWindow,     \* which of the two middlewares is configured
    stateKind,        \* what the state is that the middlewares are handed
    messages,         \* the state's messages
    said,             \* how many messages were said
    turn,             \* whose turn it is
    pending           \* tool calls of the last answer without a result

config == <<kindOfWindow, stateKind>>
windowVars == <<config, messages, said, turn, pending>>

TextOf(n) == IF Content[n] = "none" THEN {} ELSE {n}
Message(n, from) == [from |-> from, of |-> {n}, text |-> TextOf(n)]
Summary(numbers, text) == [from |-> "summary", of |-> numbers, text |-> text]

WindowTypeOK ==
    /\ kindOfWindow \in Windows /\ stateKind \in StateKinds
    /\ messages \in Seq([from : {"user", "model", "tool", "summary"},
                         of : SUBSET (1 .. MaxSaid), text : SUBSET (1 .. MaxSaid)])
    /\ said \in 0 .. MaxSaid
    /\ turn \in {"user", "window", "model", "tools"}
    /\ pending \in 0 .. MaxToolCalls

WindowInit ==
    /\ kindOfWindow \in Windows /\ stateKind \in StateKinds
    /\ messages = << >> /\ said = 0
    /\ turn = "user" /\ pending = 0

------------------------------------------------------------------------------
(* The two compressions                                                     *)

\* Summaries are system messages, and so is nothing else that is kept in the
\* state: create_agent adds the system prompt at each call.
IsSystem(m) == m.from = "summary"
SystemPart(ms) == Pick(ms, {i \in DOMAIN ms : IsSystem(ms[i])})
SaidPart(ms) == Pick(ms, {i \in DOMAIN ms : ~ IsSystem(ms[i])})

AtLeast(n, least) == IF n < least THEN least ELSE n
Recent == AtLeast(PreserveRecent, 2)
LastOf(ms, k) == SubSeq(ms, Len(ms) - k + 1, Len(ms))

\* _trim: the first message that is not a system message, and the last ones.
Trim(ms) ==
    LET plain == SaidPart(ms)
        kept == LastOf(plain, Recent)
        first == IF PreserveFirst /\ ~ Contains(kept, Head(plain)) THEN <<Head(plain)>> ELSE << >>
    IN  IF Len(plain) <= Recent + IF PreserveFirst THEN 1 ELSE 0
        THEN ms
        ELSE SystemPart(ms) \o first \o kept

\* SlidingWindowMiddleware.before_model
Slide(ms) == IF Len(ms) <= AtLeast(MaxMessages, 4) THEN ms ELSE Trim(ms)

\* _should_summarize
WithText(ms) == Pick(ms, {i \in DOMAIN ms : IsSystem(ms[i]) \/ ms[i].text # {}})
ShouldSummarize(ms) == Len(ms) > MaxMessages \/ Len(WithText(ms)) * Tokens > MaxTokens

Covered(ms) == UNION {m.of : m \in ToSet(ms)}

\* _messages_to_text, as far as it is whole: it skips the messages that have no
\* text, such as answers that only call tools, and cuts off the long ones.
MessagesToText(ms) == {n \in UNION {m.text : m \in ToSet(ms)} : Content[n] # "long"}

\* The message that stands for the compressed ones.
Summarized(ms) == Summary(Covered(ms), MessagesToText(ms))

\* As DoSummarize, but the message before the last ones is in neither part.
DoSummarizeShort(ms) ==
    LET plain == SaidPart(ms)
        cutoff == Len(plain) - Recent
        compressed == SubSeq(plain, 1, cutoff - 1)
    IN  IF cutoff <= 0
        THEN ms
        ELSE Append(SystemPart(ms), Summarized(compressed)) \o LastOf(plain, Recent)

\* As DoSummarize, but one of the last ones is compressed with the rest.
DoSummarizeTooMuch(ms) ==
    LET plain == SaidPart(ms)
        cutoff == Len(plain) - Recent + 1
        compressed == SubSeq(plain, 1, cutoff)
    IN  IF cutoff <= 0
        THEN ms
        ELSE Append(SystemPart(ms), Summarized(compressed)) \o LastOf(plain, Recent - 1)

\* _do_summarize: all but the last ones become one more summary, behind the
\* summaries that are there.
DoSummarize(ms) ==
    LET plain == SaidPart(ms)
        cutoff == Len(plain) - Recent
        compressed == SubSeq(plain, 1, cutoff)
    IN  IF cutoff <= 0
        THEN ms
        ELSE Append(SystemPart(ms), Summarized(compressed)) \o LastOf(plain, Recent)

------------------------------------------------------------------------------
(* The session                                                              *)

Say(from, ms) == messages' = Append(ms, Message(said + 1, from)) /\ said' = said + 1

\* A run begins, or a session goes on, with the user's words.
UserSays ==
    /\ turn = "user" /\ said < MaxSaid
    /\ Say("user", messages)
    /\ turn' = "window"
    /\ UNCHANGED <<config, pending>>

\* before_model. A dict has no attribute `messages`: neither window acts. When
\* the summary cannot be made, for want of a model or because its call fails,
\* the messages stay as they are.
BeforeModel ==
    /\ turn = "window"
    /\ \/ stateKind = "dict" /\ UNCHANGED messages
       \/ stateKind = "object" /\ kindOfWindow = "sliding" /\ messages' = Slide(messages)
       \/ /\ stateKind = "object" /\ kindOfWindow = "summary"
          /\ IF ShouldSummarize(messages)
             THEN messages' = DoSummarize(messages) \/ UNCHANGED messages
             ELSE UNCHANGED messages
    /\ turn' = "model"
    /\ UNCHANGED <<config, said, pending>>

\* The model's answer, with tool calls or with the last word of the run.
ModelAnswers ==
    /\ turn = "model" /\ said < MaxSaid
    /\ Say("model", messages)
    /\ pending' \in 0 .. MaxToolCalls
    /\ turn' = IF pending' = 0 THEN "user" ELSE "tools"
    /\ UNCHANGED config

ToolAnswers ==
    /\ turn = "tools" /\ said < MaxSaid
    /\ Say("tool", messages)
    /\ pending' = pending - 1
    /\ turn' = IF pending' = 0 THEN "window" ELSE "tools"
    /\ UNCHANGED config

WindowNext == UserSays \/ BeforeModel \/ ModelAnswers \/ ToolAnswers

WindowSpec == WindowInit /\ [][WindowNext]_windowVars

------------------------------------------------------------------------------
(* Properties                                                               *)

\* Over any number of compressions no message is dropped, repeated or put out
\* of order but those that the window means to drop. With summaries each one
\* said is there or has one summary in its place, and if it has text, not cut
\* off for its length, then its whole text was given to that summary's maker;
\* with the sliding window the fault's description stays in front. In both,
\* what is still there are the newest messages, in the order they were said.
NothingLost ==
    LET plain == SaidPart(messages)
        sums == SystemPart(messages)
        first == IF kindOfWindow = "sliding" /\ PreserveFirst THEN 1 ELSE 0
        numbers == [i \in DOMAIN plain |-> CHOOSE n \in plain[i].of : TRUE]
    IN  /\ kindOfWindow = "summary" =>
              /\ Covered(messages) = 1 .. said
              /\ \A m \in ToSet(messages) : {n \in m.of : Content[n] = "short"} \subseteq m.text
              /\ \A i, j \in DOMAIN messages :
                    i < j => \A m \in messages[i].of, n \in messages[j].of : m < n
        /\ first = 1 /\ said > 0 => numbers[1] = 1
        /\ \A i \in DOMAIN numbers : i > first => numbers[i] = said - Len(plain) + i

\* Whenever the model is called, it is given the newest messages. A sliding
\* window that is handed an object gives it no more than its limit; handed a
\* dict, either window gives it all that was ever said, whatever the limits.
\* No summary stands for nothing: although summaries are never compressed again
\* and, past the limit, every call asks for one more, a compression never makes
\* the messages more.
CallFits ==
    turn = "model" =>
        /\ Len(SaidPart(messages)) >= IF said < Recent THEN said ELSE Recent
        /\ stateKind = "object" /\ kindOfWindow = "sliding" /\ Recent + 1 <= AtLeast(MaxMessages, 4) =>
              Len(messages) <= AtLeast(MaxMessages, 4)
        /\ stateKind = "dict" => Len(messages) = said
        /\ \A m \in ToSet(messages) : m.of # {}

==============================================================================
