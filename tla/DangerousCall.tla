---------------------------- MODULE DangerousCall ----------------------------
(***************************************************************************)
(* What human confirmation promises about the tool calls of the recovery   *)
(* agent, with nothing said of how people are asked: a dangerous call is   *)
(* put to a person, is granted by a "yes" some person did say or else is   *)
(* refused, and its handler runs only after a grant. Decisions are final.  *)
(* HumanConfirm implements it.                                             *)
(***************************************************************************)
EXTENDS Naturals

CONSTANT Calls       \* the tool calls of the recovery agent

VARIABLES
    phase,           \* how far each call has come
    heard,           \* the answers "yes" that people gave, by number
    used             \* the answer each granted call relies on, 0 before a grant

vars == <<phase, heard, used>>

Phases == {"idle", "asking", "granted", "refused", "executed", "passed"}

TypeOK ==
    /\ phase \in [Calls -> Phases]
    /\ heard \subseteq Nat
    /\ used \in [Calls -> Nat]

Init ==
    /\ phase = [c \in Calls |-> "idle"]
    /\ heard = {}
    /\ used = [c \in Calls |-> 0]

Move(c, from, to) ==
    /\ phase[c] = from
    /\ phase' = [phase EXCEPT ![c] = to]

\* A dangerous call is held back.
Ask(c) == Move(c, "idle", "asking") /\ UNCHANGED <<heard, used>>

\* A call of any other tool runs at once.
Pass(c) == Move(c, "idle", "passed") /\ UNCHANGED <<heard, used>>

\* Some person says yes, to whatever question.
Hear ==
    /\ heard \subseteq heard' /\ heard' \subseteq Nat
    /\ UNCHANGED <<phase, used>>

Grant(c) ==
    /\ Move(c, "asking", "granted")
    /\ \E n \in heard : used' = [used EXCEPT ![c] = n]
    /\ UNCHANGED heard

Refuse(c) == Move(c, "asking", "refused") /\ UNCHANGED <<heard, used>>

Execute(c) == Move(c, "granted", "executed") /\ UNCHANGED <<heard, used>>

Next ==
    \/ Hear
    \/ \E c \in Calls : \/ Ask(c)    \/ Pass(c)   \/ Grant(c)
                        \/ Refuse(c) \/ Execute(c)

Spec == Init /\ [][Next]_vars

==============================================================================
