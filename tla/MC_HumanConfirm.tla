---------------------------- MODULE MC_HumanConfirm ----------------------------
(***************************************************************************)
(* HumanConfirm for TLC. Calls and ids are interchangeable and standard    *)
(* input matters to the console only, so the initial states are one of     *)
(* each class: the first call is of a dangerous tool and has the first id; *)
(* the second call is of either tool and has the same id or the other.     *)
(***************************************************************************)
EXTENDS HumanConfirm

CONSTANTS FirstCall, FirstId

MCInit ==
    /\ Init
    /\ op[FirstCall] = FirstId /\ tool[FirstCall] \in DangerousTools
    /\ mode # "console" => stdinKind = "select"

MCSpec == MCInit /\ [][Next]_vars /\ Fairness

==============================================================================
