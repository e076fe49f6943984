--------------------------- MODULE MC_KnowledgeTiers ---------------------------
(***************************************************************************)
(* KnowledgeTiers for TLC: services whose names are what hot keys hold, a  *)
(* first document of a known service and the others of the unknown one.    *)
(***************************************************************************)
EXTENDS KnowledgeTiers, TLC

CONSTANTS FirstDoc, FirstService

MCSafe == [s \in Services |-> s]
MCServiceOf == [d \in Docs |-> IF d = FirstDoc THEN FirstService ELSE Unknown]

Symmetry == Permutations(Writers)

==============================================================================
