---------------------------- MODULE MC_BoundedSaver ----------------------------
(***************************************************************************)
(* BoundedSaver for TLC. The id `short` is a single character, the ids in  *)
(* `beginning` begin with it, the others with characters that are no ids.  *)
(* Workers are interchangeable.                                            *)
(***************************************************************************)
EXTENDS BoundedSaver, TLC

CONSTANTS short, beginning, other

MCFirstOfKey == [t \in Threads |-> IF t \in {short} \cup beginning THEN short ELSE other]

Symmetry == Permutations(Workers)

==============================================================================
