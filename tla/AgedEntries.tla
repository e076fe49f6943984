------------------------------ MODULE AgedEntries ------------------------------
(***************************************************************************)
(* Dictionaries that remember when each entry was written, by age: 0 when  *)
(* it is written, one more with every tick, Ttl + 1 for whatever is older  *)
(* than the TTL. The sessions of a FaultAgent are one, and the entries of  *)
(* a saver are.                                                            *)
(***************************************************************************)
EXTENDS Integers, FiniteSets

CONSTANTS
    Ids,             \* what an entry may be for
    MaxThreads,      \* settings.checkpointer_max_threads
    Ttl              \* settings.checkpointer_ttl_seconds

Absent == -1
Ages == Absent .. (Ttl + 1)
Held(f) == {i \in Ids : f[i] # Absent}
Expired(f) == {i \in Ids : f[i] = Ttl + 1}

Without(f, E) == [i \in Ids |-> IF i \in E THEN Absent ELSE f[i]]
With(f, i) == [f EXCEPT ![i] = 0]

\* The entries of f that have to go when only n may remain: the oldest, as few
\* as will do; never the one just written, i.
Excess(f, n, i, E) ==
    /\ E \subseteq Held(f) \ {i}
    /\ Cardinality(Held(f) \ E) <= n
    /\ E # {} => Cardinality(Held(f) \ E) = n
    /\ \A e \in E, k \in Held(f) \ E : f[e] >= f[k]

\* put of a BoundedInMemorySaver.
Put(f, i, g) == \E E \in SUBSET Ids :
    Excess(With(f, i), MaxThreads, i, E) /\ g = Without(With(f, i), E)

Older(f) == [i \in Ids |-> IF f[i] \in 0 .. Ttl THEN f[i] + 1 ELSE f[i]]

==============================================================================
