------------------------------ MODULE AtomicSaver ------------------------------
(***************************************************************************)
(* What the agents rely on of a checkpoint store, with nothing said of     *)
(* locks and threads: each call has happened at one moment. A write makes  *)
(* its entry the youngest and takes the oldest away when there are more    *)
(* than the limit, and no more of them than it must; purge_expired takes   *)
(* nothing that is younger than the TTL. BoundedSaver implements it, and   *)
(* FaultSessions uses its savers by nothing else.                          *)
(***************************************************************************)
EXTENDS AgedEntries

VARIABLE ages        \* the age of each entry

Init == ages = [i \in Ids |-> Absent]

Write(i) == Put(ages, i, ages')
Purge(i) == ages' = Without(ages, {i})

\* What has expired since its time was read may stay.
PurgeExpired == \E E \in SUBSET Expired(ages) : ages' = Without(ages, E)

TimePasses == ages' = Older(ages)

Next ==
    \/ \E i \in Ids : Write(i) \/ Purge(i)
    \/ PurgeExpired \/ TimePasses

Spec == Init /\ [][Next]_ages

==============================================================================
