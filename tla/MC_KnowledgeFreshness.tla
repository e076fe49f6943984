------------------------ MODULE MC_KnowledgeFreshness ------------------------
(***************************************************************************)
(* KnowledgeTiers for TLC, with a history variable: for each service the   *)
(* document that was written for it last, until some search for the        *)
(* service has gone past the cache. All documents are of one service.      *)
(***************************************************************************)
EXTENDS KnowledgeTiers

CONSTANTS FirstService

VARIABLE newest

MCSafe == [s \in Services |-> s]
MCServiceOf == [d \in Docs |-> FirstService]

Written(s) == {d \in Docs : ServiceOf[d] = s /\ \E w \in Writers : (Scan(w) \/ Delete(w)) /\ d = job[w].doc /\ job'[w] = None}
Passed(s) == \E r \in Readers : SearchEs(r) /\ s = asks[r].service

NewestInit == Init /\ newest = [s \in Services |-> {}]
NewestNext ==
    /\ Next
    /\ newest' = [s \in Services |-> IF Written(s) # {} THEN Written(s)
                                   ELSE IF Passed(s) THEN {} ELSE newest[s]]
NewestSpec == NewestInit /\ [][NewestNext]_<<vars, newest>>

\* What the write path says of its invalidation (it makes the hot sets of the
\* service invalid so that the tiers stay consistent): once a document has been
\* written and until a search goes past the cache, no other document is both hot
\* for its service and cached, to be answered in place of it.
HotIsCurrent ==
    \A s \in Services, a \in Alerts :
        Members(hot[<<s, a>>]) \cap cached # {} => newest[s] \subseteq Members(hot[<<s, a>>])

==============================================================================
