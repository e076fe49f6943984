------------------------------- MODULE LongTerm -------------------------------
(***************************************************************************)
(* memory/long_term.py with tools/knowledge_store.py: knowledge in Chroma  *)
(* collections, one for each category, and in Markdown files. What the     *)
(* recovery agent learns is added to its collection under an id made from  *)
(* the time and then written to a file; a load, at start-up, by the API or *)
(* by init-kb, adds every file under an id made from its path. So one      *)
(* document may be there under two ids. A forced load, init-kb --force, is *)
(* a process of its own and deletes a collection before it fills it.       *)
(*                                                                         *)
(* `given` is what the last search gave, `removed` the documents whose     *)
(* file people have removed, `wiped` those whose collection a forced load  *)
(* deleted and that were not added again since: history variables.         *)
(***************************************************************************)
EXTENDS Integers, FiniteSets, Sequences

CONSTANTS
    Lessons,         \* documents that store_knowledge may be called with
    Manuals,         \* documents that people write as files
    Categories,      \* "general", "scenario", "history", in the order of a load
    CategoryOf,      \* the category of each document
    Score,           \* how relevant each document is to what is searched for
    Threshold,       \* rag_score_threshold
    TopK             \* top_k of format_context

Documents == Lessons \cup Manuals

ASSUME LongTermAssumption ==
    /\ IsFiniteSet(Documents)
    /\ Categories \in Seq(STRING) /\ Categories # << >>
    /\ \A i, j \in DOMAIN Categories : Categories[i] = Categories[j] => i = j
    /\ CategoryOf \in [Documents -> {Categories[i] : i \in DOMAIN Categories}]
    /\ Score \in [Documents -> Nat] /\ Threshold \in Nat /\ TopK \in Nat

VARIABLES
    entries,         \* what is in the collections: documents by their ids
    disk,            \* the documents that have a file
    lesson,          \* how far each call of store_knowledge is
    toLoad,          \* categories that the load has still to do
    force,           \* its force_reload
    listing,         \* documents that it has read, while at the first of toLoad
    loading,         \* where it is: "idle", "list", "delete", "add"
    given, removed, wiped

knowledgeVars == <<entries, disk, lesson, toLoad, force, listing, loading, given, removed, wiped>>
store == <<disk, lesson, removed>>
load == <<toLoad, force, listing, loading>>

Entries == {"dynamic", "file"} \X Documents
In(S, category) == {d \in S : CategoryOf[d] = category}
EntriesOf(S) == {e \in entries : e[2] \in S}
Findable(d) == EntriesOf({d}) # {}

\* format_context asks for this many of each category.
Each == TopK \div 3 + 1

LongTermTypeOK ==
    /\ entries \subseteq Entries
    /\ disk \subseteq Documents /\ removed \subseteq Documents /\ wiped \subseteq Documents
    /\ lesson \in [Lessons -> {"none", "added", "stored", "failed"}]
    /\ loading \in {"idle", "list", "delete", "add"} /\ force \in BOOLEAN
    /\ listing \subseteq Documents
    /\ loading # "idle" => toLoad # << >> /\ listing \subseteq In(listing, Head(toLoad))
    /\ given \subseteq Entries
    /\ \A i \in DOMAIN Categories :
          Cardinality({e \in given : CategoryOf[e[2]] = Categories[i]}) <= Each

LongTermInit ==
    /\ entries = {} /\ disk = {} /\ removed = {} /\ wiped = {}
    /\ lesson = [d \in Lessons |-> "none"]
    /\ toLoad = << >> /\ force = FALSE /\ listing = {} /\ loading = "idle"
    /\ given = {}

------------------------------------------------------------------------------
(* store_fault_experience                                                   *)

Reach(d, label) == lesson' = [lesson EXCEPT ![d] = label]

\* Into the collection; an unknown category, or a failure, is told the agent.
AddExperience(d) ==
    /\ lesson[d] = "none"
    /\ \/ entries' = entries \cup {<<"dynamic", d>>} /\ Reach(d, "added")
          /\ wiped' = wiped \ {d}
       \/ UNCHANGED <<entries, wiped>> /\ Reach(d, "failed")
    /\ UNCHANGED <<disk, removed, load, given>>

\* As SaveToMarkdown, but a file that cannot be written is passed over.
SaveToMarkdownQuietly(d) ==
    /\ lesson[d] = "added"
    /\ disk' \in {disk, disk \cup {d}} /\ Reach(d, "stored")
    /\ UNCHANGED <<entries, removed, wiped, load, given>>

\* _save_to_markdown; only after it is the agent told of a success. A write
\* that fails may leave a file that is cut off.
SaveToMarkdown(d) ==
    /\ lesson[d] = "added"
    /\ \/ disk' = disk \cup {d} /\ Reach(d, "stored")
       \/ disk' \in {disk, disk \cup {d}} /\ Reach(d, "failed")
    /\ UNCHANGED <<entries, removed, wiped, load, given>>

------------------------------------------------------------------------------
(* load_knowledge_base                                                      *)

BeginLoad ==
    /\ loading = "idle"
    /\ loading' = "list" /\ toLoad' = Categories
    /\ force' \in BOOLEAN
    /\ UNCHANGED <<entries, listing, store, given, wiped>>

NextCategory ==
    /\ toLoad' = Tail(toLoad) /\ listing' = {}
    /\ loading' = IF Len(toLoad) = 1 THEN "idle" ELSE "list"

\* The files of one directory, without those that cannot be read. When none is
\* left the category is passed over: a forced load then deletes nothing.
ListFiles ==
    /\ loading = "list"
    /\ \E files \in SUBSET In(disk, Head(toLoad)) :
        IF files = {}
        THEN NextCategory
        ELSE /\ listing' = files
             /\ loading' = IF force THEN "delete" ELSE "add"
             /\ UNCHANGED toLoad
    /\ UNCHANGED <<entries, force, store, given, wiped>>

DeleteCollection ==
    /\ loading = "delete"
    /\ loading' = "add"
    /\ entries' = entries \ EntriesOf(In(Documents, Head(toLoad)))
    /\ wiped' = wiped \cup In(Documents, Head(toLoad))
    /\ UNCHANGED <<toLoad, force, listing, store, given>>

\* add_documents, under ids made from the paths; a failure is only logged.
AddDocuments ==
    /\ loading = "add"
    /\ \/ entries' = entries \cup ({"file"} \X listing) /\ wiped' = wiped \ listing
       \/ UNCHANGED <<entries, wiped>>
    /\ NextCategory
    /\ UNCHANGED <<force, store, given>>

------------------------------------------------------------------------------
(* format_context, and what happens around the program                      *)

\* The k entries of S with the highest scores, or all of them.
BestEntries(S, k) ==
    {B \in SUBSET S :
        /\ Cardinality(B) = IF Cardinality(S) < k THEN Cardinality(S) ELSE k
        /\ \A b \in B, e \in S \ B : Score[b[2]] >= Score[e[2]]}

\* As Search, but with the threshold alone.
SearchAll(category) ==
    {{}} \cup {{e \in EntriesOf(In(Documents, category)) : Score[e[2]] >= Threshold}}

\* search of one category: those of the best that reach the threshold, or
\* nothing, if Chroma fails.
Search(category) ==
    {{}} \cup {{b \in B : Score[b[2]] >= Threshold} :
                  B \in BestEntries(EntriesOf(In(Documents, category)), Each)}

FormatContext ==
    /\ \E found \in [DOMAIN Categories -> SUBSET entries] :
        /\ \A i \in DOMAIN Categories : found[i] \in Search(Categories[i])
        /\ given' = UNION {found[i] : i \in DOMAIN Categories}
    /\ UNCHANGED <<entries, store, load, wiped>>

WriteFile(d) ==
    /\ d \notin disk
    /\ disk' = disk \cup {d} /\ removed' = removed \ {d}
    /\ UNCHANGED <<entries, lesson, load, given, wiped>>

RemoveFile(d) ==
    /\ d \in disk
    /\ disk' = disk \ {d} /\ removed' = removed \cup {d}
    /\ UNCHANGED <<entries, lesson, load, given, wiped>>

\* The processes are killed. Chroma and the files persist.
Restart ==
    /\ lesson' = [d \in Lessons |-> IF lesson[d] = "added" THEN "failed" ELSE lesson[d]]
    /\ toLoad' = << >> /\ listing' = {} /\ loading' = "idle"
    /\ given' = {}
    /\ UNCHANGED <<entries, disk, force, removed, wiped>>

LongTermNext ==
    \/ \E d \in Lessons : AddExperience(d) \/ SaveToMarkdown(d)
    \/ BeginLoad \/ ListFiles \/ DeleteCollection \/ AddDocuments
    \/ FormatContext
    \/ \E d \in Manuals : WriteFile(d)
    \/ \E d \in Documents : RemoveFile(d)
    \/ Restart

LongTermSpec == LongTermInit /\ [][LongTermNext]_knowledgeVars

------------------------------------------------------------------------------
(* Property                                                                 *)

\* Whatever fails or is killed between two steps of a store or of a load, and
\* wherever a forced load falls between them: knowledge that the agent was
\* told is stored lies in a file, until people remove it, and can be found,
\* unless a forced load deleted its collection and no load has added it since.
\* Such a load may have read the directory before the file was there.
KnowledgeSurvives ==
    \A d \in Lessons : lesson[d] = "stored" =>
        /\ d \in disk \cup removed
        /\ Findable(d) \/ d \in wiped

==============================================================================
