------------------------------ MODULE Knowledge ------------------------------
(***************************************************************************)
(* The knowledge base of one organisation (services/knowledge/store.py,    *)
(* api/v1/knowledge.py) and the job knowledge.auto_ingest, which adds the  *)
(* posts with the best engagement that have no document yet                *)
(* (services/jobs/handlers_system.py).  A document gets its embeddings     *)
(* when it is added or never.                                              *)
(***************************************************************************)
EXTENDS Naturals, FiniteSets

CONSTANTS
    Post,     \* posts, all long enough to be ingested
    Job,      \* ingest jobs that may run at the same time
    User,     \* user requests that may be under way at the same time
    MaxDocs

VARIABLES
    top,       \* the posts in the top decile now, with a score above zero
    docs,      \* the documents: a number, the post they are of or "manual", whether embedded
    made,      \* documents ever made
    job,       \* the posts each job has in hand, and whether it has an embed function
    adding,    \* of each user request: where it is
    shared     \* history: posts that two jobs had in hand at the same time

vars == <<top, docs, made, job, adding, shared>>

KnowledgeAssumption == "manual" \notin Post /\ MaxDocs \in Nat

Docs == [no : 1 .. MaxDocs, ref : Post \cup {"manual"}, embedded : BOOLEAN]
TypeOK ==
    /\ top \subseteq Post /\ docs \subseteq Docs /\ made \in 0 .. MaxDocs
    /\ job \in [Job -> [todo : SUBSET Post, embeds : BOOLEAN]]
    /\ adding \in [User -> {"idle", "plain", "embedding"}]
    /\ shared \subseteq Post

Init ==
    /\ top = {} /\ docs = {} /\ made = 0 /\ shared = {}
    /\ job = [j \in Job |-> [todo |-> {}, embeds |-> FALSE]]
    /\ adding = [u \in User |-> "idle"]

\* Engagement moves posts into the top decile and out of it.
Measure ==
    /\ top' \in SUBSET Post /\ top' # top
    /\ UNCHANGED <<docs, made, job, adding, shared>>

\* Mutant of Candidates: those that have a document are not left out.
CandidatesAll == top
Candidates == {p \in top : ~ \E d \in docs : d.ref = p}
\* The query, and _build_embed_fn, which gives nothing if no workflow or no
\* provider can be had.
StartIngest(j) ==
    /\ job[j].todo = {} /\ Candidates # {}
    /\ \E embeds \in BOOLEAN : job' = [job EXCEPT ![j] = [todo |-> Candidates, embeds |-> embeds]]
    /\ shared' = shared \cup (Candidates \cap UNION {job[i].todo : i \in Job})
    /\ UNCHANGED <<top, docs, made, adding>>

\* add_document: the embeddings first, whose failure is logged, then the document
\* and its chunks in one transaction.
AddDocument(ref, embeds) ==
    /\ made < MaxDocs
    /\ made' = made + 1
    /\ \E answered \in BOOLEAN :
          docs' = docs \cup {[no |-> made', ref |-> ref, embedded |-> embeds /\ answered]}

\* The document may be refused, which is logged; or the job is stopped here, and
\* what it had in hand is left to its next attempt.
IngestOne(j) ==
    \E p \in job[j].todo :
        /\ job' = [job EXCEPT ![j].todo = @ \ {p}]
        /\ \/ AddDocument(p, job[j].embeds)
           \/ UNCHANGED <<docs, made>>
        /\ UNCHANGED <<top, adding, shared>>
IngestStops(j) ==
    /\ job[j].todo # {}
    /\ job' = [job EXCEPT ![j].todo = {}]
    /\ UNCHANGED <<top, docs, made, adding, shared>>

\* A user's request: it takes its embed function and adds when it has it.
Request(u) ==
    /\ adding[u] = "idle"
    /\ \E to \in {"plain", "embedding"} : adding' = [adding EXCEPT ![u] = to]
    /\ UNCHANGED <<top, docs, made, job, shared>>
UserAdds(u) ==
    /\ adding[u] \in {"plain", "embedding"}
    /\ AddDocument("manual", adding[u] = "embedding")
    /\ adding' = [adding EXCEPT ![u] = "idle"]
    /\ UNCHANGED <<top, job, shared>>
UserDeletes(d) ==
    /\ docs' = docs \ {d}
    /\ UNCHANGED <<top, made, job, adding, shared>>

Next ==
    \/ Measure
    \/ \E j \in Job : StartIngest(j) \/ IngestOne(j) \/ IngestStops(j)
    \/ \E u \in User : Request(u) \/ UserAdds(u)
    \/ \E d \in docs : UserDeletes(d)

Spec == Init /\ [][Next]_vars
-----------------------------------------------------------------------------
\* "each post is only ingested once": two documents of a post only if two jobs
\* had it in hand together.
IngestedOnce ==
    \A c, d \in docs : c.ref = d.ref /\ c.ref # "manual" /\ c # d => c.ref \in shared

=============================================================================
