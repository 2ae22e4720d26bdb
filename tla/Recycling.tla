------------------------------ MODULE Recycling ------------------------------
(***************************************************************************)
(* Content recycling (services/content_recycler.py and                     *)
(* domain/entities/recycle_policy.py): runs of one policy republish old,   *)
(* well received posts as new scheduled ones, while posts are published,   *)
(* deleted and measured.  How often a post was recycled is kept among its  *)
(* metrics, which the collector replaces (workers/metrics_collector.py)    *)
(* and the Supabase rows do not have.                                      *)
(***************************************************************************)
EXTENDS Naturals, Sequences, FiniteSets

CONSTANTS
    Persists,    \* whether the post repository keeps metrics (memory) or not (Supabase)
    Floor,       \* min_engagement_score; scores are 0 and 1
    MaxRecycle,  \* max_recycle_count
    PerRun,      \* max_per_run
    Originals,   \* posts that were not recycled from another
    Runner, MaxRuns, MaxPosts

VARIABLES
    posts,    \* the post rows ever made, by number
    enabled,  \* of the policy
    run,      \* what each run of the policy has in hand
    runs,
    wiped     \* history: the collector replaced the metrics of a recycled post

vars == <<posts, enabled, run, runs, wiped>>

RecyclingAssumption ==
    /\ Persists \in BOOLEAN /\ Floor \in {0, 1}
    /\ {MaxRecycle, Originals, MaxRuns, MaxPosts} \subseteq Nat /\ Originals <= MaxPosts

\* parent 0: an original; gone: deleted; by: the run that made it.
PostRows == [parent : 0 .. MaxPosts, by : 0 .. MaxRuns, gone : BOOLEAN,
             status : {"draft", "scheduled", "published"}, old : BOOLEAN,
             score : {0, 1}, count : 0 .. MaxRecycle]
Ids == DOMAIN posts

TypeOK ==
    /\ posts \in Seq(PostRows) /\ Len(posts) <= MaxPosts /\ enabled \in BOOLEAN
    /\ run \in [Runner -> [no : 0 .. MaxRuns, todo : SUBSET (Ids \X (0 .. MaxRecycle))]]
    /\ runs \in 0 .. MaxRuns /\ wiped \in BOOLEAN

Fresh == [parent |-> 0, by |-> 0, gone |-> FALSE, status |-> "draft", old |-> FALSE,
          score |-> 0, count |-> 0]
Init ==
    /\ posts = [k \in 1 .. Originals |-> Fresh]
    /\ enabled = TRUE /\ runs = 0 /\ wiped = FALSE
    /\ run = [r \in Runner |-> [no |-> 0, todo |-> {}]]

\* A user publishes it (publish_now); after cooldown_days it is old.
PublishNow(p) ==
    /\ ~ posts[p].gone /\ posts[p].status # "published"
    /\ posts' = [posts EXCEPT ![p].status = "published"]
    /\ UNCHANGED <<enabled, run, runs, wiped>>
Ages(p) ==
    /\ posts[p].status = "published" /\ ~ posts[p].old
    /\ posts' = [posts EXCEPT ![p].old = TRUE]
    /\ UNCHANGED <<enabled, run, runs, wiped>>
DeletePost(p) ==
    /\ ~ posts[p].gone
    /\ posts' = [posts EXCEPT ![p].gone = TRUE]
    /\ UNCHANGED <<enabled, run, runs, wiped>>

\* collect_all_metrics walks the in-memory store only, and replaces the metrics.
Collect(p) ==
    /\ Persists /\ ~ posts[p].gone /\ posts[p].status = "published"
    /\ \E score \in {0, 1} : posts' = [posts EXCEPT ![p].score = score, ![p].count = 0]
    /\ wiped' = (wiped \/ posts[p].count > 0)
    /\ UNCHANGED <<enabled, run, runs>>

Disable ==
    /\ enabled
    /\ enabled' = FALSE
    /\ UNCHANGED <<posts, run, runs, wiped>>

\* Mutant of Candidate: the limit is forgotten.
CandidateEver(p) == ~ posts[p].gone /\ posts[p].status = "published" /\ posts[p].old
                    /\ posts[p].score >= Floor
\* find_candidates: the filters by workflow and platform let these posts through.
Candidate(p) ==
    /\ ~ posts[p].gone /\ posts[p].status = "published" /\ posts[p].old
    /\ posts[p].count < MaxRecycle
    /\ posts[p].score >= Floor

\* execute_policy, called by a user: it looks at enabled, not at is_due. The best
\* candidates first; those of one score in any order.
Execute(r) ==
    /\ run[r].no = 0 /\ enabled /\ runs < MaxRuns
    /\ runs' = runs + 1
    /\ LET found == {p \in Ids : Candidate(p)} IN
       \E picked \in SUBSET found :
          /\ Cardinality(picked) = IF Cardinality(found) < PerRun THEN Cardinality(found) ELSE PerRun
          /\ \A p \in picked, q \in found \ picked : posts[p].score >= posts[q].score
          /\ run' = [run EXCEPT ![r] = [no |-> runs + 1, 
                            todo |-> {<<p, posts[p].count>> : p \in picked}]]
    /\ UNCHANGED <<posts, enabled, wiped>>

\* _republish goes on from the count that was listed; the platform may be
\* missing, and rewriting or inserting may fail. The original is not written.
\* Mutant of Counted: the copy takes over the count.
CountedSame(n) == n
Counted(n) == n + 1
Republish(r, p, n) ==
    /\ <<p, n>> \in run[r].todo
    /\ run' = [run EXCEPT ![r].todo = @ \ {<<p, n>>}]
    /\ \/ /\ Len(posts) < MaxPosts
          /\ posts' = Append(posts, [Fresh EXCEPT !.parent = p, !.by = run[r].no,
                !.status = "scheduled", !.score = posts[p].score,
                !.count = IF Persists THEN Counted(n) ELSE 0])
       \/ UNCHANGED posts
    /\ UNCHANGED <<enabled, runs, wiped>>
EndRun(r) ==
    /\ run[r].no # 0 /\ run[r].todo = {}
    /\ run' = [run EXCEPT ![r].no = 0]
    /\ UNCHANGED <<posts, enabled, runs, wiped>>

Next ==
    \/ \E p \in Ids : PublishNow(p) \/ Ages(p) \/ DeletePost(p) \/ Collect(p)
    \/ Disable
    \/ \E r \in Runner : Execute(r) \/ EndRun(r) \/ \E p \in Ids, n \in 0 .. MaxRecycle : Republish(r, p, n)

Spec == Init /\ [][Next]_vars
-----------------------------------------------------------------------------
\* A line of n copies: a post, a copy of it, a copy of that, and so on.
Lines(n) == {line \in [0 .. n -> Ids] : \A k \in 1 .. n : posts[line[k]].parent = line[k - 1]}

\* A line of copies of copies ends after max_recycle_count of them, unless the
\* counts were lost: by the collector, or for want of a column.
LinesEnd == Persists /\ ~ wiped => Lines(MaxRecycle + 1) = {}

\* A run makes one copy of a post at most; only another run makes the next.
OneCopyPerRun ==
    \A p, q \in Ids : posts[p].parent # 0 /\ posts[p].parent = posts[q].parent
                      /\ posts[p].by = posts[q].by => p = q

\* max_recycle_count is there to "avoid infinite reuse". The count of the post
\* that is reused never changes.
ReuseIsLimited ==
    \A p \in Ids : Cardinality({q \in Ids : posts[q].parent = p}) <= MaxRecycle
=============================================================================
