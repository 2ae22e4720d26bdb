----------------------------- MODULE Engagement -----------------------------
(***************************************************************************)
(* What the system learns from published posts (services/engagement, the   *)
(* fetch_metrics of adapters/platforms, smms.post_metrics and its rollup). *)
(* Fetch jobs append a snapshot of a post; aggregate jobs score the latest *)
(* snapshot of every post and append the scores to the rollup, which the   *)
(* analytics page and item selection read.  Jobs of both kinds overlap.    *)
(***************************************************************************)
EXTENDS Integers, Sequences, FiniteSets, FiniteSetsExt

CONSTANTS
    Post, PlatformOf,   \* posts, and the platform of each
    Aggregate,          \* aggregate jobs that may run at the same time
    MaxReal, MaxUndone, MaxShots, MaxRounds

VARIABLES
    real,    \* reactions each post has, as its platform counts them; -1: not published
    undone,  \* history: reactions to each post that were taken back
    shots,   \* smms.post_metrics, oldest first
    agg,     \* the rows an aggregate job has read and scored
    rollup,  \* smms.post_metrics_rollup
    rounds

vars == <<real, undone, shots, agg, rollup, rounds>>

Columns == {"likes", "comments", "shares", "impressions", "reach", "clicks", "saves"}

\* The columns that fetch_metrics of each adapter fills; it returns other names
\* too, which no column takes.
TwitterMetrics == {"likes", "comments", "shares", "impressions", "saves"}
InstagramMetrics == {"likes", "comments", "saves", "impressions", "reach"}
LinkedInMetrics == {"likes", "comments"}
YouTubeMetrics == {"likes", "comments"}
ThreadsMetrics == {"likes"}
FacebookMetrics == {}
PinterestMetrics == {}
MastodonMetrics == {}
OtherMetrics == {}
Filled == [twitter |-> TwitterMetrics, instagram |-> InstagramMetrics,
           linkedin |-> LinkedInMetrics, youtube |-> YouTubeMetrics,
           threads |-> ThreadsMetrics, facebook |-> FacebookMetrics,
           pinterest |-> PinterestMetrics, mastodon |-> MastodonMetrics,
           telegram |-> OtherMetrics]

\* The columns DEFAULT_WEIGHTS gives a weight.
Weighted(plat) ==
    CASE plat \in {"linkedin", "twitter"} -> {"likes", "comments", "shares", "clicks", "impressions"}
      [] plat = "instagram" -> {"likes", "comments", "shares", "saves", "reach"}
      [] plat = "facebook" -> {"likes", "comments", "shares", "clicks", "reach"}
      [] plat = "youtube" -> {"likes", "comments"}
      [] OTHER -> {"likes", "comments", "shares", "clicks"}

EngagementAssumption ==
    /\ PlatformOf \in [Post -> DOMAIN Filled]
    /\ {MaxReal, MaxUndone, MaxShots, MaxRounds} \subseteq Nat

\* A snapshot: the columns that have a number from the platform, that number, and
\* as history how many reactions had been taken back by then.
Shots == [post : Post, filled : SUBSET Columns, count : 0 .. MaxReal, undone : 0 .. MaxUndone]
\* A row of the rollup scores the posts of one key; here every post has its own.
Rows == [post : Post, score : Nat, upto : 0 .. MaxShots]

TypeOK ==
    /\ real \in [Post -> -1 .. MaxReal] /\ undone \in [Post -> 0 .. MaxUndone]
    /\ shots \in Seq(Shots) /\ Len(shots) <= MaxShots
    /\ agg \in [Aggregate -> [on : BOOLEAN, rows : SUBSET Rows]]
    /\ rollup \subseteq Rows /\ rounds \in 0 .. MaxRounds

Init ==
    /\ real = [p \in Post |-> -1] /\ undone = [p \in Post |-> 0]
    /\ shots = <<>> /\ rollup = {} /\ rounds = 0
    /\ agg = [a \in Aggregate |-> [on |-> FALSE, rows |-> {}]]

\* A post goes out, or somebody reacts to it in every way.
React(p) ==
    /\ real[p] < MaxReal
    /\ real' = [real EXCEPT ![p] = @ + 1]
    /\ UNCHANGED <<undone, shots, agg, rollup, rounds>>

\* Somebody takes a reaction back.
Unreact(p) ==
    /\ real[p] > 0 /\ undone[p] < MaxUndone
    /\ real' = [real EXCEPT ![p] = @ - 1]
    /\ undone' = [undone EXCEPT ![p] = @ + 1]
    /\ UNCHANGED <<shots, agg, rollup, rounds>>

\* What fetch_metrics can bring: all its columns, or nothing when it fails as a
\* whole (an error status, an exception, no adapter, no external id).  Instagram
\* asks twice, skips an answer that is an error, and reports zero for its columns.
Answers(site) ==
    {Filled[site], {}} \cup
    (IF site = "instagram" THEN {{"likes", "comments"}, {"saves", "impressions", "reach"}} ELSE {})

AdapterFetch(p) ==
    {[post |-> p, filled |-> cols, count |-> real[p], undone |-> undone[p]] :
        cols \in Answers(PlatformOf[p])}
FetchForPost(p) ==
    /\ real[p] # -1 /\ Len(shots) < MaxShots
    /\ \E shot \in AdapterFetch(p) : shots' = Append(shots, shot)
    /\ UNCHANGED <<real, undone, agg, rollup, rounds>>

\* engagement_score: the weighted columns that have a number.
Score(s) == s.count * Cardinality(s.filled \cap Weighted(PlatformOf[s.post]))

\* Mutant of Latest: the newest snapshot of any post.
LatestOfAny(p) == {Len(shots)}
\* DISTINCT ON (post_id) ... ORDER BY snapshotted_at DESC.
Latest(p) == LET own == {k \in DOMAIN shots : shots[k].post = p}
             IN  {k \in own : \A j \in own : j <= k}

\* The first transaction deletes the old rollup and ends without a commit, so
\* nothing is deleted.
AggregateRead(a) ==
    /\ ~ agg[a].on /\ rounds < MaxRounds
    /\ rounds' = rounds + 1
    /\ agg' = [agg EXCEPT ![a] = [on |-> TRUE, rows |->
                  UNION {{[post |-> p, score |-> Score(shots[k]), upto |-> Len(shots)] :
                          k \in Latest(p)} : p \in {q \in Post : shots # <<>>}}]]
    /\ UNCHANGED <<real, undone, shots, rollup>>

AggregateWrite(a) ==
    /\ agg[a].on
    /\ rollup' = rollup \cup agg[a].rows
    /\ agg' = [agg EXCEPT ![a] = [on |-> FALSE, rows |-> {}]]
    /\ UNCHANGED <<real, undone, shots, rounds>>

AggregateFails(a) ==
    /\ agg[a].on
    /\ agg' = [agg EXCEPT ![a] = [on |-> FALSE, rows |-> {}]]
    /\ UNCHANGED <<real, undone, shots, rollup, rounds>>

\* What the readers of the rollup get first: ORDER BY avg_engagement DESC.
Learnings == {r \in rollup : \A s \in rollup : s.score <= r.score}

Next ==
    \/ \E p \in Post : React(p) \/ Unreact(p) \/ FetchForPost(p)
    \/ \E a \in Aggregate : AggregateRead(a) \/ AggregateWrite(a) \/ AggregateFails(a)

Spec == Init /\ [][Next]_vars
-----------------------------------------------------------------------------
Complete(s) == s.filled = Filled[PlatformOf[s.post]]
\* The snapshot that a row of the rollup scores.
Newest(r) == shots[Max({j \in 1 .. r.upto : shots[j].post = r.post})]

\* The score of a post falls from one round to a later one only if the later one
\* scores an incomplete snapshot, which counts as zero where it has no number, or
\* if reactions were taken back between the two snapshots.
ScoresFallByFailure ==
    \A r, s \in rollup :
        r.post = s.post /\ r.upto <= s.upto /\ s.score < r.score
        => ~ Complete(Newest(s)) \/ Newest(r).undone < Newest(s).undone

\* Reactions that were fetched give a score, except on the platforms whose
\* adapter reports under names that no column has.
ReactionsCount ==
    \A r \in rollup :
        Complete(Newest(r)) /\ Newest(r).count > 0
        => r.score > 0 \/ PlatformOf[r.post] \in {"facebook", "pinterest", "mastodon", "telegram"}

\* The best row that readers are shown was true at some time; as no row is ever
\* deleted, a newer score of the same post may be lower.
BestWasTrue ==
    \A r \in Learnings :
        \E k \in 1 .. r.upto : shots[k].post = r.post /\ Score(shots[k]) = r.score
=============================================================================
