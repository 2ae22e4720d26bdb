-------------------------------- MODULE Intake --------------------------------
(***************************************************************************)
(* Where a run's items come from: the source adapters (adapters/sources),  *)
(* the loader that takes the first entries of every source                 *)
(* (agents/source_loader.py), the selection strategies                     *)
(* (services/selection), and the status that a Notion row is given after   *)
(* its post.  Runs come one after another; ItemLedger has the claims of    *)
(* runs that overlap.                                                      *)
(***************************************************************************)
EXTENDS Integers, FiniteSets

CONSTANTS
    Source, PluginOf,      \* the workflow's sources, numbered in its order; the plugin of each
    MaxEntry, HomeOf,      \* entries are numbers, by the name they are listed under; their sources
    Limit,                 \* limit_per_source
    Strategies,            \* strategies a behaviour may use
    MaxPerRun, PerSource, MaxPerSource, TotalCap, TopK, Window,  \* selection_config
    Account, KindOf,       \* the accounts of a run, numbered in order, and the plugin of each
    MaxClock, MaxRuns

VARIABLES
    clock,
    there,     \* the time each entry appeared, or Absent
    strategy,  \* of the workflow
    durable,   \* whether its runs are durable or inline
    consumed,  \* source_items with status consumed
    items,     \* the candidates of the run: the entries that were loaded, and their dates
    pc, runs,
    status,    \* the Status property of each row of a CMS
    live,      \* how many posts of each entry are out on each account
    heard,     \* history: for the last selection, what was unseen, chosen and skipped, and
               \* whether the strategy raised
    lost       \* history: a write of a row's Status failed

vars == <<clock, there, strategy, durable, consumed, items, pc, runs, status, live, heard, lost>>

Entry == 1 .. MaxEntry
Absent == MaxClock + 1
Undated == -1

(***************************************************************************)
(* The adapters.  stamp: what kind of published_at an item gets, "none" if *)
(* it may have none; now: it is the time of the fetch; order: whether the  *)
(* newest or the first by name come first; bad: whether an entry that      *)
(* cannot be read is passed over, comes without a body, or ends the fetch. *)
(* Images and videos are stored again, or dropped, and never end it.       *)
(***************************************************************************)
Plugin(stamps, now, order, bad) == [stamps |-> stamps, now |-> now, order |-> order, bad |-> bad]
Rss == Plugin({"naive", "none"}, FALSE, "newest", "end")
YouTube == Plugin({"aware"}, FALSE, "newest", "end")
GoogleDrive == Plugin({"aware"}, FALSE, "listed", "blank")
Notion == Plugin({"aware"}, FALSE, "listed", "end")
GitHub == Plugin({"aware"}, FALSE, "newest", "end")
S3 == Plugin({"aware"}, FALSE, "listed", "blank")
SqlDatabase == Plugin({"naive", "none"}, FALSE, "listed", "end")
MongoDb == Plugin({"naive", "none"}, FALSE, "listed", "end")
VectorDb == Plugin({"none"}, FALSE, "listed", "end")
LocalFolder == Plugin({"naive"}, FALSE, "listed", "end")
WebCrawler == Plugin({"naive"}, TRUE, "listed", "skip")
WebScraper == Plugin({"naive"}, TRUE, "listed", "end")
Registry == [rss |-> Rss, youtube |-> YouTube, google_drive |-> GoogleDrive, notion |-> Notion,
             github |-> GitHub, s3 |-> S3, sql |-> SqlDatabase, mongodb |-> MongoDb,
             vector_db |-> VectorDb, file |-> LocalFolder, web_crawler |-> WebCrawler,
             web_scraper |-> WebScraper]

IntakeAssumption ==
    /\ Source \subseteq Nat /\ PluginOf \in [Source -> DOMAIN Registry]
    /\ HomeOf \in [Entry -> Source] /\ Limit \in Nat \ {0}
    /\ {MaxPerRun, PerSource, MaxPerSource, TotalCap, TopK, Window} \subseteq Nat
    /\ Account \subseteq Nat /\ IsFiniteSet(Account)
    /\ {MaxEntry, MaxClock, MaxRuns} \subseteq Nat

AdapterOf(e) == Registry[PluginOf[HomeOf[e]]]
\* A Notion source in CMS mode lists only the rows that are Ready.
IsCms(e) == PluginOf[HomeOf[e]] = "notion"

Candidates == DOMAIN items
Items == [at : Undated .. MaxClock, aware : BOOLEAN]
Heard == [unseen : SUBSET Entry, chosen : SUBSET Entry, skipped : SUBSET Entry,
          raised : BOOLEAN]
TypeOK ==
    /\ clock \in 0 .. MaxClock /\ there \in [Entry -> 0 .. Absent] /\ strategy \in Strategies
    /\ durable \in BOOLEAN /\ consumed \subseteq Entry /\ runs \in 0 .. MaxRuns
    /\ Candidates \subseteq Entry /\ items \in [Candidates -> Items]
    /\ pc \in {"idle", "loaded", "publishing", "dead"}
    /\ status \in [Entry -> {"ready", "published", "failed"}]
    /\ live \in [Entry -> [Account -> Nat]]
    /\ heard \in Heard /\ lost \in BOOLEAN

Init ==
    /\ clock = 0 /\ there = [e \in Entry |-> Absent] /\ strategy \in Strategies /\ durable \in BOOLEAN
    /\ consumed = {} /\ items = <<>> /\ pc = "idle" /\ runs = 0
    /\ status = [e \in Entry |-> "ready"] /\ live = [e \in Entry |-> [a \in Account |-> 0]]
    /\ heard = [unseen |-> {}, chosen |-> {}, skipped |-> {}, raised |-> FALSE] /\ lost = FALSE

Appear(e) ==
    /\ there[e] = Absent /\ clock < MaxClock
    /\ there' = [there EXCEPT ![e] = clock]
    /\ clock' = clock + 1
    /\ UNCHANGED <<strategy, durable, consumed, items, pc, runs, status, live, heard, lost>>

\* What a source shows, and what it lists before what.
Shown(s) == {e \in Entry : HomeOf[e] = s /\ there[e] # Absent
                            /\ (IsCms(e) => status[e] = "ready")}
First(d, e) == IF AdapterOf(e).order = "newest" THEN there[d] > there[e] ELSE d < e
\* broken: entries that cannot be read just now.
Readable(s, broken) ==
    CASE Registry[PluginOf[s]].bad = "skip" -> Shown(s) \ broken
      [] Registry[PluginOf[s]].bad = "blank" -> Shown(s)
      [] OTHER -> {e \in Shown(s) \ broken : \A d \in Shown(s) \cap broken : First(e, d)}
\* load_items takes the first of them.
Taken(s, broken) ==
    {e \in Readable(s, broken) :
        Cardinality({d \in Readable(s, broken) : First(d, e)}) < Limit}

\* published_at is missing or the time of the fetch for some adapters.
Dated(e, undated) ==
    IF AdapterOf(e).stamps = {"none"} \/ (e \in undated /\ "none" \in AdapterOf(e).stamps)
    THEN Undated ELSE IF AdapterOf(e).now THEN clock ELSE there[e]

\* A source that fails loses the rest of its entries, and no other source.
Load ==
    /\ pc = "idle" /\ runs < MaxRuns
    /\ pc' = "loaded" /\ runs' = runs + 1
    /\ \E broken, undated \in SUBSET Entry :
          items' = [e \in UNION {Taken(s, broken) : s \in Source} |->
                       [at |-> Dated(e, undated), aware |-> "aware" \in AdapterOf(e).stamps]]
    /\ UNCHANGED <<clock, there, strategy, durable, consumed, status, live, heard, lost>>
-----------------------------------------------------------------------------
\* The strategies, over the entries that were loaded, source by source.
Before(d, e) == HomeOf[d] < HomeOf[e] \/ (HomeOf[d] = HomeOf[e] /\ First(d, e))

\* Mutant of Unseen: what was used in a prior run is offered again.
UnseenOrUsed == Candidates
Unseen == Candidates \ consumed
Of(s) == {e \in Candidates : HomeOf[e] = s}
\* An item without a date is sorted as the oldest; sorting is stable.
Newer(d, e) == items[d].at > items[e].at \/ (items[d].at = items[e].at /\ Before(d, e))
Newest(n, set) == {e \in set : Cardinality({d \in set : Newer(d, e)}) < n}

PerItem == Newest(MaxPerRun, Unseen)
\* Mutant of RoundRobin: the count goes on over the sources.
RoundRobinShared == Newest(PerSource, Unseen)
RoundRobin == UNION {Newest(PerSource, Unseen \cap Of(s)) : s \in Source}

\* The window spares an item without a date.
Fresh == {e \in Unseen : items[e].at = Undated \/ clock - items[e].at <= Window}
Freshness == Newest(TotalCap, UNION {Newest(MaxPerSource, Fresh \cap Of(s)) : s \in Source})

\* recency 1/age, at least an hour old, plus the engagement of the source, all in
\* sixtieths; an item without a date, or with a naive one, is as good as new.
Score(e, history) ==
    LET at == IF items[e].at = Undated \/ ~ items[e].aware THEN clock ELSE items[e].at
        age == IF clock - at < 1 THEN 1 ELSE clock - at
    IN  60 \div age + 60 * history[HomeOf[e]]
Better(d, e, history) ==
    \/ Score(d, history) > Score(e, history)
    \/ Score(d, history) = Score(e, history) /\ Before(d, e)
EngagementWeighted(history) ==
    {e \in Unseen : Cardinality({d \in Unseen : Better(d, e, history)}) < TopK}

\* What an embedding finds relevant enough; without one, the newest.
RelevantOf(set) == {c \in SUBSET set : Cardinality(c) <= TopK}
RelevanceFallback == Newest(TopK, Unseen)

\* Dates with and without a zone do not compare, and "none" counts as one with.
\* roundrobin sorts each source by itself; relevance sorts in its fallback only.
Clashes(set) == \E d, e \in set :
    (items[d].at = Undated \/ items[d].aware) /\ ~ (items[e].at = Undated \/ items[e].aware)
Sorts == CASE strategy = "roundrobin" -> {Of(s) : s \in Source}
           [] strategy \in {"relevance", "engagement_weighted"} -> {}
           [] OTHER -> {Candidates}
Raises == \E set \in Sorts : Clashes(set)

\* freshness stops at its cap: the items after it are not even skipped.
FreshnessSkipped(chosen) ==
    IF Cardinality(chosen) < TotalCap THEN Candidates \ chosen
    ELSE {e \in Candidates \ chosen : \E d \in chosen : Newer(e, d)}

\* A durable run claims nothing.
Chooses(chosen, skipped, raised) ==
    /\ heard' = [unseen |-> Unseen, chosen |-> chosen, skipped |-> skipped, raised |-> raised]
    /\ consumed' = IF durable THEN consumed ELSE consumed \cup chosen
    /\ pc' = IF chosen = {} THEN "idle" ELSE "publishing"

Select ==
    /\ pc = "loaded" /\ ~ Raises
    /\ \/ strategy = "per_item" /\ Chooses(PerItem, Candidates \ PerItem, FALSE)
       \/ strategy = "roundrobin" /\ Chooses(RoundRobin, Candidates \ RoundRobin, FALSE)
       \/ strategy = "freshness" /\ Chooses(Freshness, FreshnessSkipped(Freshness), FALSE)
       \/ /\ strategy = "engagement_weighted"
          /\ \E history \in [Source -> {0, 1}] :
                Chooses(EngagementWeighted(history), Unseen \ EngagementWeighted(history), FALSE)
       \/ /\ strategy = "relevance"
          /\ \/ \E c \in RelevantOf(Unseen) : Chooses(c, Unseen \ c, FALSE)
             \/ ~ Clashes(Unseen) /\ Chooses(RelevanceFallback, {}, FALSE)
    /\ UNCHANGED <<clock, there, strategy, durable, items, runs, status, live, lost>>

\* A strategy that raises: the inline run takes the first unseen items; the
\* phase of the durable one fails, now and at every retry.
FirstUnseen == {e \in Unseen : Cardinality({d \in Unseen : Before(d, e)}) < 5}
SelectRaises ==
    /\ pc = "loaded"
    /\ Raises \/ (strategy = "relevance" /\ Clashes(Unseen))
    /\ IF durable
       THEN pc' = "dead" /\ UNCHANGED <<heard, consumed>>
       ELSE Chooses(FirstUnseen, {}, TRUE)
    /\ UNCHANGED <<clock, there, strategy, durable, items, runs, status, live, lost>>
-----------------------------------------------------------------------------
Rows == {e \in heard.chosen : IsCms(e)}
\* _execute_cms makes a draft of each row for each account, and of each draft a
\* post for every account of the same plugin.
Posts == {p \in Account \X Account : KindOf[p[1]] = KindOf[p[2]]}
Sooner(p, q) == p[1] < q[1] \/ (p[1] = q[1] /\ p[2] < q[2])

\* Mutant of Released: the claims stand.
ReleasedNever == {}
\* The end of a failed run gives back what it claimed: its rows were never linked
\* to their posts, so those that are out go back too.
Released == heard.chosen

\* What a row's Status ends as: each post writes its outcome over it.
Written(e, done, raised) ==
    IF e \in raised THEN "failed"
    ELSE IF \E p \in Posts : <<e, p>> \in done THEN "published" ELSE status[e]
Times(e, a, done) == Cardinality({p \in Posts : p[2] = a /\ <<e, p>> \in done})

\* done: the posts that went out; silent: rows whose writes failed, which is only logged.
RowsEnd(done, raised) ==
    /\ live' = [e \in Entry |-> [a \in Account |-> live[e][a] + Times(e, a, done)]]
    /\ \E silent \in SUBSET Rows :
          /\ status' = [e \in Entry |-> IF e \in silent THEN status[e]
                                          ELSE Written(e, done, raised)]
          /\ lost' = (lost \/ silent # {})
    /\ consumed' = IF raised = {} THEN consumed ELSE consumed \ Released

\* The rows' posts go out, and other items of the run nowhere, until one raises: of the
\* rows before its own, in the order the strategy gave them, all.
PublishRows ==
    /\ pc = "publishing" /\ ~ durable /\ Rows # {}
    /\ pc' = "idle" /\ items' = <<>>
    /\ \/ RowsEnd(Rows \X Posts, {})
       \/ \E e \in Rows, last \in Posts : \E whole \in SUBSET (Rows \ {e}) :
             RowsEnd((whole \X Posts) \cup ({e} \X {p \in Posts : Sooner(p, last)}), {e})
    /\ UNCHANGED <<clock, there, strategy, durable, runs, heard>>

\* Agents write the posts of any other run; a durable run takes rows for items.
PublishPosts ==
    /\ pc = "publishing" /\ (durable \/ Rows = {})
    /\ pc' = "idle" /\ items' = <<>>
    /\ \/ /\ live' = [e \in Entry |-> [a \in Account |->
                          IF e \in heard.chosen THEN live[e][a] + 1 ELSE live[e][a]]]
          /\ UNCHANGED consumed
       \/ consumed' = consumed \ heard.chosen /\ UNCHANGED live
    /\ UNCHANGED <<clock, there, strategy, durable, runs, status, heard, lost>>

\* Another run is started after one that died.
Restart ==
    /\ pc = "dead" /\ pc' = "idle"
    /\ items' = <<>>
    /\ UNCHANGED <<clock, there, strategy, durable, consumed, runs, status, live, heard, lost>>

Next ==
    \/ \E e \in Entry : Appear(e)
    \/ Load \/ Select \/ SelectRaises \/ PublishRows \/ PublishPosts \/ Restart

Spec == Init /\ [][Next]_vars
-----------------------------------------------------------------------------
\* No entry has posts of two runs on an account, unless a write of its row's Status
\* failed; _execute_cms alone publishes as many of a row to the account as the run
\* has accounts of its plugin.
Twins(a) == Cardinality({b \in Account : KindOf[b] = KindOf[a]})
NeverTwice ==
    ~ durable /\ ~ lost => \A e \in Entry, a \in Account :
        live[e][a] <= IF IsCms(e) THEN Twins(a) ELSE 1

\* A failed write of the Status never repeats a post ("the row will look stale
\* until the next manual sync, but no double-post can happen").
NoDoublePost ==
    ~ durable => \A e \in Entry, a \in Account : live[e][a] <= 1

\* What stays consumed was published ("permanently consumed IFF a non-failed Post
\* derived from it exists"): so it is of rows; other items a run chose with rows
\* stay consumed though they went nowhere.
RowsAreOut ==
    ~ durable /\ pc = "idle" =>
        \A e \in consumed : IsCms(e) => \A a \in Account : live[e][a] > 0

\* In rotation every source with an item that was not used gets its turn, unless dates
\* that do not compare left the run with its first five items.
RotationServesAll ==
    strategy = "roundrobin" /\ heard.chosen # {} /\ ~ heard.raised =>
        \A e \in heard.unseen : \E d \in heard.chosen : HomeOf[d] = HomeOf[e]

\* The trace of a selection names every item nobody used, as chosen or as skipped,
\* when the strategy looks at all of them.
TraceIsComplete ==
    strategy \in {"per_item", "roundrobin", "engagement_weighted"} /\ ~ heard.raised
    => heard.unseen \subseteq heard.chosen \cup heard.skipped

\* A source that has an entry nobody used offers one ("Picks the newest items
\* each source produced"): the loader stops after the first Limit entries.
NewIsOffered ==
    pc = "loaded" => \A e \in Entry :
        there[e] # Absent /\ there[e] < clock - 1 /\ e \notin consumed /\ AdapterOf(e).bad = "blank"
        => \E d \in Unseen : HomeOf[d] = HomeOf[e]

\* "Stops a noisy feed from drowning out quieter ones".
QuietSourcesHeard ==
    strategy = "freshness" /\ Cardinality(Source) <= TotalCap /\ ~ heard.raised
    /\ pc = "publishing" =>
        \A e \in heard.unseen \cap Fresh : \E d \in heard.chosen : HomeOf[d] = HomeOf[e]
=============================================================================
