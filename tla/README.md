# TLA+ models of the social-media management backend

The repository is a multi-tenant system that turns source items (feeds, pages,
documents, videos) into social-media posts. A *workflow* describes where the
material comes from, which platforms it goes to and who approves it; a *run* of
a workflow fetches, selects, plans, tailors, writes, critiques and publishes.
This directory models the parts of the backend (`src/backend/app`) where
several processes share state, where a step can fail half way, or where an
order of events nobody wrote a test for decides the outcome.

Run a model: `tlc -workers 2 -config JobQueueOverlap.cfg MCJobQueue`.
Check the proofs: `tlapm JobQueueProofs.tla` (then `DurableRunProofs.tla`, `InlineRunProofs.tla`,
`ItemLedgerProofs.tla`, `CampaignProofs.tla`, `MembershipProofs.tla`, and the two modules of the smaller
parts, `ServiceProofs.tla` and `ContentProofs.tla`).

Contents: 1 inventory, 2 plan, 3 the modules and the code, 4 runs and bounds,
5 fairness, 6 what is proved, 7 what is only model-checked, 8 where code and
documentation disagree, 9 what is not modelled.

## 1. Inventory

Paths are relative to `src/backend/app`. The last column names the module; `PROJECT.json`
lists the files of each component and what is left out of it.

| component | state it keeps | operations | what is hard | module |
|---|---|---|---|---|
| job queue, worker pools (`services/jobs/queue.py`, `worker.py`) | `smms.jobs` rows; consumer tasks per process | enqueue, claim, complete, fail, cancel, retry, sweep, purge; start, stop, kill | at-least-once execution, races of peek and insert, stale decisions, orphan recovery | `JobLeases`, `JobQueue` |
| durable workflow run (`services/workflow_durable_runner.py`) | `workflow_runs` rows, phase outputs, posts | one job per phase, revision loop, publish with partial retry | redelivered phases, crash between publish and persist, whole-row updates | `DurableRun` |
| inline run, review loop (`services/workflow_service.py`, `review_service.py`), Celery publishing (`workers/publish.py`, `api/v1/posts.py`) | run, review session, posts | execute, vote, callback, resume, revise, reject, publish_now | concurrent decisions, resume twice, exceptions half way | `InlineRun` |
| agents (`agents/`, `services/compliance.py`) | plan, drafts, evaluations of a run | plan, tailor, execute, evaluate, critique | which account gets which text; the compliance flags; the end of the revision loop | `Drafting` |
| source item claims (`services/source_items.py`) | `source_items` rows: status, post link | claim, link, release, reset | an item used twice, or lost, when posts of a run fail | `ItemLedger` |
| sources and selection (`adapters/sources`, `agents/source_loader.py`, `services/selection`) | entries of a source, CMS rows and their Status | fetch, select, publish rows, write the Status back | failed write-backs, dates that do not compare | `Intake` |
| targeting (`services/directive_router.py`, `target_resolver.py`) | selector of a workflow, a directive | resolve at the start, again at the approval | accounts that fail in between | `Targeting` |
| platform adapters (`adapters/platforms`, `services/media_normalizer.py`) | remote containers and posts | publish | lost answers, unfinished containers, dropped media | `Adapters` |
| engagement (`services/engagement`) | metric snapshots, rollup | fetch, aggregate | empty snapshots of failed fetches, overlapping aggregates | `Engagement` |
| chats (`api/v1/webhooks.py`, `adapters/triggers`, `adapters/review_channels`) | messages, review sessions | receive, decide, start, resume, draft, send | redelivery, equal message numbers, answers to an older draft | `Inbox` |
| approvals (`services/approval_policy_service.py`) | policy, request, decisions | open, decide, cancel, edit | edited and deleted policies, optional steps | `Approval` |
| campaigns (`services/campaign_service.py`) | campaign, its steps and their status | create, add step, activate, pause, cancel, delete, run due steps | overlapping walks, stops during a walk, stale verdicts | `Campaigns` |
| experiments (`services/experiment_service.py`) | variants, results | start, settle, cancel | overlapping starts, settle against start | `Experiments` |
| recycling (`services/content_recycler.py`) | policy, posts and their counts | execute, disable | overlapping runs, counts that are lost | `Recycling` |
| knowledge base (`services/knowledge`, `jobs/handlers_system.py`) | documents and embeddings | auto-ingest, add, delete | overlapping ingest jobs | `Knowledge` |
| system scheduler (`services/jobs/system_scheduler.py`) | advisory lock, last-run times | probe, enqueue | two leaders, missed periods | `SystemTicks` |
| Celery beat tick (`workers/scheduler.py`, `workflow_runner.py`) | workflow row (`last_fired`, schedule) | tick, delay, record fired, edit | double fire, lost edits | `BeatTick` |
| circuit breakers (`services/circuit_breaker.py`) | failures, state, opened-at | guard | late outcomes, several probes in half-open | `Breaker` |
| rate limits (`core/rate_limit.py`, `services/tenant_rate_limiter.py`) | token buckets | acquire, consume, configure | sleepers that pass together | `Buckets` |
| LLM budget (`services/llm_usage.py`, `adapters/llm/budget_guard.py`) | usage rows | check, record | overshoot of check-then-record | `Spending` |
| team (`services/team.py`, `core/security.py`) | members, invitations, roles | sign in, found, invite, claim, change role, remove, revoke | an organisation without an administrator | `Membership` |
| audit log (`services/audit_log.py`) | hash chain per organisation | append, verify, page | concurrent appends, unhashed rows | `AuditChain` |
| data privacy (`services/data_privacy.py`) | export and erasure jobs | request, cancel, run pending | writers during an erasure | `DataPrivacy` |
| others | | | | section 9 |

How they interact: the API and the schedulers enqueue jobs; workers run handlers
that advance a run and enqueue the next phase; publishing consumes rate budget,
passes the circuit breaker and links source items to posts; review decisions
resume runs; audit rows accompany admin operations.

What makes each of the main parts correct:

* queue: every accepted job is handled at least once and settles; two handlers of
  one job overlap only after the orphan sweep gave the first one up; attempts
  are bounded; an idempotency key names one live row; what is settled stays so.
* durable run: one phase at a time; a draft goes out once unless something
  crashed; only approved drafts go out; a run never stops between two phases.
* inline run and reviews: a post goes out once; a quorum consists of different
  reviewers; a rejection is final; a revised draft replaces the one it revises.
* source items: an item is used by one run at a time, is given back when the run
  ends without a post, and is not offered again once its post is out.
* drafts: wording a rule knows goes out only after a person has approved it; a denied
  platform gets nothing; the links of a brief survive the model; media fit.
* chats: a decision reaches the draft it answers, and survives a dying request.
* schedulers: one firing per due time, one leader, one job per period. Breakers, limits
  and budgets: the configured rate bounds what passes, up to calls under way together.
* approvals: each step has its approvers and a rejection ends a request. Team: an
  organisation keeps an administrator, nobody joins uninvited. Audit: the chain shows every
  change. Erasure: only what was written behind its back is left.
* learning: scores follow reactions, copies of copies end, a post is ingested once.

## 2. Plan

| order | module | composes | state |
|---|---|---|---|
| 1 | `JobLeases` | | done: abstract specification of the queue |
| 2 | `JobQueue` | implements `JobLeases` | done, proved |
| 3 | `DurableRun` | its jobs are `JobLeases` | done, proved |
| 4 | `InlineRun` | | done but for edits and deletion of posts; proved |
| 5 | `ItemLedger` | the runs of 4 and 3, a decision being one step | done but for revisions, the in-memory ledger; proved |
| 6 | `Campaigns` | | done, proved |
| 7 | `Membership`, `AuditChain`, `DataPrivacy` | `Service` extends `Membership` and has an instance of each other module of 7 to 9 | done, proved |
| 8 | `Breaker`, `Buckets`, `Spending` | `Service` | done, proved |
| 9 | `BeatTick`, `SystemTicks` | `Service`; their jobs are what `JobQueue` accepts | done, proved |
| 10 | `Adapters`, `Engagement`, `Recycling`, `Approval`, `Experiments`, `Knowledge` | `Content` extends `Campaigns` and has an instance of each other module of 10 to 12 | done, proved |
| 11 | `Intake`, `Targeting`, `Drafting` | `Content`; the data of a run that 3 to 5 keep abstract | done, proved |
| 12 | `Inbox` | `Content`; the sessions of 4, from the chat's side | done, proved |
| 13 | `ServiceProofs`, `ContentProofs` | the theorems of 7 to 12, then of `Service` and `Content` | done |

Every invariant and every step property that a passing run checks is a theorem; section 7 lists
what stays with TLC.

## 3. The modules and the code

**`JobLeases`** is what handlers and callers may assume of the queue: a queued job is
leased to a free consumer, which counts an attempt; it is queued again when its
consumer says so or its lease expires; an outcome counts even after the lease
expired; what is over stays over unless somebody still has a lease on it.

**`JobQueue`** (`services/jobs/queue.py`, `worker.py`, `api/v1/jobs.py`). `row` is the
`smms.jobs` table with `scheduled_for` kept as due or not and `started_at` as none,
fresh or stale; `worker` is what each consumer coroutine is doing, `pool` the worker
processes, `client` an enqueuer between its peek and its insert. One action is one
statement or transaction: `EnqueuePeek`/`EnqueueInsert` (Postgres) or `EnqueueLocked`
(memory), `Claim`, `Complete`, `FailRead`/`FailWrite` or `FailLocked`, `ConsumerDies` (an error
out of `fail()` ends the task), `Stop`, `Kill`, `Start`, `BecomesDue`, `BecomesStale`,
`SweepOrphans`, `Cancel`, `BulkCancel`, `Purge`. A purged slot may be used for a new row.
`recoveries` is history: it counts the sweeps of a job.

**`DurableRun`** (`services/workflow_durable_runner.py`, `jobs/handlers_workflow.py`). `run` is
the `workflow_runs` row; `job` the jobs of the run by idempotency key; `exec` what each
consumer is doing, with its copy of the row, which `Save`, `Mark` and the errors write
back whole. `Select` to `Critique` are the phases, `Escalate`/`Review` the posts for a
human, `Publish`/`Record` the adapter's call and the post row, `Audit`/`Mark` the terminal
record, `Route` the next job, `RaiseTransient`, `RaisePermanent`, `GiveUp` the errors,
`Crash`, `RecordFails`, `Redeliver` the faults. Contents of plans and drafts are
numbers. `Targets` are the names the drafts carry, which may repeat; `Accounts` the plugins of
the workflow's accounts, of which a publish phase loads any (`loaded`; a lookup that fails is passed over,
`missed` is history). A draft goes to an account of its name, else to the first one loaded, else nowhere
(`Match`); the row marks its name, the review post is tagged by name and place.

**`InlineRun`** (`services/workflow_service.py`, `review_service.py`, `api/v1/posts.py`,
`workers/publish.py`). One run whose item is claimed. `req` are the requests in flight with
their copies of session and run, each action being the code between two awaits
that other requests can see. `Execute` drafts and publishes or opens a session, which `SaveRef`
writes into the run again after the message went out;
`DecideByApi`, `Reply` and `ReplyUnknown` write the session; `Resume`, `Approve`, `Reject`,
`Revise`, `Rerun` act on it; `ApprovePost`, `PublishNow`, `Republish` and the `Task...` actions
are the posts page and Celery. `CallRefused` and `CallFails` are errors before and in the code's
`try`. A reply of WhatsApp or Instagram has no `actor_id` (`"unsigned"`) and decides alone, as the API
does (`Alone`), whatever the quorum. `live` counts what reached the platform.

**`ItemLedger`** (`services/source_items.py` and the selection and drafting half of
`workflow_service.py`). `ledger` is the `source_items` table; `run` the inline runs from fetch
to end, in one of three modes (several items into one draft, one draft per item,
CMS rows); a decision of a reviewer is one step here; `durable` are durable runs as
far as they touch the ledger. `sent` records whose text a post went out with.
Claims, links and publications are single actions, so runs interleave between them.

**`Campaigns`** (`services/campaign_service.py`, `domain/entities/campaign.py`). `status` and `step` are
the fields of the campaign objects, which the in-memory repository shares among all
callers, `stored` what the repository holds. `walk` is what each call of
`execute_due_steps` is doing: `now` the steps due when it began, `todo` the campaigns it
listed, `left` and `step` the steps it chose of the campaign it is at. It is suspended
where the code loads the workflow of a step and where the workflow runs; `Advance`
is the code from there to the next suspension, with `evaluate_completion` and `update`
after the last step. `sent`, `done`, `shared` and `stopped` are history. The order of steps and
campaigns is left open, and a walk may also be interrupted between two campaigns.

### Content (`Content`, `MCContent`)

These modules share no state in the code beyond what the caller hands over, so `Content` joins
them without an interaction: the variable `part` is chosen by `InitAll`, `NextAll` runs that part's
`Next`, and all variables of the other parts are 0. `MCContent` gives it small values.

* **`Intake`**: sources and accounts are numbers, in the order in which the code goes through them. `there` is
  when an entry of a source appeared, `items` what was loaded, by entry; `Load` is `load_items` with
  its limit of entries per source, each adapter's order, and any set of unreadable or undated
  entries; `Select` the strategies, or `SelectRaises` (`heard.raised`, history: dated and naive dates do
  not compare, and the run takes the first five items); `PublishRows`/`PublishPosts` the two ways out,
  the rows in any order a strategy may have given them, with the Status written back to a Notion row,
  or not (`unwritten`).
* **`Targeting`**: a directive is a set of phrases; `Start` resolves selector and directive, `Turn` is
  an account that fails or recovers, `Approve` resolves again and publishes.
* **`Drafting`**: `Plan`, `Tailor`, `Execute`, `Critique` are the agents, for the inline path (one after the
  other, `orchestrator.py`) and the durable one (a phase each). Blueprints and drafts have numbers, a draft
  that of its blueprint. A model's answer is any answer: which platforms it plans for, which links it keeps,
  whether its wording breaks a rule, whether the critique is content. `Persisted` and `Sent` say which account
  gets which draft's text, `Approve`, `PublishNow` and `Revise` are the reviewer, `Disconnect` removes an account
  (never the workflow's last one, without which a run ends before it plans).
* **`Adapters`**: `Publish` to `Return` are the remote calls of one adapter after another, from a table of
  what each does with text, tags, media and containers; `CallFails` refuses a call or loses its answer.
* **`Engagement`**: `FetchForPost` appends a snapshot, empty when the fetch failed and of some columns when
  one of Instagram's two answers was an error (`Answers`); `React`, `Unreact` are the people; `AggregateRead`,
  `AggregateWrite` are the two halves of the rollup.
* **`Recycling`**: `Execute` lists the candidates, `Republish` copies one, `EndRun` writes the policy; `Collect`
  replaces a post's metrics, its recycle count with them.
* **`Approval`**: policies and requests; the policy is looked up again at each decision.
* **`Experiments`**: `Begin` to `Started` are the awaits of `start()`; `Settle`, `Cancel` and the window.
* **`Knowledge`**: `StartIngest`, `IngestOne`, `IngestStops` of `knowledge.auto_ingest`, and users' documents.
* **`Inbox`**: `messages` are what people wrote or tapped, redelivered until answered; `Receive` is the
  webhook up to its decision, `Resume`, `Draft`, `Send`, `SaveRef`, `Close` the run inside the request;
  `GiveUp` is the provider's time-out, `Die` the process's end, `Edit` a change of the trigger's status or allowlist.
  `due` of a message says that it is to be delivered again, `barred` (history) that it came again when its
  chat was no longer on the list.

### Service (`Service`, `MCService`)

The same way: `Service` extends `Membership`, has an instance of each other part, and `MCService`
gives it small values.

* **`Membership`**: a request is the sequence of its SQL statements, each of which sees what
  is committed: `SignIn`, `FindMember`, `FindInvite`, `Claim`, `CountOrgs`, `Found`; `RemoveCheck` and
  `RemoveDelete`; `InviteCheck` and `InviteInsert`; `UpdateRole`, `Revoke`, `Leave`. `raced` is
  history: the organisations where two requests were busy together.
* **`AuditChain`**: `Begin`, `Insert` (the trigger links to the newest row it sees), `Commit`; changes and
  removals by hand. `NextPage` gives the newest rows each time, since no cursor of a row can be decoded (8).
* **`DataPrivacy`**: walks of `run_pending` list a table, delete row by row (`Left` is what a walk has
  still to visit of the table it is in), and meet writers whose update is a merge. A row that another row
  forbids to delete, or whose deletion fails, is left and noted (`late`).
* **`Breaker`**: `Guard`, `Promote`, `Invoke`, `Answer`, `RecordSuccess`/`RecordFailure` of overlapping calls.
* **`Buckets`**: tokens in parts, one action per take; the governor's sleepers.
* **`Spending`**: `ReadBudget`, `Check`, `Complete`, `Record`; a row is billed to the month it is recorded in.
* **`BeatTick`**: `List`, `Send`, `Record` of overlapping ticks, the task and users' edits of the row.
* **`SystemTicks`**: `Probe` takes the lock on some pooled connection, `RunKind` enqueues, `CloseConn` and
  `Restart` lose it.

`MC*` modules only give constants values and name the symmetries; the properties of a run's parts are
joined in `Service` and `Content`, where the theorems about them are stated.

## 4. Runs and bounds

| run | what it shows | bounds, and why they are enough |
|---|---|---|
| `queue_overlap` | fencing, overlap, budget, settled rows, settling, and `JobLeases` as a property | one job (the properties are per job; the proofs cover any number), three consumers in two processes, so that a sweep can make two of them overlap and a third claim; two attempts, so that one retry is left; two faults |
| `queue_keys` | races of two enqueuers, bulk cancel of two rows, retention | two rows and two enqueuers are the smallest race; one client key and the `retry:` keys |
| `queue_memory` | the in-memory queue | two rows, two consumers, two attempts, one slow handler |
| `run_clean` | the chain without faults | three drafts, the first and the last for one platform, for partial publishing and marks that meet; two accounts, any of which a publish phase may miss, listed so that the first one is not the first draft's; two revisions so that a key could repeat, two errors |
| `run_faults` | one crash, second delivery or lost row at any step, with one error | two drafts of one platform, so that the review posts of a place and the posts of a name differ; two accounts; no revision, which `run_stall` has; a second fault multiplies duplicates and finds no new kind |
| `run_stall` | a violation, see 8 | one draft, one revision, one redelivery |
| `inline` | reviews, signed and unsigned, overlapping requests, tasks | two requests in flight, quorum of two, three decisions, one revision, one task, one error |
| `items` | claims, links, releases | two runs of any modes over two items, one durable run, one error, one fault, one reset |
| `items_text`, `items_claims` | violations, see 8 | one run |
| `content` | the modules of content, see below | campaigns: two walks, overlapping or one after the other, over a chain of two steps, one of them added late, and a second campaign that delays a walk, two activations. Chats: three messages, two runs, two drafts, one trouble. Drafting: two accounts of one platform and one of another, which a profile denies, two blueprints or the fallback's three, one revision, one round of feedback, one account that leaves. Selection: three entries of two sources, one of rows, two runs. Engagement: a post of Instagram and one of a platform whose numbers have no column, three snapshots, one reaction to each that is taken back. The others: two of each actor, and as many events as a second one needs to meet the first |
| `service` | the modules of the service, see below | members: three people, two organisations, two requests at a time, five in all, two invitations. Audit: three rows of two writers, a window of two and pages of two, so that the oldest row falls out of both. Privacy: two walks over a workflow, its post and a channel, one editor. Breaker: two calls at a time, five in all, threshold two. Buckets: four takes in four ticks. Schedules: two ticks, one edit, two fires. System: two processes on two connections |

`service` has 4.3 million distinct states and takes under three minutes, `content` 4.6 million and as long.

What the joined properties of these two runs say, each with mutants of the code that
break it:

| property | parts | in words |
|---|---|---|
| `TypesHold` | all | each part's type invariant |
| `StoryOrder`, `RepeatsNeedSharing`, `StopHolds`, `CompletedMeansSent` | campaigns | a step starts only after those before it once completed; twice only when walks overlapped; a stopped campaign is written only by a walk that had it; completed means something was sent |
| `PublishingHolds` | targeting | the reviewed accounts are the published ones unless one changed; a directive never silences a run that has a pinned account |
| | drafting | `FlaggedNeedsHuman`, `DenylistHolds`, `RevisionsEnd`, `LinksKept`, `MediaFits`, `OncePerAccount`, `SeenIsSent` |
| | publishing | at most one copy more than lost answers; `publish` returns with a post (two adapters invent one); no unfinished container is published; media and length are lost only where an adapter is known for it |
| `LearningHolds` | engagement | scores fall only by an incomplete fetch or by reactions taken back; reactions give a score; the best score was true once |
| | recycling, knowledge | lines of copies end while counts are kept, one copy per run; a post becomes one document unless jobs overlap |
| `DecisionsHold` | selection | no item is out in two runs unless a Status write was lost; rows that stay consumed are out; rotation serves every source and a trace is complete, unless dates that do not compare sent the run to its fallback |
| | approval | an approval is earned; a rejection is last; an open request waits for somebody |
| | experiments | a closed experiment stays closed; the rows of a start stand for nothing sent |
| | inbox | a decision is of the draft's own chat (Telegram numbers aside); a tapped Revise is no feedback; a tap outlives its request until the allowlist bars its chat; the brief's picture stays |
| `MembershipHolds`, `JoinsByInvitation` | members | an administrator remains, no invitation is left over, a removed member stays out, unless requests overlapped; nobody joins uninvited |
| `LogTellsTheTruth` | audit | an untouched chain verifies unless appends overlapped; changes and removals show; a reader told that the log ends there was given all of it |
| `ErasureHolds` | privacy | an erasure leaves only rows written late or whose deletion failed, and what they refer to; a quiet cancellation holds |
| `GatesHold` | breaker, buckets, spending | failures open the circuit and half-open is on trial; a bucket hands out what it gained, sleepers on top; a budget is overshot only by the crowd |
| `ScheduleHolds` | schedules, system | starts are fires and fires keep the schedule unless writes overlap; one leader unless a session was lost; one job per period |

The exceptions in these properties (overlap, a lost write, an edit) name what the code
does not prevent.

Every bound is a constant used in a guard (`MaxFaults`, `MaxErrors`, `MaxDecisions`,
`MaxOverlaps`, `MaxResets`, `MaxWalks`, `MaxActivations`, `MaxRequests`, `MaxMessages`, `MaxTroubles`, `MaxEdits`,
`MaxClock` and their like) and counts events from outside the code; the code's own counters are not
cut. `MaxRevisions`, `MaxRecycle`, `MaxPerRun`, `MaxPerSource` and `Threshold` are the code's own limits. `CHECK_DEADLOCK FALSE` is set where the system may
come to rest: all jobs purged, or a run over. Symmetry is used only in runs without
liveness.

## 5. Fairness

`JobQueue!Fairness`: consumers poll for ever (`_consume_loop`), so `Dispatch` of each is weakly
fair; time passes, so a row becomes due and an orphan becomes stale; the sweep is a
periodic task of the pool; a supervisor restarts processes (`Start`). Nothing is assumed
of enqueuers, cancellations or retention. A consumer whose `fail()` raised is never
replaced, so `EventuallySettled` holds with fewer such faults than consumers: two faults,
three consumers. With three it fails, and in the code a pool without living
consumers still answers its health check.

`Campaigns` and the other modules of `content` and `service` have no fairness: requests, chat messages
and celery tasks come or do not, and what they promise is safety. Only the two systems
that poll for ever, the queue and the runs on top of it, promise progress.

`DurableRun!Fairness`: consumers run, and a job that nobody handles is delivered again. A slow
consumer's redelivery is not assumed.

## 6. What is proved

With TLAPS, for all values of the constants; the assumptions named are on constants only and
TLC evaluates each on a run. Liveness aside, the argument is the same everywhere: an inductive
invariant (`IInv`, or in the last two modules one named for its part, as `AuditInv`), and under it
one step per action.

**The queue** (`JobQueueProofs`), under `JobQueueAssumption` (priorities are numbers, consumers belong
to processes, `NoJob` is no job, `MaxAttempts` positive):

* `TypeCorrect`: the type invariant.
* `AttemptsFence`, `NoUnsweptOverlap`: `AttemptFence /\ OverlapOnlyAfterSweep`. `OverlapOnlyAfterSweep` alone
  is not inductive: a claim could meet a holder of the same attempt. The fence (holders of a
  job have different attempts, none newer than the row's, of a live row) is what
  the claim's counter gives. Most actions only release holds; two lemmas settle
  those (`FenceKept`, `OverlapKept`), and `Claim`, `FailWrite`, `SweepOrphans` and `Purge` are left.
* `KeysAreUnique`: the unique index decides each race of peek and insert.
* `SettledRowsStay` (Postgres only): the in-memory `cancel()` has no status condition.
* `AttemptsAreBounded`, for finitely many consumers: `fail()` reads the attempt in one
  statement and writes in another, so several consumers may each hold a stale
  decision to queue a job. The invariant counts: queued (0 or 1) plus holders is at
  most one plus recoveries, and attempts plus queued plus stale decisions is at most
  `MaxAttempts` plus recoveries.
* `QueueImplementsLeases` (Postgres only): each step is a step of `JobLeases` under the mapping at
  the end of `JobQueue`, or hidden. It needs the fence: an absent row has no holder.

**Durable runs** (`DurableRunProofs`), under `DurableRunAssumption` (there are targets, `None` is no key
and no phase, bounds are numbers), for any number of consumers, drafts, accounts and revisions. `IInv` has
two halves. `Basics` holds whatever fails: every copy of the row is of drafts that were written and
claims nothing published that is not out (`Records`), and a consumer that found an account has served the
drafts behind it (`Shape`). `Clean` is claimed while there are no faults.

* `TypeCorrect` follows from `Basics`, and so does the first half of `SuccessIsPosted`: success is written
  by a consumer past its last draft that has posted, and what is out stays out, for each name. That the posts
  for a name are on its platform holds as long as every publish phase found an account of it: a consumer has
  the accounts nobody missed (`Found`), so what it sends out is placed there (`Placed`, which needs
  `Found`). A draft whose account was missed is out on another platform and marked all the same.
* `OnePhase`: one active consumer or one queued job (`OneToken`) is not inductive, since a
  route that meets a used key would leave none. `Chain` orders the keys by `Order`, six times the revision
  plus the phase's rank: the token is at the last key reached, and its next key lies ahead.
* `ApprovedOnly`: a publish key is reached only with the row's drafts approved (`Ready`), and row and copy
  agree on drafts and revision whenever the copy is written back (`Same`).
* `RestDecided`: a phase that leaves no successor leaves an audited status (`Follows`, `Decided`).
* `DuplicatesAreCounted`: a potential that no step raises but a fault or an error. For
  each name, what is out plus the jobs that are pending plus the consumers that may yet publish for it
  is at most one plus faults plus errors, and likewise the review posts of each place in the list of drafts: two
  drafts of one name have two review posts and one publication; an audit counts twice, since a consumer that arrives late
  audits the status it finds and the one it ends with. The attempt showed that the bound on audits
  used before (one for each fault and error) was too small for more faults than the run tries;
  it is now twice the bound of the posts.
* `RunKeepsLeases`: the run's jobs use the queue only as `JobLeases` allows, which `JobQueue` implements. It
  needs that an absent job has no attempts (`Untried`).

**Inline runs** (`InlineRunProofs`), under `InlineRunAssumption` (`None` is no post, the quorum is positive,
bounds are numbers), for any number of requests, reviewers, accounts and tasks:

* `TypeCorrect`, with `Shape`: what a request holds at a place is what it took to get there.
* `RepeatsAreCounted`: `Counted` is a potential again. A post's load is what is live, the requests that
  may yet publish it, the requests that may yet go on with a run that waits (one, if it waits and
  nobody asks), and its queued tasks; it is at most one plus the overlaps plus the tasks' room.
* `QuorumIsKept`: sessions are written back whole, so votes get lost; they never get invented, since
  the approvers of a session and of each copy are among those who approved its batch (`Votings`). The
  sessions that the API or an unsigned reply approved are exempt: those decide without a tally.
* `ItemComesBack`, `VetoIsFinal`: without overlap one request works at a time, and on an ended run
  none; an ended run at rest has given its item back or keeps it for a post that is there (`Calm`).

**Source items** (`ItemLedgerProofs`), under `ItemLedgerAssumption` (`None` is no run and no post, the merged draft
is no item, accounts are finite, a run may choose an item), for any number of runs of any mode and items:

* `TypeCorrect`: a row names a run exactly while it is consumed.
* `UsesAreReleased`: every use is paid for (`UsesCounted`): the runs using an item, plus one while its row
  is not consumed, are at most one plus its releases and resets. What a run is at bounds what it uses (`Shape`).
* `NothingIsStranded`: inductive with `Owns`, that what a run kept is its own.
* `OutItemsStayConsumed`, one account per plugin: a post is linked before its run publishes (`Ready`), so that
  a release passes its item over (`Out`). With a second account it fails, see 8.
* `ClaimsAreOwned`: an action property from types alone; each release names its run in its WHERE.

**Campaigns** (`CampaignProofs`), under `CampaignsAssumption` (each step has a campaign, `NoStep` and
`NoCampaign` are none):

* `CampaignTypes`: the type invariant; it needs `Structure`, that a walk has steps of the
  campaign it is at and not the same one twice.
* `StoryIsOrdered`: a step may be running again when its successor starts, so "dependencies
  are completed" is not invariant; that they completed once is.
* `RepeatsAreShared`: a started step never becomes pending again (`Started`), so only a list
  made before it started can start it again; a step nobody shared is in one hand and
  not yet sent while awaited (`OneHand`). A campaign not created has no steps (`Unmade`), or
  creating it could reset one.
* `StopsHold`: `list_due` leaves a stopped campaign out, and only a walk that has it
  writes it back.
* `CompletionMeansSent`: `evaluate_completion` needs a step to judge, and a walk lists only campaigns that
  have one (`Listed`); a step that a walk runs has been sent and stays running unless shared (`Worked`);
  so a campaign judged completed has a completed step (`Judged`), also after more are added.

**Teams** (`MembershipProofs`), under `MembershipAssumption` (roles are the three of the code, `"none"` is
nobody), for any number of people, organisations, requests and invitations:

* `MembershipTypes`.
* `TeamsStayWhole`: each request acts on what an earlier statement read, so each reading is
  followed to its use: the administrator who acts still is one (`Ruled`), the row to be removed still is the one
  checked, in his own organisation or gone (`Aims`), the person invited is still no member (`Outside`), all but
  where requests met; one pending invitation per person and organisation (`Single`, the
  unique index); who was removed quietly has no invitation and no request beyond its first reads (`Out`).
* `NobodyJoinsUninvited`, an action property: an invitation about to be claimed is the claimant's and still
  pending unless two requests met (`Claims`).

**The services** (`ServiceProofs`), each part under the assumption of its module, then `Service` under
`ServiceAssumption`, which is their conjunction:

* Audit log. `UntouchedLogVerifies`: that every row is linked to the one before it is not inductive, since
  the link is fixed at the insert and the row's place at the commit. `Chained` says of a log without
  overlap that there is one draft at most, that it lies after every committed row and is linked to the
  newest. `ChangesShow`: a number is given once (`Numbered`), and a row changed by hand keeps the hash of
  its old text (`Seals`), whatever overlapped. `RemovalsShow` follows from the same invariant;
  `EndsAreTrue` needs `AuditInv`: a page that is not followed by another one is the whole log, and what was
  due is in the log or was changed or removed by hand (`Paging`). These also assume `NullIsNoHash`: no row's hash is
  NULL, which TLC cannot evaluate (a text may be anything) and its model value `NoHash` satisfies.
* Erasure. `ErasuresAreComplete` (`PrivacyInv`): a walk at table k has left of the tables before it only what
  is excused, and still has in hand what was there when it listed table k. `DataPrivacyAssumption` states
  what the foreign keys and `_DELETE_ORDER` give: every table is listed, after those whose rows keep
  its own, and what keeps a row is kept by none. `CancelledJobsRest` and the action property `JobsSettleOnce`:
  a job is in two hands only if shared, and a cancelled quiet one in none.
* Breaker. `OpensInTime`, `TrialEndsAtFailure` need each other: a failure reopens a half-open circuit
  because its counter still stands at the threshold. The cap on the counter lies at or above the
  threshold and hides nothing.
* Rates. `TenantsAreHeld`, `GovernorHolds` are a potential (`TenantPaid`, `GovernorPaid`): what was handed out
  plus what is in the bucket is at most the capacity plus the gain since the start. The rates have a
  greatest one.
* Budgets. `OvershootIsBounded`, `CostsAreBilledLate`: a completion counts against the month before it has
  a row (`SpendingHeld`), so the rows of a month plus those under way stay below the budget plus the
  crowd; finiteness of both is part of the invariant.
* Beat tick. `StartsStandForFires`, `SchedulesAreKept`: while ticks and writes do not overlap, one tick is at
  work, `fired` of the row and of the tick's copy is the time of the last recorded fire (`Stamped`), a
  sent fire is the last one (`SentIsLast`), and a `once` that fired is `manual` (`OnceIsOver`).
* System scheduler. `OneProcessLeads`: whoever is at work holds the lock. `OneJobPerPeriod`: keys name
  periods that have begun, and the jobs of a kind and an organisation map into those one to one.

**Content** (`ContentProofs`), each part under the assumption of its module, then `Content` under
`ContentAssumption`:

* Approval. `RejectionsAreFinal`, `ApprovalsAreEarned`, `OpenRequestsWait`: a request whose policy nobody
  edited has passed the steps before its index, and all of them once approved (`Climbed`), was
  decided by people its steps name (`Named`), and its policy is the one it was opened with (`Stands`), which
  `OneRow` lets the next decision find. `advance()` moves to the least step that asks for more; that
  numbers have a least one comes from the library's theorem on well-founded relations.
* Knowledge base. `PostsAreIngestedOnce`: a post in hand that has a document, or that two jobs have in
  hand, is known to be shared (`InHandOnce`).
* Engagement. `ScoresFallOnFailures` (of any two rows of the rollup), `ReactionsAreCounted`,
  `BestScoresWereTrue`: what a snapshot counts plus what had been taken back by then only grows, and so does
  the latter (`ShotsGrow`), and each row, written or in the hand of an aggregation, scores the newest
  snapshot it had seen (`RowsTold`); more reactions never score less in a complete snapshot, since a
  score is the count times a number of columns, and no answer has more columns.
* Recycling. `RecycledLinesEnd`, `OneCopyARun`: what a run has in hand are copies of different posts it has not
  made yet, below the limit (`InRun`), and a copy counts one more than its parent while no count is lost.
* Experiments. `ClosedExperimentsStay`, `RowsStandForNothing`: the rows of a variant and the calls that
  may still add one are at most the calls that were made (`Owed`).
* Targeting. `RunsPostWhatWasReviewed`, `RunsAreNotSilent`: until an account fails or recovers, the posts in
  review are of the accounts the directive stands for (`AsResolved`).
* Chats. `ChatsDecideTheirOwn`, `ReviseAsksFirst`, `TapsSurviveDeaths`, `BriefsKeepTheirPicture`. `InboxInv` follows
  a decision from its message to its end: numbers of a chat grow and every reference was said in
  it (`Referring`), a request's session is its own and has no number before it is sent (`AtWork`, `Apart`),
  and a decided session has been acted upon or its message is due or barred (`Verdicts`).
* Selection. `ItemsAreNeverTwice`: an item is out once and then claimed by a run that is over
  (`ItemsAreOutOnce`), and a row that is out is Ready no more (`RowsLoseReady`), as the loaded ones are until
  their run ends (`LoadedAreReady`). `ClaimedRowsAreOut`, `RotationIsFair`, `TracesTellAll`. Choosing "the n
  newest" is by counting the newer ones, which the library's cardinality theorems settle for any source.
* Drafting. `FlaggedWaitsForPeople`, `DeniedPlatformsGetNothing`, `AttemptsEnd`, `DraftsKeepLinksAndMedia`,
  `AccountsGetOnePost`, `WhatIsSeenIsSent`. `DraftingInv` says what each phase may rely on: what a plan
  attaches fits (`PlanFits`), what is denied was dropped (`NothingDenied`), a post is of a draft of its
  account's platform (`PostsOfDrafts`), what is live was such a post, with its own text or the last of its
  platform (`LiveTexts`), and without a person nothing flagged is (`Unflagged`).
* Adapters. `PostsAreOnce`, `ContainersFinishFirst`, `MediaIsKept`, `TextsKeepTheirLength`, for each adapter of the
  table: a call that is past its last remote call has posted, and one before it only for a lost
  answer (`CallsInOrder`).

**The joined specifications.** `ServiceTypes`, `ServiceTeamsStayWhole`, `ServiceAdmitsByInvitation`,
`LogsTellTheTruth`, `ErasuresHold`, `GatesAlwaysHold`, `SchedulesHold` of `Service`, and `ContentTypes`,
`PublishingAlwaysHolds`, `LearningAlwaysHolds`, `DecisionsAlwaysHold` of `Content`, are about the very formulas
the runs `service` and `content` check. `part` never changes (`PartStays`), so a behaviour is either
never about a part or one of that part's specification throughout (`MembersPart`, `AuditPart`,
`PublishingPart` and so on).

**What the attempts showed.** Three properties were false beyond the bounds of their run and now say what
the code does. A tapped decision did not always outlive its request: the process dies, the chat is taken
off the allowlist, and the provider's second delivery is dropped (three troubles; hence `barred` in
`TapsAreKept`). Rotation served every source only because the run had fewer items than the five that the
fallback takes (hence `heard.raised` in `RotationServesAll` and `TraceIsComplete`). And the bound on audits of
`DurableRun` was too small for more faults than its run tries.

## 7. Only model-checked

* Liveness, which the prover cannot do: `EventuallySettled` of the queue and `EventuallyDecided` of the run.
* The three properties that runs refute (section 8), and the promises named there without a run.
* The in-memory queue, except what is proved for both backends (the fence, the overlap, the keys, the
  budget): it does not implement `JobLeases`, see `SettledRowsStay` above.

## 8. Where code and documentation disagree

With a run (quoted in `PROJECT.json`):

* `run_stall`: a second delivery of an early phase writes back the whole row with
  `rerun_count` 0; the next critique reuses a key, the job is deduplicated, and the run
  stays in progress for ever.
* `items_text`: automatic publishing with a post per item (or CMS rows) sends the last
  item's text in every post.
* `items_claims`: the durable path never claims an item, so each run can select what
  the one before published.

Seen while modelling, without a run of their own. Where a definition states the
promise it is named; TLC refutes it on the instance of its part: `PagesDoNotRepeat` with three rows and
pages of two, `NewIsOffered` with three entries of an S3 source, `PictureStays` with three drafts of a run, and
`MinGapIsKept` with six minutes and a gap of three.

*Runs, reviews and the queue.* An approval publishes every post of the run, the drafts a reviewer
asked to revise included (`OneDraftPerAccount` of `InlineRun`); `_execute_cms` makes a draft per row
and account and a post per draft and account, so n accounts of a platform make n*n
posts of a row; two overlapping walks start a campaign step twice, and a pause,
cancellation or deletion during a walk is overwritten when the walk ends; a campaign
step whose dependency failed stays pending for ever; a crash between an adapter's
call and the save of the run publishes again (`DuplicatesNeedFaults` bounds it); after a
partial retry `post_ids` lacks the posts of the first attempt, which get no engagement
fetch; `complete()` and `fail()` write over a cancellation; the session of a revision has
no exclusions and a quorum of one (`docs/SYSTEM_INVARIANTS.md:386`); an adapter error
while an approved run publishes leaves the run in `publishing`; the dead letter marks a
post failed that was published meanwhile; with two accounts on a platform an item is
released although one of its posts is out, if the linked one failed; in a
bulk cancel an empty `job_ids` list means every job; the in-memory ledger
never releases a linked item.

*Agents.* The durable runner says "Re-execute with the critique notes" (`workflow_durable_runner.py:720`) and
builds the executor's state without them (622-626). Durable runs and reruns with feedback
do not make the target platforms distinct (864-877, `workflow_service.py:1475`), so the fallback plan
writes one draft per account, and an inline rerun posts each of them to each account. A rerun
with feedback loads all items of the sources, not those the run had chosen. A durable run publishes the first
draft of a platform to the first of its accounts only (763, 1031), or to the first account of the run when it has none of that platform
(1036), and counts it as published on its own. The first Revise forgets the
attempts the critique used. The branch `rerun_exhausted` is never taken (`RevisionsEnd`). The denylist of
`tailor_agent.py:66` names a profile that has no scan, and applies to durable runs only. A video platform
without source media is given a generated image or the mock's placeholder. A link that is a prefix of another
one in the text counts as present. A plan that the tailor empties ends SUCCEEDED.

*Sources and targets.* Only the first ten entries of a source are ever offered (`NewIsOffered`), and
one unreadable entry ends the fetch. Naive and aware dates together make `sorted` raise: an inline run
falls back to the first five items, a durable one fails at each retry. A lost Status write posts a
row again (`NoDoublePost`, against `notion.py:503`). Of items chosen with rows the others are claimed and
dropped. Quiet sources are not heard (`QuietSourcesHeard`). The fallback of an empty selection brings excluded
accounts back (`ExclusionHolds`, against `docs/TARGETING.md:18`). A post whose account failed before the
approval stays in review in a run that SUCCEEDED; `run_now` only logs its `target_override`.

*Chats.* Message numbers are looked up in the whole channel, though Telegram numbers each chat: a
reply decides another chat's draft, or meets two sessions and is redelivered for ever. A typed
answer that is redelivered starts a run or decides another draft. A tap on Revise is understood on Telegram
only. The picture of a first revision is lost by the second (`PictureStays`, against `webhooks.py:175`). `SaveRef` and
`Close` write a decision over that came while the draft was sent.

*Publishing and learning.* Medium and TikTok return an invented id; media are dropped
silently where an adapter has no code for them; an empty snapshot of a failed fetch zeroes
a score; the rollup's DELETE (`engagement/service.py:191`) is never committed; four adapters report names that no column
has (`ReactionsCount`). `start()` of an experiment calls a registry entry as if it were an adapter, so no
variant is ever published (`StartPublishes`). A post is reused without limit (`ReuseIsLimited`). Overlapping
ingest jobs make two documents of a post, and documents added without embeddings never get any.

*Audit log.* The cursor of a page holds a `bigserial` id (`001_init.sql:161`), which `_decode_cursor` reads as a
UUID (`audit_log.py:430`); the error is swallowed and the cursor dropped, so the second page is the first one
again (`PagesDoNotRepeat`, against `audit_log.py:226`), no page shows an older row, and a log longer than a page
has no end.

*Gates and schedules.* "Allow ONE call through" of the half-open breaker does not hold (`OneProbe`), nor
does an account's rate when publishers sleep together (`AccountWithinBudget`). An ADAPTIVE schedule is never
due, since its query runs `asyncio.run` inside a running loop; the write that records a fire undoes an edit;
an OPTIMAL slot is cut to the hour and breaks `min_gap` (`MinGapIsKept`). `jobs.cleanup` is enqueued for an
organisation that does not exist and refused by a foreign key (`CleanupIsEnqueued`). One approver makes a
quorum (`QuorumIsPeople`), and an optional first step that names nobody strands its request. A reply from WhatsApp or
Instagram decides alone whatever the quorum (`review_service.py:163`).

## 9. What is not modelled

* Scheduling by performance and analytics: statistics over metrics, without state between calls.
* Media import and generation, LLM adapters, OAuth and the adapters' wire formats: HTTP calls, which
  appear as outcomes (done, refused, answer lost).
* Platform, source and plugin administration: create, read, update and delete of single rows. Where
  a deletion matters (accounts, campaigns, policies, triggers, documents) it is an action.
* Hashtags, brand voice, localization, prompts, message layout: text that no property is about.
* Persistence: rows are read and written whole, as `session.merge` does; mapping and migrations are not modelled.
* Configuration, authentication beyond who belongs where, metrics, logging; the user interface, whose requests are
  the models' inputs.
* Of modelled components: edits and deletion of posts in `InlineRun`; revisions and the in-memory
  ledger in `ItemLedger`; a restart, which empties the in-memory campaigns, in `Campaigns`; fetching of comments
  in `Engagement`; `mark_skipped()`, which has no caller.
