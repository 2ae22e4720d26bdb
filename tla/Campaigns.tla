----------------------------- MODULE Campaigns -----------------------------
(***************************************************************************)
(* Campaigns (services/campaign_service.py, domain/entities/campaign.py):  *)
(* walkers dispatch the due steps of every active campaign while users     *)
(* create, extend, activate, pause, cancel and delete campaigns.  The      *)
(* repository is the in-memory one in every deployment (api/deps.py) and   *)
(* hands out the stored object itself, so that a walker and a user change  *)
(* the same campaign; a walker is suspended only while it loads the        *)
(* workflow of a step and while the workflow runs.                         *)
(***************************************************************************)
EXTENDS Naturals, FiniteSets

CONSTANTS
    Campaign,        \* campaigns
    Step,            \* steps, each of one campaign
    Home,            \* the campaign of each step
    After,           \* depends_on of each step
    Opening,         \* the steps a campaign is created with; others are added
    Walker,          \* concurrent calls of execute_due_steps
    MaxPerCampaign,  \* its argument of that name
    MaxWalks,        \* bound on calls of execute_due_steps
    MaxActivations,  \* bound on activations
    NoStep, NoCampaign

ASSUME CampaignsAssumption ==
    /\ Home \in [Step -> Campaign] /\ After \in [Step -> SUBSET Step]
    /\ Opening \subseteq Step
    /\ MaxPerCampaign \in Nat \ {0}
    /\ MaxWalks \in Nat /\ MaxActivations \in Nat
    /\ NoStep \notin Step /\ NoCampaign \notin Campaign

VARIABLES
    status,       \* status of each campaign
    stored,       \* the campaigns in the repository
    step,         \* status of each step
    elapsed,      \* the steps whose scheduled_for has passed
    walk,         \* what each walker is at
    walks, activations,
    sent,         \* history: how often each step's workflow was started
    done,         \* history: the steps that have completed at some time
    shared,       \* history: the steps two walkers had in hand at a time
    stopped       \* history: campaigns stopped while no walker had them

vars == <<status, stored, step, elapsed, walk, walks, activations,
          sent, done, shared, stopped>>

CampaignStatus == {"absent", "draft", "scheduled", "running", "paused",
                   "completed", "cancelled", "failed"}
StepStatus == {"absent", "pending", "running", "completed", "failed"}
\* Mutant of Active: paused campaigns are walked too.
ActiveOrPaused == {"scheduled", "running", "paused"}
Active == {"scheduled", "running"}
TerminalStep == {"completed", "failed"}

\* now: the steps elapsed when the walk began; todo: the due campaigns not yet
\* reached; left: the due steps of its campaign not yet reached.
Walks == [pc : {"idle", "between", "loading", "running"}, now : SUBSET Step,
          todo : SUBSET Campaign, at : Campaign \cup {NoCampaign},
          left : SUBSET Step, step : Step \cup {NoStep}]
IdleWalk == [pc |-> "idle", now |-> {}, todo |-> {}, at |-> NoCampaign,
             left |-> {}, step |-> NoStep]

\* Among the types: a walker that is busy with a step is at its campaign.
TypeOK ==
    /\ status \in [Campaign -> CampaignStatus]
    /\ stored \subseteq Campaign
    /\ step \in [Step -> StepStatus]
    /\ elapsed \subseteq Step
    /\ walk \in [Walker -> Walks]
    /\ \A w \in Walker : walk[w].pc \in {"loading", "running"} =>
          walk[w].step \in Step /\ walk[w].at = Home[walk[w].step]
    /\ walks \in Nat /\ activations \in Nat
    /\ sent \in [Step -> Nat] /\ done \subseteq Step /\ shared \subseteq Step
    /\ stopped \subseteq Campaign

Init ==
    /\ status = [c \in Campaign |-> "absent"]
    /\ stored = {}
    /\ step = [s \in Step |-> "absent"]
    /\ elapsed = {}
    /\ walk = [w \in Walker |-> IdleWalk]
    /\ walks = 0 /\ activations = 0
    /\ sent = [s \in Step |-> 0]
    /\ done = {} /\ shared = {} /\ stopped = {}

StepsOf(c) == {s \in Step : Home[s] = c /\ step[s] # "absent"}

\* Mutant of DepsMet: a dependency that failed will do.
DepsMetByFailure(s) == \A d \in After[s] : Home[d] = Home[s] /\ step[d] \in TerminalStep
DepsMet(s) == \A d \in After[s] : Home[d] = Home[s] /\ step[d] = "completed"

\* Mutant of DueSteps: a walk takes the steps of other campaigns along.
DueStepsOfAll(c, now) ==
    {s \in Step : step[s] = "pending" /\ s \in now /\ DepsMet(s)}
\* Mutant of DueSteps: failed steps are tried again.
DueStepsFailed(c, now) ==
    {s \in StepsOf(c) : step[s] \in {"pending", "failed"} /\ s \in now /\ DepsMet(s)}
\* Pending steps whose time has come and whose dependencies are completed.
DueSteps(c, now) ==
    {s \in StepsOf(c) : step[s] = "pending" /\ s \in now /\ DepsMet(s)}

\* The loop stops after max_per_campaign steps, whatever their outcome; which of
\* the due steps come first is left open.
FirstOf(due) ==
    {T \in SUBSET due : Cardinality(T) = IF Cardinality(due) < MaxPerCampaign
                                         THEN Cardinality(due) ELSE MaxPerCampaign}

\* Mutant of Verdict: failed steps decide, whatever completed or not.
VerdictOptimistic(now, c, st) ==
    IF \E s \in StepsOf(c) : st[s] \notin TerminalStep THEN now ELSE "completed"
\* evaluate_completion of a campaign in status now, with the steps as st has them.
Verdict(now, c, st) ==
    LET Some(r) == \E s \in StepsOf(c) : st[s] = r IN
    IF \E s \in StepsOf(c) : st[s] \notin TerminalStep THEN now
    ELSE IF Some("failed") /\ ~Some("completed") THEN "failed" ELSE "completed"

\* The steps a walker will still dispatch or is dispatching, and its campaigns.
InHand(w) == walk[w].left \cup ({walk[w].step} \ {NoStep})
Holds(w, c) == c \in walk[w].todo \/ walk[w].at = c

-----------------------------------------------------------------------------
\* A walker begins: the active campaigns with due steps, at this moment.
Begin(w) ==
    /\ walk[w].pc = "idle" /\ walks < MaxWalks
    /\ walks' = walks + 1
    /\ walk' = [walk EXCEPT ![w] =
          [IdleWalk EXCEPT !.pc = "between", !.now = elapsed,
              !.todo = {c \in stored : status[c] \in Active /\ DueSteps(c, elapsed) # {}}]]
    /\ UNCHANGED <<status, stored, step, elapsed, activations, sent, done, shared, stopped>>

\* A walker turns to the next campaign; its steps are chosen now, its status
\* is not looked at again.  (The code is not suspended between two campaigns.)
Began(c) == IF status[c] = "scheduled" THEN "running" ELSE status[c]

Turn(w, c) ==
    /\ walk[w].pc = "between" /\ c \in walk[w].todo
    /\ \E chosen \in FirstOf(DueSteps(c, walk[w].now)) : \E s \in chosen :
          /\ walk' = [walk EXCEPT ![w].pc = "loading", ![w].todo = @ \ {c},
                          ![w].at = c, ![w].left = chosen \ {s}, ![w].step = s]
          /\ shared' = shared \cup (chosen \cap UNION {InHand(v) : v \in Walker \ {w}})
    /\ status' = [status EXCEPT ![c] = Began(c)]
    /\ UNCHANGED <<stored, step, elapsed, walks, activations, sent, done, stopped>>

\* Another walk has taken its steps meanwhile: the campaign is judged at once.
TurnAway(w, c) ==
    /\ walk[w].pc = "between" /\ c \in walk[w].todo
    /\ DueSteps(c, walk[w].now) = {}
    /\ status' = [status EXCEPT ![c] = Verdict(Began(c), c, step)]
    /\ stored' = stored \cup {c}
    /\ walk' = [walk EXCEPT ![w].todo = @ \ {c}]
    /\ UNCHANGED <<step, elapsed, walks, activations, sent, done, shared, stopped>>

\* No campaign is left and the walk returns.
Return(w) ==
    /\ walk[w].pc = "between" /\ walk[w].todo = {}
    /\ walk' = [walk EXCEPT ![w] = IdleWalk]
    /\ UNCHANGED <<status, stored, step, elapsed, walks, activations, sent, done,
                   shared, stopped>>

\* The step in hand ends as st; the next one follows, or the campaign is
\* judged and written back, over whatever happened to it meanwhile.
Advance(w, st) ==
    LET c == walk[w].at IN
    /\ step' = st
    /\ \/ \E s \in walk[w].left :
          /\ walk' = [walk EXCEPT ![w].pc = "loading", ![w].step = s, ![w].left = @ \ {s}]
          /\ UNCHANGED <<status, stored>>
       \/ /\ walk[w].left = {}
          /\ status' = [status EXCEPT ![c] = Verdict(status[c], c, st)]
          /\ stored' = stored \cup {c}
          /\ walk' = [walk EXCEPT ![w].pc = "between", ![w].step = NoStep,
                          ![w].at = NoCampaign]

\* The workflow of the step is found and its run begins ...
Start(w) ==
    /\ walk[w].pc = "loading"
    /\ step' = [step EXCEPT ![walk[w].step] = "running"]
    /\ sent' = [sent EXCEPT ![walk[w].step] = @ + 1]
    /\ walk' = [walk EXCEPT ![w].pc = "running"]
    /\ UNCHANGED <<status, stored, elapsed, walks, activations, done, shared, stopped>>

\* ... or it no longer exists.
WorkflowMissing(w) ==
    /\ walk[w].pc = "loading"
    /\ Advance(w, [step EXCEPT ![walk[w].step] = "failed"])
    /\ UNCHANGED <<elapsed, walks, activations, sent, done, shared, stopped>>

\* run_now returns a run, which may still wait for its review ...
RunReturns(w) ==
    /\ walk[w].pc = "running"
    /\ Advance(w, [step EXCEPT ![walk[w].step] = "completed"])
    /\ done' = done \cup {walk[w].step}
    /\ UNCHANGED <<elapsed, walks, activations, sent, shared, stopped>>

\* ... or raises.
RunRaises(w) ==
    /\ walk[w].pc = "running"
    /\ Advance(w, [step EXCEPT ![walk[w].step] = "failed"])
    /\ UNCHANGED <<elapsed, walks, activations, sent, done, shared, stopped>>

-----------------------------------------------------------------------------
\* What users do; each is one step, for the repository never suspends.
UserFrame == UNCHANGED <<elapsed, walk, walks, sent, done, shared>>
AtRest(c) == \A w \in Walker : ~Holds(w, c)

Create(c) ==
    /\ status[c] = "absent"
    /\ status' = [status EXCEPT ![c] = "draft"]
    /\ stored' = stored \cup {c}
    /\ step' = [s \in Step |-> IF Home[s] = c /\ s \in Opening THEN "pending" ELSE step[s]]
    /\ UNCHANGED <<activations, stopped>> /\ UserFrame

AddStep(s) ==
    /\ Home[s] \in stored /\ step[s] = "absent"
    /\ step' = [step EXCEPT ![s] = "pending"]
    /\ UNCHANGED <<status, stored, activations, stopped>> /\ UserFrame

\* Any campaign with steps, also a finished, cancelled or running one.
Activate(c) ==
    /\ c \in stored /\ StepsOf(c) # {} /\ activations < MaxActivations
    /\ activations' = activations + 1
    /\ status' = [status EXCEPT ![c] = "scheduled"]
    /\ stopped' = stopped \ {c}
    /\ UNCHANGED <<stored, step>> /\ UserFrame

Stopped(c) == stopped' = IF AtRest(c) THEN stopped \cup {c} ELSE stopped

Pause(c) ==
    /\ c \in stored /\ status[c] \in Active
    /\ status' = [status EXCEPT ![c] = "paused"]
    /\ Stopped(c) /\ UNCHANGED <<stored, step, activations>> /\ UserFrame

Cancel(c) ==
    /\ c \in stored
    /\ status' = [status EXCEPT ![c] = "cancelled"]
    /\ Stopped(c) /\ UNCHANGED <<stored, step, activations>> /\ UserFrame

Delete(c) ==
    /\ c \in stored
    /\ stored' = stored \ {c}
    /\ Stopped(c) /\ UNCHANGED <<status, step, activations>> /\ UserFrame

TimePasses(s) ==
    /\ s \notin elapsed
    /\ elapsed' = elapsed \cup {s}
    /\ UNCHANGED <<status, stored, step, walk, walks, activations, sent, done,
                   shared, stopped>>

Next ==
    \/ \E w \in Walker, c \in Campaign : Turn(w, c) \/ TurnAway(w, c)
    \/ \E w \in Walker : \/ Begin(w) \/ Return(w) \/ Start(w) \/ WorkflowMissing(w)
                         \/ RunReturns(w) \/ RunRaises(w)
    \/ \E c \in Campaign : Create(c) \/ Activate(c) \/ Pause(c) \/ Cancel(c) \/ Delete(c)
    \/ \E s \in Step : AddStep(s) \/ TimePasses(s)

Spec == Init /\ [][Next]_vars

-----------------------------------------------------------------------------
\* A step is dispatched only after every step it depends on has completed
\* once, however walks overlap (the "internal causality" of campaign.py:2-3).
StoryOrder == \A s \in Step : sent[s] > 0 => After[s] \subseteq done

\* A step is dispatched twice only when two walks had it in hand at a time:
\* repeated calls of run-due, re-activation, stops and new steps never do it.
RepeatsNeedSharing == \A s \in Step : sent[s] > 1 => s \in shared

\* A campaign paused, cancelled or deleted while no walk has it stays so until
\* it is activated, and no walk is at any of its steps.
StopHolds ==
    \A c \in stopped :
       /\ status[c] \in {"paused", "cancelled"} \/ c \notin stored
       /\ \A w \in Walker : walk[w].at # c

\* A campaign that no walk has and that shares no step is COMPLETED only when a
\* step of it completed (evaluate_completion, campaign.py:162-181).
CompletedMeansSent ==
    \A c \in Campaign :
       status[c] = "completed" /\ AtRest(c) /\ StepsOf(c) \cap shared = {} =>
          \E s \in StepsOf(c) : step[s] = "completed"

=============================================================================
