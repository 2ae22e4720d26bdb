--------------------------- MODULE CampaignProofs ---------------------------
(***************************************************************************)
(* What holds of campaigns for any number of campaigns, steps and walks:   *)
(* the story is told in order, a step is repeated only by overlapping      *)
(* walks, a campaign stopped at rest stays stopped, and one that shares no *)
(* step is completed only by a step that completed.                        *)
(***************************************************************************)
EXTENDS Campaigns, TLAPS

\* A walker is busy with one step of its campaign and has others left, or it
\* is between campaigns and has nothing in hand.
Structure ==
    \A w \in Walker :
       /\ walk[w].pc \in {"idle", "between"} =>
             walk[w].at = NoCampaign /\ walk[w].left = {} /\ walk[w].step = NoStep
       /\ walk[w].pc \in {"loading", "running"} =>
             /\ walk[w].step \in Step /\ walk[w].step \notin walk[w].left
             /\ walk[w].at = Home[walk[w].step]
             /\ \A s \in walk[w].left : Home[s] = walk[w].at

\* What is in hand has its dependencies behind it.
Story ==
    /\ \A s \in Step : step[s] = "completed" => s \in done
    /\ \A w \in Walker : \A s \in InHand(w) : After[s] \subseteq done
    /\ StoryOrder

\* A campaign that was not created has no steps and is nowhere.
Unmade ==
    \A c \in Campaign : status[c] = "absent" =>
       /\ c \notin stored /\ c \notin stopped
       /\ \A w \in Walker : c \notin walk[w].todo
       /\ \A s \in Step : Home[s] = c => step[s] = "absent"

\* A step that was started is not pending again, one in hand exists.
Started ==
    /\ \A s \in Step : sent[s] > 0 => step[s] \notin {"absent", "pending"}
    /\ \A w \in Walker : \A s \in InHand(w) : step[s] # "absent"

\* A walk is about to start a step.
Awaits(w, s) == s \in walk[w].left \/ (walk[w].pc = "loading" /\ walk[w].step = s)

\* A step that no two walks had in hand is in hand of one walk at most, which
\* has not started it before.
OneHand ==
    \A s \in Step \ shared :
       /\ sent[s] <= 1
       /\ \A w \in Walker : Awaits(w, s) => sent[s] = 0
       /\ \A v, w \in Walker : s \in InHand(w) /\ s \in InHand(v) => v = w

\* A stopped campaign is in nobody's hands.
Stops ==
    \A c \in stopped :
       /\ status[c] \in {"paused", "cancelled"} \/ c \notin stored
       /\ \A w \in Walker : ~Holds(w, c)

\* A walk lists campaigns that have steps.
Listed == \A w \in Walker : \A c \in walk[w].todo : StepsOf(c) # {}

\* A step that completed was started, and so was the one a walk runs, which
\* nobody else touches unless it is shared.
Worked ==
    /\ \A s \in Step : step[s] = "completed" => sent[s] > 0
    /\ \A w \in Walker : walk[w].pc = "running" =>
          /\ sent[walk[w].step] > 0
          /\ walk[w].step \notin shared => step[walk[w].step] = "running"

\* A completed campaign that shares no step has a step that completed, also
\* while walks have the campaign.
Judged ==
    \A c \in Campaign :
       status[c] = "completed" /\ StepsOf(c) \cap shared = {} =>
          \E s \in StepsOf(c) : step[s] = "completed"

IInv == /\ TypeOK /\ Structure /\ Story /\ Unmade /\ Started /\ OneHand /\ Stops
        /\ Listed /\ Worked /\ Judged

\* The record a walker becomes, action by action.
LEMMA WalkRecords ==
  ASSUME CampaignsAssumption, NEW r \in Walks
  PROVE  /\ IdleWalk \in Walks
         /\ r.now \subseteq Step /\ r.todo \subseteq Campaign /\ r.left \subseteq Step
         /\ r.at \in Campaign \cup {NoCampaign} /\ r.step \in Step \cup {NoStep}
         /\ \A n \in SUBSET Step, d \in SUBSET Campaign :
               [IdleWalk EXCEPT !.pc = "between", !.now = n, !.todo = d] \in Walks
         /\ \A d \in SUBSET Campaign : [r EXCEPT !.todo = d] \in Walks
         /\ \A d \in SUBSET Campaign, c \in Campaign, l \in SUBSET Step, s \in Step :
               [r EXCEPT !.pc = "loading", !.todo = d, !.at = c, !.left = l, !.step = s] \in Walks
         /\ \A l \in SUBSET Step, s \in Step :
               [r EXCEPT !.pc = "loading", !.step = s, !.left = l] \in Walks
         /\ [r EXCEPT !.pc = "between", !.step = NoStep, !.at = NoCampaign] \in Walks
         /\ [r EXCEPT !.pc = "running"] \in Walks
BY DEF Walks, IdleWalk, CampaignsAssumption

\* A verdict is a status: the old one or an end.
LEMMA VerdictStatus ==
  ASSUME NEW now \in CampaignStatus, NEW c \in Campaign, NEW st
  PROVE  /\ Verdict(now, c, st) \in CampaignStatus
         /\ Verdict(now, c, st) \in {now, "failed", "completed"}
BY DEF Verdict, CampaignStatus

\* Due steps are pending steps of the campaign with completed dependencies.
LEMMA Due ==
  ASSUME NEW c \in Campaign, NEW now, NEW chosen \in FirstOf(DueSteps(c, now)),
         NEW s \in chosen
  PROVE  /\ chosen \subseteq Step /\ s \in Step /\ Home[s] = c /\ step[s] = "pending"
         /\ \A d \in After[s] : step[d] = "completed"
BY DEF FirstOf, DueSteps, StepsOf, DepsMet

\* The types of what Advance writes.
LEMMA AdvanceTypes ==
  ASSUME CampaignsAssumption, TypeOK, Structure, NEW w \in Walker,
         walk[w].pc \in {"loading", "running"},
         NEW r \in {"completed", "failed"},
         Advance(w, [step EXCEPT ![walk[w].step] = r])
  PROVE  /\ status' \in [Campaign -> CampaignStatus] /\ stored' \subseteq Campaign
         /\ step' \in [Step -> StepStatus]
         /\ walk' \in [Walker -> Walks]
         /\ \A v \in Walker \ {w} : walk'[v] = walk[v]
         /\ \/ /\ walk'[w].pc = "loading" /\ walk'[w].step \in walk[w].left
               /\ walk'[w].at = walk[w].at /\ walk'[w].todo = walk[w].todo
               /\ walk'[w].left = walk[w].left \ {walk'[w].step}
               /\ UNCHANGED <<status, stored>>
            \/ /\ walk'[w].pc = "between" /\ walk'[w].left = {} /\ walk'[w].step = NoStep
               /\ walk'[w].at = NoCampaign /\ walk'[w].todo = walk[w].todo
               /\ \A c \in Campaign \ {walk[w].at} : status'[c] = status[c]
               /\ stored' = stored \cup {walk[w].at}
               /\ status'[walk[w].at] \in {status[walk[w].at], "failed", "completed"}
<1> DEFINE c == walk[w].at
           st == [step EXCEPT ![walk[w].step] = r]
<1>1. /\ c \in Campaign /\ walk[w] \in Walks /\ walk[w].step \in Step
      /\ walk[w].left \subseteq Step
  <2>1. walk[w] \in Walks /\ walk[w].step \in Step /\ walk[w].at = Home[walk[w].step]
    BY DEF TypeOK, Structure
  <2>2. walk[w].left \subseteq Step
    BY <2>1 DEF Walks
  <2>3. QED BY <2>1, <2>2 DEF CampaignsAssumption
<1>2. step' \in [Step -> StepStatus]
  BY DEF Advance, TypeOK, StepStatus
<1>3. CASE walk[w].left # {} /\ UNCHANGED <<status, stored>>
           /\ \E s \in walk[w].left : walk' =
                 [walk EXCEPT ![w].pc = "loading", ![w].step = s, ![w].left = @ \ {s}]
  <2>1. PICK s \in walk[w].left : walk' =
                 [walk EXCEPT ![w].pc = "loading", ![w].step = s, ![w].left = @ \ {s}]
    BY <1>3
  <2>2. walk' = [walk EXCEPT ![w] =
           [walk[w] EXCEPT !.pc = "loading", !.step = s, !.left = walk[w].left \ {s}]]
    BY <2>1, <1>1 DEF TypeOK
  <2>3. walk' \in [Walker -> Walks]
    BY <2>2, <1>1, WalkRecords DEF TypeOK
  <2>4. QED BY <1>2, <1>3, <2>2, <2>3, <1>1 DEF TypeOK, Walks
<1>4. CASE /\ walk[w].left = {}
           /\ status' = [status EXCEPT ![c] = Verdict(status[c], c, st)]
           /\ stored' = stored \cup {c}
           /\ walk' = [walk EXCEPT ![w].pc = "between", ![w].step = NoStep,
                           ![w].at = NoCampaign]
  <2>1. walk' = [walk EXCEPT ![w] =
           [walk[w] EXCEPT !.pc = "between", !.step = NoStep, !.at = NoCampaign]]
    BY <1>4, <1>1 DEF TypeOK
  <2>2. walk' \in [Walker -> Walks]
    BY <2>1, <1>1, WalkRecords DEF TypeOK
  <2>3. /\ status' \in [Campaign -> CampaignStatus]
        /\ \A d \in Campaign \ {c} : status'[d] = status[d]
        /\ status'[c] \in {status[c], "failed", "completed"}
    <3>1. /\ Verdict(status[c], c, st) \in CampaignStatus
          /\ Verdict(status[c], c, st) \in {status[c], "failed", "completed"}
      BY <1>1, VerdictStatus DEF TypeOK
    <3> HIDE DEF st
    <3>2. QED BY <1>1, <1>4, <3>1 DEF TypeOK
  <2>4. QED BY <1>2, <1>4, <2>1, <2>2, <2>3, <1>1 DEF TypeOK, Walks
<1>5. QED BY <1>3, <1>4 DEF Advance

\* The types of what a walker's turn writes.
LEMMA TurnTypes ==
  ASSUME CampaignsAssumption, TypeOK, Structure, NEW w \in Walker, NEW c \in Campaign,
         Turn(w, c)
  PROVE  /\ status' = [status EXCEPT ![c] = Began(c)] /\ Began(c) \in CampaignStatus
         /\ walk' \in [Walker -> Walks]
         /\ \A v \in Walker \ {w} : walk'[v] = walk[v]
         /\ \E chosen \in SUBSET Step : \E s \in chosen :
               /\ \A x \in chosen : /\ Home[x] = c /\ step[x] = "pending"
                                    /\ \A d \in After[x] : step[d] = "completed"
               /\ walk'[w].pc = "loading" /\ walk'[w].step = s /\ walk'[w].at = c
               /\ walk'[w].left = chosen \ {s} /\ walk'[w].todo = walk[w].todo \ {c}
               /\ shared' = shared \cup (chosen \cap UNION {InHand(v) : v \in Walker \ {w}})
<1>a. PICK chosen \in FirstOf(DueSteps(c, walk[w].now)) : \E s \in chosen :
          /\ walk' = [walk EXCEPT ![w].pc = "loading", ![w].todo = @ \ {c},
                          ![w].at = c, ![w].left = chosen \ {s}, ![w].step = s]
          /\ shared' = shared \cup (chosen \cap UNION {InHand(v) : v \in Walker \ {w}})
  BY DEF Turn
<1>1. PICK s \in chosen :
          /\ walk' = [walk EXCEPT ![w].pc = "loading", ![w].todo = @ \ {c},
                          ![w].at = c, ![w].left = chosen \ {s}, ![w].step = s]
          /\ shared' = shared \cup (chosen \cap UNION {InHand(v) : v \in Walker \ {w}})
  BY <1>a
<1>2. /\ chosen \subseteq Step
      /\ \A x \in chosen : /\ Home[x] = c /\ step[x] = "pending"
                           /\ \A d \in After[x] : step[d] = "completed"
  BY Due
<1>3. walk[w] \in Walks /\ walk[w].todo \subseteq Campaign
  BY WalkRecords DEF TypeOK
<1>4. walk' = [walk EXCEPT ![w] = [walk[w] EXCEPT !.pc = "loading",
                  !.todo = walk[w].todo \ {c}, !.at = c, !.left = chosen \ {s}, !.step = s]]
  BY <1>1, <1>3 DEF TypeOK
<1>5. walk' \in [Walker -> Walks]
  BY <1>2, <1>3, <1>4, WalkRecords DEF TypeOK
<1>6. status' = [status EXCEPT ![c] = Began(c)] /\ Began(c) \in CampaignStatus
  BY DEF Turn, Began, TypeOK, CampaignStatus
<1>7. /\ walk'[w].pc = "loading" /\ walk'[w].step = s /\ walk'[w].at = c
      /\ walk'[w].left = chosen \ {s} /\ walk'[w].todo = walk[w].todo \ {c}
      /\ \A v \in Walker \ {w} : walk'[v] = walk[v]
  BY <1>3, <1>4 DEF TypeOK, Walks
<1>8. QED BY <1>1, <1>2, <1>5, <1>6, <1>7

\* Every step keeps every variable in its type and every walk in its structure.
LEMMA TypeStep ==
  ASSUME CampaignsAssumption, TypeOK, Structure, [Next]_vars
  PROVE  TypeOK' /\ Structure'
<1> USE CampaignsAssumption DEF CampaignsAssumption
<1>a. ASSUME walk' = walk, status' \in [Campaign -> CampaignStatus], stored' \subseteq Campaign,
             step' \in [Step -> StepStatus], elapsed' \subseteq Step, walks' \in Nat,
             activations' \in Nat, sent' = sent, done' = done, shared' = shared,
             stopped' \subseteq Campaign
      PROVE  TypeOK' /\ Structure'
  BY <1>a DEF TypeOK, Structure
<1>b. ASSUME NEW w \in Walker, NEW r \in {"completed", "failed"},
             walk[w].pc \in {"loading", "running"},
             Advance(w, [step EXCEPT ![walk[w].step] = r]),
             UNCHANGED <<elapsed, walks, activations, sent, shared, stopped>>,
             done' \subseteq Step
      PROVE  TypeOK' /\ Structure'
  <2>2. walk' \in [Walker -> Walks] /\ (\A v \in Walker \ {w} : walk'[v] = walk[v])
        /\ status' \in [Campaign -> CampaignStatus] /\ stored' \subseteq Campaign
        /\ step' \in [Step -> StepStatus]
    BY <1>b, AdvanceTypes
  <2>3. \/ /\ walk'[w].pc = "loading" /\ walk'[w].step \in walk[w].left
           /\ walk'[w].at = walk[w].at
           /\ walk'[w].left = walk[w].left \ {walk'[w].step}
        \/ /\ walk'[w].pc = "between" /\ walk'[w].left = {} /\ walk'[w].step = NoStep
           /\ walk'[w].at = NoCampaign
    BY <1>b, AdvanceTypes
  <2>4. walk[w].left \subseteq Step
    BY DEF TypeOK, Walks
  <2>5. Structure'
    BY <1>b, <2>2, <2>3, <2>4 DEF Structure
  <2>6. QED BY <1>b, <2>2, <2>5 DEF TypeOK, Structure
<1>1. ASSUME NEW w \in Walker, Begin(w) PROVE TypeOK' /\ Structure'
  <2> DEFINE due == {c \in stored : status[c] \in Active /\ DueSteps(c, elapsed) # {}}
             r == [IdleWalk EXCEPT !.pc = "between", !.now = elapsed, !.todo = due]
  <2>1. elapsed \in SUBSET Step /\ due \in SUBSET Campaign
    BY DEF TypeOK
  <2>2. IdleWalk \in Walks
    BY DEF IdleWalk, Walks
  <2>3. r \in Walks
    <3> HIDE DEF due
    <3>1. QED BY <2>1, <2>2, WalkRecords
  <2>4. walk' = [walk EXCEPT ![w] = r]
    BY <1>1 DEF Begin
  <2>5. r.pc = "between" /\ r.at = NoCampaign /\ r.left = {} /\ r.step = NoStep
    BY DEF IdleWalk
  <2>6. walks' = walks + 1 /\ UNCHANGED <<status, stored, step, elapsed, activations,
                                          sent, done, shared, stopped>>
    BY <1>1 DEF Begin
  <2> HIDE DEF r
  <2>7. QED BY <2>3, <2>4, <2>5, <2>6 DEF TypeOK, Structure
<1>2. ASSUME NEW w \in Walker, NEW c \in Campaign, Turn(w, c) PROVE TypeOK' /\ Structure'
  <2>1. /\ status' \in [Campaign -> CampaignStatus] /\ walk' \in [Walker -> Walks]
        /\ \A v \in Walker \ {w} : walk'[v] = walk[v]
    BY <1>2, TurnTypes DEF TypeOK
  <2>2. PICK chosen \in SUBSET Step : \E s \in chosen :
               /\ \A x \in chosen : Home[x] = c
               /\ walk'[w].pc = "loading" /\ walk'[w].step = s /\ walk'[w].at = c
               /\ walk'[w].left = chosen \ {s}
               /\ shared' = shared \cup (chosen \cap UNION {InHand(v) : v \in Walker \ {w}})
    BY <1>2, TurnTypes
  <2>3. shared' \subseteq Step
    BY <2>2 DEF TypeOK
  <2>4. Structure'
    BY <2>1, <2>2 DEF Structure
  <2>5. QED BY <1>2, <2>1, <2>3, <2>4 DEF TypeOK, Structure, Turn
<1>3. ASSUME NEW w \in Walker, NEW c \in Campaign, TurnAway(w, c) PROVE TypeOK' /\ Structure'
  <2>1. status' \in [Campaign -> CampaignStatus]
    BY <1>3, VerdictStatus DEF TurnAway, TypeOK, Began, CampaignStatus
  <2>2. walk[w] \in Walks /\ walk[w].todo \ {c} \in SUBSET Campaign
    BY DEF TypeOK, Walks
  <2>3. walk' = [walk EXCEPT ![w] = [walk[w] EXCEPT !.todo = walk[w].todo \ {c}]]
    BY <1>3, <2>2 DEF TurnAway, TypeOK
  <2>4. walk' \in [Walker -> Walks]
    BY <2>2, <2>3, WalkRecords DEF TypeOK
  <2>5. /\ walk'[w].pc = walk[w].pc /\ walk'[w].at = walk[w].at
        /\ walk'[w].left = walk[w].left /\ walk'[w].step = walk[w].step
        /\ \A v \in Walker \ {w} : walk'[v] = walk[v]
    BY <2>2, <2>3 DEF TypeOK, Walks
  <2>6. QED BY <1>3, <2>1, <2>4, <2>5 DEF TurnAway, TypeOK, Structure
<1>4. ASSUME NEW w \in Walker, Return(w) PROVE TypeOK' /\ Structure'
  <2>1. IdleWalk \in Walks /\ IdleWalk.pc = "idle" /\ IdleWalk.at = NoCampaign
        /\ IdleWalk.left = {} /\ IdleWalk.step = NoStep
    BY DEF IdleWalk, Walks
  <2>2. QED BY <1>4, <2>1 DEF Return, TypeOK, Structure
<1>5. ASSUME NEW w \in Walker, Start(w) PROVE TypeOK' /\ Structure'
  <2>1. walk[w] \in Walks /\ walk[w].step \in Step
    BY <1>5 DEF TypeOK, Start
  <2>2. walk' = [walk EXCEPT ![w] = [walk[w] EXCEPT !.pc = "running"]]
    BY <1>5, <2>1 DEF Start, TypeOK
  <2>3. walk' \in [Walker -> Walks]
    BY <2>1, <2>2, WalkRecords DEF TypeOK
  <2>4. /\ walk'[w].pc = "running" /\ walk'[w].at = walk[w].at
        /\ walk'[w].left = walk[w].left /\ walk'[w].step = walk[w].step
        /\ \A v \in Walker \ {w} : walk'[v] = walk[v]
    BY <2>1, <2>2 DEF TypeOK, Walks
  <2>5. Structure'
    BY <1>5, <2>4 DEF Start, Structure
  <2>6. step' \in [Step -> StepStatus] /\ sent' \in [Step -> Nat]
    BY <1>5, <2>1 DEF Start, TypeOK, StepStatus
  <2>7. QED BY <1>5, <2>3, <2>5, <2>6 DEF Start, TypeOK, Structure
<1>6. ASSUME NEW w \in Walker, WorkflowMissing(w) PROVE TypeOK' /\ Structure'
  <2>1. Advance(w, [step EXCEPT ![walk[w].step] = "failed"])
        /\ UNCHANGED <<elapsed, walks, activations, sent, shared, stopped>>
        /\ walk[w].pc \in {"loading", "running"}
    BY <1>6 DEF WorkflowMissing
  <2>2. done' \subseteq Step
    BY <1>6 DEF WorkflowMissing, TypeOK, Structure
  <2>3. QED BY <2>1, <2>2, <1>b
<1>7. ASSUME NEW w \in Walker, RunReturns(w) PROVE TypeOK' /\ Structure'
  <2>1. Advance(w, [step EXCEPT ![walk[w].step] = "completed"])
        /\ UNCHANGED <<elapsed, walks, activations, sent, shared, stopped>>
        /\ walk[w].pc \in {"loading", "running"}
    BY <1>7 DEF RunReturns
  <2>2. done' \subseteq Step
    BY <1>7 DEF RunReturns, TypeOK, Structure
  <2>3. QED BY <2>1, <2>2, <1>b
<1>8. ASSUME NEW w \in Walker, RunRaises(w) PROVE TypeOK' /\ Structure'
  <2>1. Advance(w, [step EXCEPT ![walk[w].step] = "failed"])
        /\ UNCHANGED <<elapsed, walks, activations, sent, shared, stopped>>
        /\ walk[w].pc \in {"loading", "running"}
    BY <1>8 DEF RunRaises
  <2>2. done' \subseteq Step
    BY <1>8 DEF RunRaises, TypeOK, Structure
  <2>3. QED BY <2>1, <2>2, <1>b
<1>9. ASSUME NEW c \in Campaign, Create(c) \/ Activate(c) \/ Pause(c) \/ Cancel(c) \/ Delete(c)
      PROVE  TypeOK' /\ Structure'
  <2>1. /\ walk' = walk /\ elapsed' \subseteq Step /\ walks' \in Nat
        /\ sent' = sent /\ done' = done /\ shared' = shared
    BY <1>9 DEF Create, Activate, Pause, Cancel, Delete, UserFrame, TypeOK
  <2>2. status' \in [Campaign -> CampaignStatus] /\ stored' \subseteq Campaign
    BY <1>9 DEF Create, Activate, Pause, Cancel, Delete, TypeOK, CampaignStatus
  <2>3. step' \in [Step -> StepStatus]
    BY <1>9 DEF Create, Activate, Pause, Cancel, Delete, TypeOK, StepStatus
  <2>4. activations' \in Nat /\ stopped' \subseteq Campaign
    BY <1>9 DEF Create, Activate, Pause, Cancel, Delete, TypeOK, Stopped
  <2>5. QED BY <1>a, <2>1, <2>2, <2>3, <2>4
<1>10. ASSUME NEW s \in Step, AddStep(s) PROVE TypeOK' /\ Structure'
  BY <1>10, <1>a DEF AddStep, UserFrame, TypeOK, StepStatus
<1>11. ASSUME NEW s \in Step, TimePasses(s) PROVE TypeOK' /\ Structure'
  BY <1>11, <1>a DEF TimePasses, TypeOK
<1>12. CASE UNCHANGED vars
  BY <1>12, <1>a DEF vars, TypeOK
<1>13. QED BY <1>1, <1>2, <1>3, <1>4, <1>5, <1>6, <1>7, <1>8, <1>9, <1>10, <1>11, <1>12 DEF Next

\* When the step in hand ends, a walk keeps the steps it had left.
LEMMA AdvanceHands ==
  ASSUME CampaignsAssumption, TypeOK, Structure, NEW w \in Walker,
         walk[w].pc \in {"loading", "running"},
         NEW r \in {"completed", "failed"},
         Advance(w, [step EXCEPT ![walk[w].step] = r])
  PROVE  /\ \A v \in Walker \ {w} : walk'[v] = walk[v] /\ InHand(v)' = InHand(v)
         /\ InHand(w)' = walk[w].left /\ walk[w].left \subseteq InHand(w)
         /\ walk[w].step \in Step /\ walk[w].step \in InHand(w)
         /\ walk[w].left \subseteq Step /\ walk[w].step \notin walk[w].left
         /\ walk'[w].left \subseteq walk[w].left
         /\ walk'[w].pc \in {"loading", "running"} => walk'[w].step \in walk[w].left
         /\ \A s \in Step : step'[s] = IF s = walk[w].step THEN r ELSE step[s]
<1>1. /\ \A v \in Walker \ {w} : walk'[v] = walk[v]
      /\ \/ /\ walk'[w].pc = "loading" /\ walk'[w].step \in walk[w].left
            /\ walk'[w].left = walk[w].left \ {walk'[w].step}
         \/ walk'[w].pc = "between" /\ walk'[w].left = {} /\ walk'[w].step = NoStep
  BY AdvanceTypes
<1>2. walk[w].left \subseteq Step /\ walk[w].step \in Step /\ walk[w].step \notin walk[w].left
  BY DEF TypeOK, Walks, Structure
<1>3. walk'[w].pc = "between" => walk[w].left = {}
  <2>1. CASE \E s \in walk[w].left : walk' =
                 [walk EXCEPT ![w].pc = "loading", ![w].step = s, ![w].left = @ \ {s}]
    BY <2>1 DEF TypeOK, Walks
  <2>2. QED BY <2>1 DEF Advance
<1>4. \A s \in Step : step'[s] = IF s = walk[w].step THEN r ELSE step[s]
  BY <1>2 DEF Advance, TypeOK
<1>5. InHand(w)' = walk[w].left
  BY <1>1, <1>2, <1>3 DEF InHand, CampaignsAssumption
<1>6. walk[w].left \subseteq InHand(w) /\ walk[w].step \in InHand(w)
  BY <1>2 DEF InHand, CampaignsAssumption
<1>7. \A v \in Walker \ {w} : InHand(v)' = InHand(v)
  BY <1>1 DEF InHand
<1>8. QED BY <1>1, <1>2, <1>3, <1>4, <1>5, <1>6, <1>7

\* The steps a walk takes in hand when it turns to a campaign.
LEMMA TurnHands ==
  ASSUME CampaignsAssumption, TypeOK, Structure, NEW w \in Walker, NEW c \in Campaign,
         Turn(w, c)
  PROVE  /\ InHand(w) = {}
         /\ \A v \in Walker \ {w} : walk'[v] = walk[v] /\ InHand(v)' = InHand(v)
         /\ \A s \in InHand(w)' :
               /\ s \in Step /\ Home[s] = c /\ step[s] = "pending"
               /\ \A d \in After[s] : step[d] = "completed"
               /\ \A v \in Walker \ {w} : s \in InHand(v) => s \in shared'
         /\ walk'[w].left \subseteq InHand(w)' /\ walk'[w].step \in InHand(w)'
         /\ shared \subseteq shared'
<1>1. \A v \in Walker \ {w} : walk'[v] = walk[v]
  BY TurnTypes
<1>2. PICK chosen \in SUBSET Step : \E s \in chosen :
               /\ \A x \in chosen : /\ Home[x] = c /\ step[x] = "pending"
                                    /\ \A d \in After[x] : step[d] = "completed"
               /\ walk'[w].step = s /\ walk'[w].left = chosen \ {s}
               /\ shared' = shared \cup (chosen \cap UNION {InHand(v) : v \in Walker \ {w}})
  BY TurnTypes
<1>3. InHand(w)' = chosen
  <2>1. /\ walk'[w].step \in chosen /\ walk'[w].step \in Step
        /\ walk'[w].left = chosen \ {walk'[w].step}
    BY <1>2
  <2>2. InHand(w)' = walk'[w].left \cup ({walk'[w].step} \ {NoStep})
    BY DEF InHand
  <2>3. NoStep # walk'[w].step
    BY <2>1 DEF CampaignsAssumption
  <2>4. QED BY <2>1, <2>2, <2>3
<1>4. InHand(w) = {}
  BY DEF Turn, Structure, InHand
<1>5. \A v \in Walker \ {w} : InHand(v)' = InHand(v)
  BY <1>1 DEF InHand
<1>6. \A s \in chosen, v \in Walker \ {w} : s \in InHand(v) => s \in shared'
  BY <1>2
<1>7. walk'[w].left \subseteq chosen /\ walk'[w].step \in chosen /\ shared \subseteq shared'
  BY <1>2
<1>8. QED BY <1>1, <1>2, <1>3, <1>4, <1>5, <1>6, <1>7

\* The other steps of a walk leave what is in hand, or put it down.
LEMMA QuietHands ==
  ASSUME CampaignsAssumption, TypeOK, Structure, NEW w \in Walker,
         Begin(w) \/ Return(w) \/ Start(w) \/ \E c \in Campaign : TurnAway(w, c)
  PROVE  /\ \A v \in Walker \ {w} : walk'[v] = walk[v]
         /\ \A v \in Walker : InHand(v)' = InHand(v)
         /\ walk'[w].left = walk[w].left
         /\ walk'[w].pc \in {"idle", "between", "running"}
<1>1. CASE Begin(w)
  BY <1>1 DEF Begin, IdleWalk, TypeOK, Structure, InHand
<1>2. CASE Return(w)
  BY <1>2 DEF Return, IdleWalk, TypeOK, Structure, InHand
<1>3. CASE Start(w)
  BY <1>3 DEF Start, TypeOK, Walks, InHand
<1>4. CASE \E c \in Campaign : TurnAway(w, c)
  BY <1>4 DEF TurnAway, TypeOK, Walks, InHand
<1>5. QED BY <1>1, <1>2, <1>3, <1>4

\* Dependencies stay behind what is in hand.
LEMMA StoryStep ==
  ASSUME CampaignsAssumption, TypeOK, Structure, Story, [Next]_vars
  PROVE  Story'
<1>a. ASSUME done \subseteq done', \A s \in Step : sent'[s] > 0 => sent[s] > 0
                \/ \E w \in Walker : s \in InHand(w),
             \A s \in Step : step'[s] = "completed" => step[s] = "completed" \/ s \in done',
             \A w \in Walker : \A s \in InHand(w)' : s \in Step /\
                (s \in InHand(w) \/ \A d \in After[s] : step[d] = "completed")
      PROVE  Story'
  <2>1. \A s \in Step : step'[s] = "completed" => s \in done'
    BY <1>a DEF Story
  <2>2. ASSUME NEW w \in Walker, NEW s \in InHand(w)' PROVE After[s] \subseteq done'
    <3>1. CASE s \in InHand(w)
      BY <3>1, <1>a DEF Story
    <3>2. CASE \A d \in After[s] : step[d] = "completed"
      <4>1. s \in Step /\ After[s] \subseteq Step
        BY <1>a DEF CampaignsAssumption
      <4>2. QED BY <3>2, <4>1, <1>a DEF Story
    <3>3. QED BY <1>a, <3>1, <3>2
  <2>3. StoryOrder'
    BY <1>a DEF Story, StoryOrder
  <2>4. QED BY <2>1, <2>2, <2>3 DEF Story
<1>b. \A w \in Walker : \A s \in InHand(w) : s \in Step
  BY DEF InHand, TypeOK, Walks
<1>c. ASSUME NEW w \in Walker, NEW r \in {"completed", "failed"},
             walk[w].pc \in {"loading", "running"}, sent' = sent, done \subseteq done',
             r = "completed" => walk[w].step \in done',
             Advance(w, [step EXCEPT ![walk[w].step] = r])
      PROVE  Story'
  <2>1. \A s \in Step : step'[s] = IF s = walk[w].step THEN r ELSE step[s]
    BY <1>c, AdvanceHands
  <2>2. \A s \in Step : step'[s] = "completed" => step[s] = "completed" \/ s \in done'
    BY <1>c, <2>1
  <2>3. \A v \in Walker : InHand(v)' \subseteq InHand(v)
    <3>1. \A v \in Walker \ {w} : InHand(v)' = InHand(v)
      BY <1>c, AdvanceHands
    <3>2. InHand(w)' = walk[w].left /\ walk[w].left \subseteq InHand(w)
      BY <1>c, AdvanceHands
    <3>3. QED BY <3>1, <3>2
  <2>4. QED BY <1>a, <1>b, <1>c, <2>2, <2>3
<1>1. ASSUME NEW w \in Walker, Begin(w) \/ Return(w) \/ \E c \in Campaign : TurnAway(w, c)
      PROVE  Story'
  <2>1. \A v \in Walker : InHand(v)' = InHand(v)
    BY <1>1, QuietHands
  <2>2. UNCHANGED <<step, sent, done>>
    BY <1>1 DEF Begin, Return, TurnAway
  <2>3. QED BY <1>a, <1>b, <2>1, <2>2
<1>2. ASSUME NEW w \in Walker, NEW c \in Campaign, Turn(w, c) PROVE Story'
  <2>1. /\ \A v \in Walker \ {w} : InHand(v)' = InHand(v)
        /\ \A s \in InHand(w)' : s \in Step /\ \A d \in After[s] : step[d] = "completed"
    BY <1>2, TurnHands
  <2>2. UNCHANGED <<step, sent, done>>
    BY <1>2 DEF Turn
  <2>3. QED BY <1>a, <1>b, <2>1, <2>2
<1>3. ASSUME NEW w \in Walker, Start(w) PROVE Story'
  <2>1. \A v \in Walker : InHand(v)' = InHand(v)
    BY <1>3, QuietHands
  <2>2. walk[w].step \in Step /\ walk[w].step \in InHand(w)
    BY <1>3 DEF Start, Structure, InHand, CampaignsAssumption
  <2>3. /\ \A s \in Step : step'[s] = IF s = walk[w].step THEN "running" ELSE step[s]
        /\ \A s \in Step : s # walk[w].step => sent'[s] = sent[s]
        /\ done' = done
    BY <1>3, <2>2 DEF Start, TypeOK
  <2>4. QED BY <1>a, <1>b, <2>1, <2>2, <2>3
<1>4. ASSUME NEW w \in Walker, WorkflowMissing(w) \/ RunRaises(w) PROVE Story'
  <2>1. /\ walk[w].pc \in {"loading", "running"} /\ sent' = sent /\ done' = done
        /\ Advance(w, [step EXCEPT ![walk[w].step] = "failed"])
    BY <1>4 DEF WorkflowMissing, RunRaises
  <2>2. QED BY <1>c, <2>1
<1>5. ASSUME NEW w \in Walker, RunReturns(w) PROVE Story'
  <2>1. /\ walk[w].pc \in {"loading", "running"} /\ sent' = sent
        /\ done' = done \cup {walk[w].step}
        /\ Advance(w, [step EXCEPT ![walk[w].step] = "completed"])
    BY <1>5 DEF RunReturns
  <2>2. QED BY <1>c, <2>1
<1>6. ASSUME NEW c \in Campaign, Create(c) \/ Activate(c) \/ Pause(c) \/ Cancel(c) \/ Delete(c)
      PROVE  Story'
  <2>1. UNCHANGED <<walk, sent, done>>
    BY <1>6 DEF Create, Activate, Pause, Cancel, Delete, UserFrame
  <2>2. \A s \in Step : step'[s] = "completed" => step[s] = "completed"
    BY <1>6 DEF Create, Activate, Pause, Cancel, Delete
  <2>3. \A w \in Walker : InHand(w)' = InHand(w)
    BY <2>1 DEF InHand
  <2>4. QED BY <1>a, <1>b, <2>1, <2>2, <2>3
<1>7. ASSUME NEW s \in Step, AddStep(s) \/ TimePasses(s) PROVE Story'
  <2>1. UNCHANGED <<walk, sent, done>>
    BY <1>7 DEF AddStep, TimePasses, UserFrame
  <2>2. \A x \in Step : step'[x] = "completed" => step[x] = "completed"
    BY <1>7 DEF AddStep, TimePasses, TypeOK
  <2>3. \A w \in Walker : InHand(w)' = InHand(w)
    BY <2>1 DEF InHand
  <2>4. QED BY <1>a, <1>b, <2>1, <2>2, <2>3
<1>8. CASE UNCHANGED vars
  BY <1>8, <1>a, <1>b DEF vars, InHand
<1>9. QED BY <1>1, <1>2, <1>3, <1>4, <1>5, <1>6, <1>7, <1>8 DEF Next

\* What is in hand and awaited is a matter of the walks alone.
LEMMA UserHands ==
  ASSUME walk' = walk
  PROVE  \A w \in Walker : /\ InHand(w)' = InHand(w)
                           /\ \A s : Awaits(w, s)' <=> Awaits(w, s)
BY DEF InHand, Awaits

\* Campaigns not created stay without steps and outside every walk.
LEMMA UnmadeStep ==
  ASSUME CampaignsAssumption, TypeOK, Structure, Unmade, Started, [Next]_vars
  PROVE  Unmade'
<1>a. ASSUME \A c \in Campaign : status'[c] = "absent" => status[c] = "absent",
             \A c \in Campaign : c \in stored' \/ c \in stopped' =>
                c \in stored \/ c \in stopped \/ status'[c] # "absent",
             \A w \in Walker : \A c \in walk'[w].todo : c \in walk[w].todo \/ c \in stored,
             \A s \in Step : step'[s] # "absent" =>
                step[s] # "absent" \/ status'[Home[s]] # "absent"
      PROVE  Unmade'
  BY <1>a DEF Unmade
<1>b. ASSUME NEW w \in Walker, walk[w].pc \in {"loading", "running"}
      PROVE  /\ walk[w].at \in Campaign /\ walk[w].step \in Step
             /\ walk[w].at = Home[walk[w].step] /\ status[walk[w].at] # "absent"
  <2>1. walk[w].step \in Step /\ walk[w].at = Home[walk[w].step] /\ walk[w].at \in Campaign
    BY <1>b DEF Structure, CampaignsAssumption
  <2>2. walk[w].step \in InHand(w)
    BY <2>1 DEF InHand, CampaignsAssumption
  <2>3. QED BY <2>1, <2>2 DEF Unmade, Started
<1>c. ASSUME NEW w \in Walker, NEW r \in {"completed", "failed"},
             walk[w].pc \in {"loading", "running"}, stopped' = stopped,
             Advance(w, [step EXCEPT ![walk[w].step] = r])
      PROVE  Unmade'
  <2> DEFINE c == walk[w].at
  <2>1. c \in Campaign /\ walk[w].step \in Step /\ c = Home[walk[w].step] /\ status[c] # "absent"
    BY <1>b, <1>c
  <2>2. /\ \A v \in Walker \ {w} : walk'[v] = walk[v]
        /\ walk'[w].todo = walk[w].todo
        /\ \A d \in Campaign \ {c} : status'[d] = status[d]
        /\ status'[c] \in {status[c], "failed", "completed"}
        /\ stored' \subseteq stored \cup {c}
    BY <1>c, <2>1, AdvanceTypes
  <2>3. \A s \in Step : step'[s] = IF s = walk[w].step THEN r ELSE step[s]
    BY <1>c, AdvanceHands
  <2> HIDE DEF c
  <2>4. status'[c] # "absent"
    BY <2>1, <2>2
  <2>5. \A d \in Campaign : status'[d] = "absent" => status[d] = "absent"
    BY <2>2, <2>4
  <2>6. \A v \in Walker : walk'[v].todo = walk[v].todo
    BY <2>2
  <2>7. \A s \in Step : step'[s] # "absent" => step[s] # "absent" \/ status'[Home[s]] # "absent"
    BY <2>1, <2>3, <2>4
  <2>8. QED BY <1>a, <1>c, <2>2, <2>4, <2>5, <2>6, <2>7
<1>1. ASSUME NEW w \in Walker, Begin(w) PROVE Unmade'
  <2>1. /\ UNCHANGED <<status, stored, stopped, step>>
        /\ \A v \in Walker \ {w} : walk'[v] = walk[v]
        /\ walk'[w].todo \subseteq stored
    BY <1>1 DEF Begin, TypeOK, IdleWalk
  <2>2. QED BY <1>a, <2>1
<1>2. ASSUME NEW w \in Walker, NEW c \in Campaign, Turn(w, c) PROVE Unmade'
  <2>1. status[c] # "absent"
    BY <1>2 DEF Turn, Unmade
  <2>2. /\ \A v \in Walker \ {w} : walk'[v] = walk[v]
        /\ walk'[w].todo \subseteq walk[w].todo
        /\ status' = [status EXCEPT ![c] = Began(c)]
    BY <1>2, TurnTypes
  <2>3. \A d \in Campaign : status'[d] = "absent" => status[d] = "absent"
    BY <2>1, <2>2 DEF Began, TypeOK
  <2>4. UNCHANGED <<stored, stopped, step>>
    BY <1>2 DEF Turn
  <2>5. QED BY <1>a, <2>2, <2>3, <2>4
<1>3. ASSUME NEW w \in Walker, NEW c \in Campaign, TurnAway(w, c) PROVE Unmade'
  <2>1. status[c] # "absent"
    BY <1>3 DEF TurnAway, Unmade
  <2>2. Began(c) \in CampaignStatus /\ Began(c) # "absent"
    BY <2>1 DEF Began, TypeOK, CampaignStatus
  <2>3. Verdict(Began(c), c, step) # "absent"
    BY <2>2, VerdictStatus
  <2>4. status' = [status EXCEPT ![c] = Verdict(Began(c), c, step)] /\ stored' = stored \cup {c}
        /\ UNCHANGED <<stopped, step>>
    BY <1>3 DEF TurnAway
  <2>5. \A d \in Campaign : status'[d] = "absent" => status[d] = "absent"
    BY <2>3, <2>4 DEF TypeOK
  <2>6. \A v \in Walker : walk'[v].todo \subseteq walk[v].todo
    BY <1>3 DEF TurnAway, TypeOK, Walks
  <2>7. status'[c] # "absent"
    BY <2>3, <2>4 DEF TypeOK
  <2>8. QED BY <1>a, <2>4, <2>5, <2>6, <2>7
<1>4. ASSUME NEW w \in Walker, Return(w) \/ Start(w) PROVE Unmade'
  <2>1. UNCHANGED <<status, stored, stopped>>
    BY <1>4 DEF Return, Start
  <2>2. \A v \in Walker : walk'[v].todo \subseteq walk[v].todo
    BY <1>4 DEF Return, Start, TypeOK, Walks, IdleWalk
  <2>3. \A s \in Step : step'[s] # "absent" => step[s] # "absent" \/ status'[Home[s]] # "absent"
    BY <1>4, <1>b, <2>1 DEF Return, Start, TypeOK
  <2>4. QED BY <1>a, <2>1, <2>2, <2>3
<1>5. ASSUME NEW w \in Walker, WorkflowMissing(w) \/ RunReturns(w) \/ RunRaises(w)
      PROVE  Unmade'
  <2>1. /\ walk[w].pc \in {"loading", "running"} /\ stopped' = stopped
        /\ \E r \in {"completed", "failed"} : Advance(w, [step EXCEPT ![walk[w].step] = r])
    BY <1>5 DEF WorkflowMissing, RunReturns, RunRaises
  <2>2. QED BY <1>c, <2>1
<1>6. ASSUME NEW c \in Campaign, Create(c) \/ Activate(c) \/ Pause(c) \/ Cancel(c) \/ Delete(c)
      PROVE  Unmade'
  <2>1. /\ walk' = walk
        /\ \A d \in Campaign : status'[d] = "absent" => status[d] = "absent"
        /\ \A d \in Campaign : d \in stored' => d \in stored \/ status'[d] # "absent"
        /\ \A d \in Campaign : d \in stopped' => d \in stopped \/ d \in stored
    BY <1>6 DEF Create, Activate, Pause, Cancel, Delete, UserFrame, TypeOK, Stopped
  <2>2. \A s \in Step : step'[s] # "absent" => step[s] # "absent" \/ status'[Home[s]] # "absent"
    BY <1>6 DEF Create, Activate, Pause, Cancel, Delete, TypeOK, CampaignsAssumption
  <2>3. QED BY <1>a, <2>1, <2>2
<1>7. ASSUME NEW s \in Step, AddStep(s) \/ TimePasses(s) PROVE Unmade'
  <2>1. UNCHANGED <<walk, status, stored, stopped>>
    BY <1>7 DEF AddStep, TimePasses, UserFrame
  <2>2. \A x \in Step : step'[x] # "absent" => step[x] # "absent" \/ status'[Home[x]] # "absent"
    BY <1>7, <2>1 DEF AddStep, TimePasses, TypeOK, Unmade, CampaignsAssumption
  <2>3. QED BY <1>a, <2>1, <2>2
<1>8. CASE UNCHANGED vars
  BY <1>8, <1>a DEF vars
<1>9. QED BY <1>1, <1>2, <1>3, <1>4, <1>5, <1>6, <1>7, <1>8 DEF Next

\* A started step does not become pending, and one in hand exists.
LEMMA StartedStep ==
  ASSUME CampaignsAssumption, TypeOK, Structure, Unmade, Started, [Next]_vars
  PROVE  Started'
<1>a. \A w \in Walker : \A s \in InHand(w) : s \in Step
  BY DEF InHand, TypeOK, Walks
<1>b. ASSUME \A s \in Step : sent'[s] > 0 => sent[s] > 0 \/ step'[s] = "running",
             \A s \in Step : step'[s] \in {"absent", "pending"} =>
                step'[s] = step[s] \/ step[s] = "absent",
             \A s \in Step : step'[s] = "absent" => step[s] = "absent",
             \A w \in Walker : \A s \in InHand(w)' : s \in InHand(w) \/ step'[s] = "pending"
      PROVE  Started'
  BY <1>a, <1>b DEF Started
<1>c. ASSUME NEW w \in Walker, NEW r \in {"completed", "failed"},
             walk[w].pc \in {"loading", "running"}, sent' = sent,
             Advance(w, [step EXCEPT ![walk[w].step] = r])
      PROVE  Started'
  <2>1. \A s \in Step : step'[s] = IF s = walk[w].step THEN r ELSE step[s]
    BY <1>c, AdvanceHands
  <2>2. \A v \in Walker : InHand(v)' \subseteq InHand(v)
    <3>1. \A v \in Walker \ {w} : InHand(v)' = InHand(v)
      BY <1>c, AdvanceHands
    <3>2. InHand(w)' = walk[w].left /\ walk[w].left \subseteq InHand(w)
      BY <1>c, AdvanceHands
    <3>3. QED BY <3>1, <3>2
  <2>3. QED BY <1>b, <1>c, <2>1, <2>2
<1>1. ASSUME NEW w \in Walker, Begin(w) \/ Return(w) \/ \E c \in Campaign : TurnAway(w, c)
      PROVE  Started'
  <2>1. \A v \in Walker : InHand(v)' = InHand(v)
    BY <1>1, QuietHands
  <2>2. UNCHANGED <<step, sent>>
    BY <1>1 DEF Begin, Return, TurnAway
  <2>3. QED BY <1>b, <2>1, <2>2
<1>2. ASSUME NEW w \in Walker, NEW c \in Campaign, Turn(w, c) PROVE Started'
  <2>1. /\ \A v \in Walker \ {w} : InHand(v)' = InHand(v)
        /\ \A s \in InHand(w)' : step[s] = "pending"
    BY <1>2, TurnHands
  <2>2. UNCHANGED <<step, sent>>
    BY <1>2 DEF Turn
  <2>3. QED BY <1>b, <2>1, <2>2
<1>3. ASSUME NEW w \in Walker, Start(w) PROVE Started'
  <2>1. \A v \in Walker : InHand(v)' = InHand(v)
    BY <1>3, QuietHands
  <2>2. /\ \A s \in Step : step'[s] = IF s = walk[w].step THEN "running" ELSE step[s]
        /\ \A s \in Step : s # walk[w].step => sent'[s] = sent[s]
    BY <1>3 DEF Start, TypeOK
  <2>3. QED BY <1>b, <2>1, <2>2
<1>4. ASSUME NEW w \in Walker, WorkflowMissing(w) \/ RunReturns(w) \/ RunRaises(w)
      PROVE  Started'
  <2>1. /\ walk[w].pc \in {"loading", "running"} /\ sent' = sent
        /\ \E r \in {"completed", "failed"} : Advance(w, [step EXCEPT ![walk[w].step] = r])
    BY <1>4 DEF WorkflowMissing, RunReturns, RunRaises
  <2>2. QED BY <1>c, <2>1
<1>5. ASSUME NEW c \in Campaign, Create(c) \/ Activate(c) \/ Pause(c) \/ Cancel(c) \/ Delete(c)
      PROVE  Started'
  <2>1. UNCHANGED <<walk, sent>>
    BY <1>5 DEF Create, Activate, Pause, Cancel, Delete, UserFrame
  <2>2. \A s \in Step : step'[s] = step[s] \/ (step[s] = "absent" /\ step'[s] = "pending")
    <3>1. CASE Create(c)
      <4>1. \A s \in Step : Home[s] = c => step[s] = "absent"
        BY <3>1 DEF Create, Unmade
      <4>2. QED BY <3>1, <4>1 DEF Create
    <3>2. CASE Activate(c) \/ Pause(c) \/ Cancel(c) \/ Delete(c)
      BY <3>2 DEF Activate, Pause, Cancel, Delete
    <3>3. QED BY <1>5, <3>1, <3>2
  <2>3. \A w \in Walker : InHand(w)' = InHand(w)
    BY <2>1, UserHands
  <2>4. QED BY <1>b, <2>1, <2>2, <2>3
<1>6. ASSUME NEW s \in Step, AddStep(s) \/ TimePasses(s) PROVE Started'
  <2>1. UNCHANGED <<walk, sent>>
    BY <1>6 DEF AddStep, TimePasses, UserFrame
  <2>2. \A x \in Step : step'[x] = step[x] \/ (step[x] = "absent" /\ step'[x] = "pending")
    BY <1>6 DEF AddStep, TimePasses, TypeOK
  <2>3. \A w \in Walker : InHand(w)' = InHand(w)
    BY <2>1, UserHands
  <2>4. QED BY <1>b, <2>1, <2>2, <2>3
<1>7. CASE UNCHANGED vars
  BY <1>7, <1>b, UserHands DEF vars
<1>8. QED BY <1>1, <1>2, <1>3, <1>4, <1>5, <1>6, <1>7 DEF Next

\* Unless two walks took a step at a time, one has it and starts it once.
LEMMA OneHandStep ==
  ASSUME CampaignsAssumption, TypeOK, Structure, Started, OneHand, [Next]_vars
  PROVE  OneHand'
<1>a. ASSUME shared' = shared, sent' = sent,
             \A w \in Walker : InHand(w)' \subseteq InHand(w),
             \A w \in Walker : \A s \in Step : Awaits(w, s)' => Awaits(w, s)
      PROVE  OneHand'
  BY <1>a DEF OneHand
<1>b. ASSUME NEW w \in Walker, NEW r \in {"completed", "failed"},
             walk[w].pc \in {"loading", "running"}, sent' = sent, shared' = shared,
             Advance(w, [step EXCEPT ![walk[w].step] = r])
      PROVE  OneHand'
  <2>1. \A v \in Walker \ {w} : walk'[v] = walk[v] /\ InHand(v)' = InHand(v)
    BY <1>b, AdvanceHands
  <2>2. InHand(w)' = walk[w].left /\ walk[w].left \subseteq InHand(w)
    BY <1>b, AdvanceHands
  <2>3. /\ walk'[w].left \subseteq walk[w].left
        /\ walk'[w].pc = "loading" => walk'[w].step \in walk[w].left
    BY <1>b, AdvanceHands
  <2>4. \A v \in Walker : InHand(v)' \subseteq InHand(v)
    BY <2>1, <2>2
  <2>5. \A v \in Walker : \A s \in Step : Awaits(v, s)' => Awaits(v, s)
    BY <2>1, <2>3 DEF Awaits
  <2>6. QED BY <1>a, <1>b, <2>4, <2>5
<1>1. ASSUME NEW w \in Walker, Begin(w) \/ Return(w) \/ \E c \in Campaign : TurnAway(w, c)
      PROVE  OneHand'
  <2>1. /\ \A v \in Walker : InHand(v)' = InHand(v)
        /\ \A v \in Walker \ {w} : walk'[v] = walk[v]
        /\ walk'[w].left = walk[w].left /\ walk'[w].pc # "loading"
    BY <1>1, QuietHands
  <2>2. UNCHANGED <<sent, shared>>
    BY <1>1 DEF Begin, Return, TurnAway
  <2>3. \A v \in Walker : \A s \in Step : Awaits(v, s)' => Awaits(v, s)
    BY <2>1 DEF Awaits
  <2>4. QED BY <1>a, <2>1, <2>2, <2>3
<1>2. ASSUME NEW w \in Walker, NEW c \in Campaign, Turn(w, c) PROVE OneHand'
  <2>1. /\ \A v \in Walker \ {w} : walk'[v] = walk[v] /\ InHand(v)' = InHand(v)
        /\ \A s \in InHand(w)' : /\ step[s] = "pending" /\ s \in Step
                                 /\ \A v \in Walker \ {w} : s \in InHand(v) => s \in shared'
        /\ walk'[w].left \subseteq InHand(w)' /\ walk'[w].step \in InHand(w)'
        /\ shared \subseteq shared'
    BY <1>2, TurnHands
  <2>2. sent' = sent
    BY <1>2 DEF Turn
  <2>3. SUFFICES ASSUME NEW s \in Step \ shared'
        PROVE  /\ sent[s] <= 1
               /\ \A v \in Walker : Awaits(v, s)' => sent[s] = 0
               /\ \A u, v \in Walker : s \in InHand(v)' /\ s \in InHand(u)' => u = v
    BY <2>2 DEF OneHand
  <2>4. s \notin shared /\ sent[s] \in Nat
    BY <2>1 DEF TypeOK
  <2>5. s \in InHand(w)' => sent[s] = 0
    BY <2>1, <2>4 DEF Started
  <2>6. Awaits(w, s)' => s \in InHand(w)'
    BY <2>1 DEF Awaits
  <2>7. \A v \in Walker \ {w} : Awaits(v, s)' => Awaits(v, s)
    BY <2>1 DEF Awaits
  <2>8. \A v \in Walker : Awaits(v, s)' => sent[s] = 0
    BY <2>4, <2>5, <2>6, <2>7 DEF OneHand
  <2>9. \A u, v \in Walker : s \in InHand(v)' /\ s \in InHand(u)' => u = v
    BY <2>1, <2>4 DEF OneHand
  <2>10. QED BY <2>4, <2>8, <2>9 DEF OneHand
<1>3. ASSUME NEW w \in Walker, Start(w) PROVE OneHand'
  <2>1. /\ \A v \in Walker : InHand(v)' = InHand(v)
        /\ \A v \in Walker \ {w} : walk'[v] = walk[v]
        /\ walk'[w].left = walk[w].left /\ walk'[w].pc # "loading"
    BY <1>3, QuietHands
  <2>x. PICK x \in Step : x = walk[w].step
    BY <1>3 DEF Start, Structure
  <2>2. x \notin walk[w].left /\ x \in InHand(w) /\ Awaits(w, x)
    BY <1>3, <2>x DEF Start, Structure, InHand, Awaits, CampaignsAssumption
  <2>3. /\ \A s \in Step : sent'[s] = IF s = x THEN sent[x] + 1 ELSE sent[s]
        /\ shared' = shared
    BY <1>3, <2>x DEF Start, TypeOK
  <2>4. \A v \in Walker : \A s \in Step : Awaits(v, s)' => Awaits(v, s)
    BY <2>1 DEF Awaits
  <2>5. ~Awaits(w, x)'
    BY <2>1, <2>2 DEF Awaits
  <2>6. \A v \in Walker : Awaits(v, x) => x \in InHand(v)
    BY DEF Awaits, InHand, CampaignsAssumption
  <2>7. x \notin shared => sent[x] = 0 /\ \A v \in Walker : ~Awaits(v, x)'
    BY <2>2, <2>4, <2>5, <2>6 DEF OneHand
  <2>8. \A s \in Step \ shared : sent'[s] <= 1
    BY <2>3, <2>7 DEF OneHand
  <2>9. \A s \in Step \ shared : \A v \in Walker : Awaits(v, s)' => sent'[s] = 0
    BY <2>3, <2>4, <2>7 DEF OneHand
  <2>10. QED BY <2>1, <2>3, <2>8, <2>9 DEF OneHand
<1>4. ASSUME NEW w \in Walker, WorkflowMissing(w) \/ RunReturns(w) \/ RunRaises(w)
      PROVE  OneHand'
  <2>1. /\ walk[w].pc \in {"loading", "running"} /\ sent' = sent /\ shared' = shared
        /\ \E r \in {"completed", "failed"} : Advance(w, [step EXCEPT ![walk[w].step] = r])
    BY <1>4 DEF WorkflowMissing, RunReturns, RunRaises
  <2>2. QED BY <1>b, <2>1
<1>5. ASSUME UNCHANGED <<walk, sent, shared>> PROVE OneHand'
  BY <1>5, <1>a, UserHands
<1>6. QED BY <1>1, <1>2, <1>3, <1>4, <1>5
      DEF Next, vars, Create, Activate, Pause, Cancel, Delete, AddStep, TimePasses, UserFrame

\* A campaign stopped at rest is not taken up again.
LEMMA StopsStep ==
  ASSUME CampaignsAssumption, TypeOK, Structure, Unmade, Stops, [Next]_vars
  PROVE  Stops'
<1>a. ASSUME stopped' = stopped, NEW c \in Campaign, c \notin stopped,
             \A d \in Campaign \ {c} : status'[d] = status[d] /\ (d \in stored' => d \in stored),
             \A w \in Walker : \A d \in Campaign : Holds(w, d)' => Holds(w, d) \/ d = c
      PROVE  Stops'
  BY <1>a DEF Stops, TypeOK
<1>b. ASSUME UNCHANGED <<status, stored, stopped>>,
             \A w \in Walker : \A d \in stopped : Holds(w, d)' => Holds(w, d)
      PROVE  Stops'
  BY <1>b DEF Stops
<1>c. ASSUME NEW w \in Walker, NEW r \in {"completed", "failed"},
             walk[w].pc \in {"loading", "running"}, stopped' = stopped,
             Advance(w, [step EXCEPT ![walk[w].step] = r])
      PROVE  Stops'
  <2>1. PICK c \in Campaign : c = walk[w].at
    BY <1>c DEF Structure, CampaignsAssumption
  <2>2. c \notin stopped
    BY <2>1 DEF Stops, Holds
  <2>3. /\ \A v \in Walker \ {w} : walk'[v] = walk[v]
        /\ walk'[w].todo = walk[w].todo /\ walk'[w].at \in {walk[w].at, NoCampaign}
        /\ \A d \in Campaign \ {walk[w].at} : status'[d] = status[d]
        /\ stored' \subseteq stored \cup {walk[w].at}
    BY <1>c, AdvanceTypes
  <2>4. \A v \in Walker : \A d \in Campaign : Holds(v, d)' => Holds(v, d)
    BY <2>3 DEF Holds, CampaignsAssumption
  <2>5. QED BY <1>a, <1>c, <2>1, <2>2, <2>3, <2>4
<1>1. ASSUME NEW w \in Walker, Begin(w) PROVE Stops'
  <2>1. /\ UNCHANGED <<status, stored, stopped>>
        /\ \A v \in Walker \ {w} : walk'[v] = walk[v]
        /\ walk'[w].at = NoCampaign
        /\ \A c \in walk'[w].todo : c \in stored /\ status[c] \in Active
    BY <1>1 DEF Begin, TypeOK, IdleWalk
  <2>2. \A c \in stopped : c \in Campaign /\ ~(c \in stored /\ status[c] \in Active)
    BY DEF Stops, Active, TypeOK
  <2>3. \A v \in Walker : \A d \in stopped : Holds(v, d)' => Holds(v, d)
    BY <2>1, <2>2 DEF Holds, CampaignsAssumption
  <2>4. QED BY <1>b, <2>1, <2>3
<1>2. ASSUME NEW w \in Walker, NEW c \in Campaign, Turn(w, c) PROVE Stops'
  <2>1. c \notin stopped
    BY <1>2 DEF Turn, Stops, Holds
  <2>2. /\ status' = [status EXCEPT ![c] = Began(c)]
        /\ \A v \in Walker \ {w} : walk'[v] = walk[v]
        /\ walk'[w].todo \subseteq walk[w].todo /\ walk'[w].at = c
    BY <1>2, TurnTypes
  <2>3. UNCHANGED <<stored, stopped>>
    BY <1>2 DEF Turn
  <2>4. \A v \in Walker : \A d \in Campaign : Holds(v, d)' => Holds(v, d) \/ d = c
    BY <2>2 DEF Holds
  <2>5. \A d \in Campaign \ {c} : status'[d] = status[d]
    BY <2>2 DEF TypeOK
  <2>6. QED BY <1>a, <2>1, <2>3, <2>4, <2>5
<1>3. ASSUME NEW w \in Walker, NEW c \in Campaign, TurnAway(w, c) PROVE Stops'
  <2>1. c \notin stopped
    BY <1>3 DEF TurnAway, Stops, Holds
  <2>2. /\ \A d \in Campaign \ {c} : status'[d] = status[d]
        /\ stored' = stored \cup {c} /\ stopped' = stopped
    BY <1>3 DEF TurnAway, TypeOK
  <2>3. \A v \in Walker : walk'[v].todo \subseteq walk[v].todo /\ walk'[v].at = walk[v].at
    BY <1>3 DEF TurnAway, TypeOK, Walks
  <2>4. \A v \in Walker : \A d \in Campaign : Holds(v, d)' => Holds(v, d)
    BY <2>3 DEF Holds
  <2>5. QED BY <1>a, <2>1, <2>2, <2>4
<1>4. ASSUME NEW w \in Walker, Return(w) \/ Start(w) PROVE Stops'
  <2>1. UNCHANGED <<status, stored, stopped>>
    BY <1>4 DEF Return, Start
  <2>2. \A v \in Walker : /\ walk'[v].todo \subseteq walk[v].todo
                          /\ walk'[v].at \in {walk[v].at, NoCampaign}
    BY <1>4 DEF Return, Start, TypeOK, Walks, IdleWalk
  <2>3. \A v \in Walker : \A d \in stopped : Holds(v, d)' => Holds(v, d)
    BY <2>2 DEF Holds, TypeOK, CampaignsAssumption
  <2>4. QED BY <1>b, <2>1, <2>3
<1>5. ASSUME NEW w \in Walker, WorkflowMissing(w) \/ RunReturns(w) \/ RunRaises(w)
      PROVE  Stops'
  <2>1. /\ walk[w].pc \in {"loading", "running"} /\ stopped' = stopped
        /\ \E r \in {"completed", "failed"} : Advance(w, [step EXCEPT ![walk[w].step] = r])
    BY <1>5 DEF WorkflowMissing, RunReturns, RunRaises
  <2>2. QED BY <1>c, <2>1
<1>6. ASSUME NEW c \in Campaign, Create(c) PROVE Stops'
  <2>1. c \notin stopped
    BY <1>6 DEF Create, Unmade
  <2>2. /\ \A d \in Campaign \ {c} : status'[d] = status[d]
        /\ stored' = stored \cup {c} /\ stopped' = stopped /\ walk' = walk
    BY <1>6 DEF Create, UserFrame, TypeOK
  <2>3. \A v \in Walker : \A d \in Campaign : Holds(v, d)' => Holds(v, d)
    BY <2>2 DEF Holds
  <2>4. QED BY <1>a, <2>1, <2>2, <2>3
<1>7. ASSUME NEW c \in Campaign, Activate(c) \/ Pause(c) \/ Cancel(c) \/ Delete(c)
      PROVE  Stops'
  <2>1. walk' = walk /\ \A d \in Campaign \ {c} : status'[d] = status[d]
    BY <1>7 DEF Activate, Pause, Cancel, Delete, UserFrame, TypeOK
  <2>2. \A d \in stopped' : d = c \/ d \in stopped
    BY <1>7 DEF Activate, Pause, Cancel, Delete, Stopped
  <2>3. c \in stopped' => (AtRest(c) \/ c \in stopped)
                         /\ (status'[c] \in {"paused", "cancelled"} \/ c \notin stored')
    BY <1>7 DEF Activate, Pause, Cancel, Delete, Stopped, TypeOK
  <2>4. stored' \subseteq stored
    BY <1>7 DEF Activate, Pause, Cancel, Delete
  <2>5. \A v \in Walker : \A d \in Campaign : Holds(v, d)' <=> Holds(v, d)
    BY <2>1 DEF Holds
  <2>6. stopped' \subseteq Campaign
    BY <2>2 DEF TypeOK
  <2>7. QED BY <2>1, <2>2, <2>3, <2>4, <2>5, <2>6 DEF Stops, AtRest
<1>8. ASSUME NEW s \in Step, AddStep(s) \/ TimePasses(s) PROVE Stops'
  <2>1. UNCHANGED <<walk, status, stored, stopped>>
    BY <1>8 DEF AddStep, TimePasses, UserFrame
  <2>2. QED BY <1>b, <2>1 DEF Holds
<1>9. CASE UNCHANGED vars
  BY <1>9, <1>b DEF vars, Holds
<1>10. QED BY <1>1, <1>2, <1>3, <1>4, <1>5, <1>6, <1>7, <1>8, <1>9 DEF Next

\* A step of a campaign stays one.
LEMMA StepsRemain ==
  ASSUME CampaignsAssumption, TypeOK, Structure, Unmade, [Next]_vars
  PROVE  /\ \A s \in Step : step[s] # "absent" => step'[s] # "absent"
         /\ \A c \in Campaign : StepsOf(c) \subseteq StepsOf(c)'
<1>1. ASSUME NEW w \in Walker, Start(w) \/ WorkflowMissing(w) \/ RunReturns(w) \/ RunRaises(w),
             NEW s \in Step, step[s] # "absent"
      PROVE  step'[s] # "absent"
  <2>1. \E r \in {"running", "failed", "completed"} : step' = [step EXCEPT ![walk[w].step] = r]
    BY <1>1 DEF Start, WorkflowMissing, RunReturns, RunRaises, Advance
  <2>2. QED BY <1>1, <2>1 DEF TypeOK
<1>2. ASSUME NEW c \in Campaign, Create(c), NEW s \in Step, step[s] # "absent"
      PROVE  step'[s] # "absent"
  BY <1>2 DEF Create
<1>3. ASSUME NEW x \in Step, AddStep(x), NEW s \in Step, step[s] # "absent"
      PROVE  step'[s] # "absent"
  BY <1>3 DEF AddStep, TypeOK
<1>4. \A s \in Step : step[s] # "absent" => step'[s] # "absent"
  <2>1. ASSUME step' = step PROVE \A s \in Step : step[s] # "absent" => step'[s] # "absent"
    BY <2>1
  <2>2. QED BY <1>1, <1>2, <1>3, <2>1
        DEF Next, vars, Begin, Turn, TurnAway, Return, Activate, Pause, Cancel, Delete,
            TimePasses
<1>5. QED BY <1>4 DEF StepsOf

\* A verdict of "completed" is an old one, or some step completed.
LEMMA VerdictEarned ==
  ASSUME NEW now, NEW c \in Campaign, NEW st \in [Step -> StepStatus],
         StepsOf(c) # {}, Verdict(now, c, st) = "completed"
  PROVE  now = "completed" \/ \E s \in StepsOf(c) : st[s] = "completed"
BY DEF Verdict, TerminalStep

\* The campaigns on a walk's list have steps.
LEMMA ListedStep ==
  ASSUME CampaignsAssumption, TypeOK, Structure, Unmade, Listed, [Next]_vars
  PROVE  Listed'
<1>1. \A c \in Campaign : StepsOf(c) \subseteq StepsOf(c)'
  BY StepsRemain
<1>2. \A w \in Walker : walk[w].todo \subseteq Campaign
  BY DEF TypeOK, Walks
<1>a. ASSUME \A w \in Walker : walk'[w].todo \subseteq walk[w].todo
      PROVE  Listed'
  BY <1>1, <1>2, <1>a DEF Listed
<1>3. ASSUME NEW w \in Walker, Begin(w) PROVE Listed'
  <2>1. /\ \A v \in Walker \ {w} : walk'[v] = walk[v]
        /\ \A c \in walk'[w].todo : c \in stored /\ DueSteps(c, elapsed) # {}
    BY <1>3 DEF Begin, TypeOK, IdleWalk
  <2>2. \A c \in walk'[w].todo : c \in Campaign /\ StepsOf(c) # {}
    BY <2>1 DEF DueSteps, TypeOK
  <2>3. QED BY <1>1, <1>2, <2>1, <2>2 DEF Listed
<1>4. ASSUME NEW w \in Walker, NEW c \in Campaign, Turn(w, c) \/ TurnAway(w, c) PROVE Listed'
  <2>1. CASE Turn(w, c)
    <3>1. /\ \A v \in Walker \ {w} : walk'[v] = walk[v]
          /\ walk'[w].todo \subseteq walk[w].todo
      BY <2>1, TurnTypes
    <3>2. QED BY <1>a, <3>1
  <2>2. CASE TurnAway(w, c)
    BY <1>a, <2>2 DEF TurnAway, TypeOK, Walks
  <2>3. QED BY <1>4, <2>1, <2>2
<1>5. ASSUME NEW w \in Walker, Return(w) \/ Start(w) PROVE Listed'
  BY <1>5, <1>a DEF Return, Start, TypeOK, Walks, IdleWalk
<1>6. ASSUME NEW w \in Walker, WorkflowMissing(w) \/ RunReturns(w) \/ RunRaises(w)
      PROVE  Listed'
  <2>1. /\ walk[w].pc \in {"loading", "running"}
        /\ \E r \in {"completed", "failed"} : Advance(w, [step EXCEPT ![walk[w].step] = r])
    BY <1>6 DEF WorkflowMissing, RunReturns, RunRaises
  <2>2. /\ \A v \in Walker \ {w} : walk'[v] = walk[v]
        /\ walk'[w].todo = walk[w].todo
    BY <2>1, AdvanceTypes
  <2>3. QED BY <1>a, <2>2
<1>7. ASSUME walk' = walk PROVE Listed'
  BY <1>7, <1>a
<1>8. QED BY <1>3, <1>4, <1>5, <1>6, <1>7
      DEF Next, vars, Create, Activate, Pause, Cancel, Delete, AddStep, TimePasses, UserFrame

\* What completed was started, and what runs alone is running.
LEMMA WorkedStep ==
  ASSUME CampaignsAssumption, TypeOK, Structure, Unmade, Started, OneHand, Worked, [Next]_vars
  PROVE  Worked'
<1>a. ASSUME shared \subseteq shared',
             \A s \in Step : step'[s] = "completed" => step[s] = "completed" \/ sent[s] > 0,
             \A s \in Step : sent[s] > 0 => sent'[s] > 0,
             \A w \in Walker : walk'[w].pc = "running" =>
                /\ walk'[w].step \in Step
                /\ \/ /\ walk[w].pc = "running" /\ walk'[w].step = walk[w].step
                      /\ walk[w].step \notin shared /\ step[walk[w].step] = "running" =>
                            step'[walk[w].step] = "running"
                   \/ sent'[walk'[w].step] > 0 /\ step'[walk'[w].step] = "running"
      PROVE  Worked'
  BY <1>a DEF Worked
<1>b. \A w \in Walker : walk[w].pc \in {"loading", "running"} =>
          walk[w].step \in Step /\ walk[w].step \in InHand(w)
  BY DEF Structure, InHand, CampaignsAssumption
\* A step that one walk ends or starts and another runs is shared.
<1>c. ASSUME NEW v \in Walker, NEW w \in Walker, v # w,
             walk[v].pc \in {"loading", "running"}, walk[w].pc = "running",
             walk[w].step = walk[v].step
      PROVE  walk[w].step \in shared
  <2> SUFFICES ASSUME walk[w].step \notin shared PROVE FALSE
    OBVIOUS
  <2>1. PICK s \in Step \ shared : s = walk[w].step
    BY <1>b, <1>c
  <2>2. s \in InHand(v) /\ s \in InHand(w)
    BY <1>b, <1>c, <2>1
  <2>3. QED BY <1>c, <2>2 DEF OneHand
<1>d. ASSUME NEW w \in Walker, NEW r \in {"completed", "failed"},
             walk[w].pc \in {"loading", "running"}, sent' = sent, shared' = shared,
             r = "completed" => walk[w].pc = "running",
             Advance(w, [step EXCEPT ![walk[w].step] = r])
      PROVE  Worked'
  <2>1. /\ \A v \in Walker \ {w} : walk'[v] = walk[v]
        /\ walk'[w].pc # "running"
    BY <1>d, AdvanceTypes
  <2>2. \A s \in Step : step'[s] = IF s = walk[w].step THEN r ELSE step[s]
    BY <1>d, AdvanceHands
  <2>3. \A s \in Step : step'[s] = "completed" => step[s] = "completed" \/ sent[s] > 0
    BY <1>d, <2>2 DEF Worked
  <2>4. \A v \in Walker : walk'[v].pc = "running" =>
           /\ walk'[v].step \in Step
           /\ walk[v].pc = "running" /\ walk'[v].step = walk[v].step
           /\ walk[v].step \notin shared /\ step[walk[v].step] = "running" =>
                 step'[walk[v].step] = "running"
    <3> SUFFICES ASSUME NEW v \in Walker, walk'[v].pc = "running"
                 PROVE  /\ walk'[v].step \in Step
                        /\ walk[v].pc = "running" /\ walk'[v].step = walk[v].step
                        /\ walk[v].step \notin shared /\ step[walk[v].step] = "running" =>
                              step'[walk[v].step] = "running"
      OBVIOUS
    <3>1. v # w /\ walk'[v] = walk[v] /\ walk[v].pc = "running"
      BY <2>1
    <3>2. walk[v].step \in Step
      BY <3>1, <1>b
    <3>3. walk[v].step \notin shared => walk[v].step # walk[w].step
      BY <3>1, <1>c, <1>d
    <3>4. QED BY <3>1, <3>2, <3>3, <2>2
  <2>5. QED BY <1>a, <1>d, <2>3, <2>4
<1>1. ASSUME NEW w \in Walker, Begin(w) \/ Return(w) \/ \E c \in Campaign : TurnAway(w, c)
      PROVE  Worked'
  <2>1. /\ \A v \in Walker \ {w} : walk'[v] = walk[v]
        /\ walk'[w].pc \in {"idle", "between"}
    <3>1. CASE Begin(w)
      BY <3>1 DEF Begin, TypeOK, IdleWalk
    <3>2. CASE Return(w)
      BY <3>2 DEF Return, TypeOK, IdleWalk
    <3>3. CASE \E c \in Campaign : TurnAway(w, c)
      BY <3>3 DEF TurnAway, TypeOK, Walks
    <3>4. QED BY <1>1, <3>1, <3>2, <3>3
  <2>2. UNCHANGED <<step, sent, shared>>
    BY <1>1 DEF Begin, Return, TurnAway
  <2>3. QED BY <1>a, <1>b, <2>1, <2>2
<1>2. ASSUME NEW w \in Walker, NEW c \in Campaign, Turn(w, c) PROVE Worked'
  <2>1. /\ \A v \in Walker \ {w} : walk'[v] = walk[v]
        /\ walk'[w].pc = "loading"
    BY <1>2, TurnTypes
  <2>2. UNCHANGED <<step, sent>>
    BY <1>2 DEF Turn
  <2>3. shared \subseteq shared'
    BY <1>2, TurnHands
  <2>4. QED BY <1>a, <1>b, <2>1, <2>2, <2>3
<1>3. ASSUME NEW w \in Walker, Start(w) PROVE Worked'
  <2>x. PICK x \in Step : x = walk[w].step
    BY <1>3, <1>b DEF Start
  <2>1. /\ \A s \in Step : step'[s] = IF s = x THEN "running" ELSE step[s]
        /\ \A s \in Step : sent'[s] = IF s = x THEN sent[x] + 1 ELSE sent[s]
        /\ shared' = shared
    BY <1>3, <2>x DEF Start, TypeOK
  <2>2. \A s \in Step : sent[s] \in Nat
    BY DEF TypeOK
  <2>3. sent'[x] > 0 /\ \A s \in Step : sent[s] > 0 => sent'[s] > 0
    BY <2>1, <2>2
  <2>4. \A v \in Walker \ {w} : walk'[v] = walk[v]
    BY <1>3, QuietHands
  <2>5. walk'[w].step = x
    BY <1>3, <2>x DEF Start, TypeOK, Walks
  <2>6. \A s \in Step : /\ step'[s] = "completed" => step[s] = "completed"
                        /\ step[s] = "running" => step'[s] = "running"
    BY <2>1
  <2>7. step'[x] = "running"
    BY <2>1
  <2>8. \A v \in Walker : walk'[v].pc = "running" =>
           /\ walk'[v].step \in Step
           /\ \/ /\ walk[v].pc = "running" /\ walk'[v].step = walk[v].step
                 /\ walk[v].step \notin shared /\ step[walk[v].step] = "running" =>
                       step'[walk[v].step] = "running"
              \/ sent'[walk'[v].step] > 0 /\ step'[walk'[v].step] = "running"
    BY <1>b, <2>3, <2>4, <2>5, <2>6, <2>7
  <2>9. QED BY <1>a, <2>1, <2>3, <2>6, <2>8
<1>4. ASSUME NEW w \in Walker, WorkflowMissing(w) \/ RunRaises(w) PROVE Worked'
  <2>1. /\ walk[w].pc \in {"loading", "running"} /\ sent' = sent /\ shared' = shared
        /\ Advance(w, [step EXCEPT ![walk[w].step] = "failed"])
    BY <1>4 DEF WorkflowMissing, RunRaises
  <2>2. QED BY <1>d, <2>1
<1>5. ASSUME NEW w \in Walker, RunReturns(w) PROVE Worked'
  <2>1. /\ walk[w].pc = "running" /\ sent' = sent /\ shared' = shared
        /\ Advance(w, [step EXCEPT ![walk[w].step] = "completed"])
    BY <1>5 DEF RunReturns
  <2>2. QED BY <1>d, <2>1
<1>6. ASSUME UNCHANGED <<walk, sent, shared>>,
             \A s \in Step : step'[s] = step[s] \/ (step[s] = "absent" /\ step'[s] = "pending")
      PROVE  Worked'
  <2>1. \A w \in Walker : walk[w].pc = "running" =>
           /\ walk[w].step \in Step
           /\ step[walk[w].step] = "running" => step'[walk[w].step] = "running"
    BY <1>b, <1>6
  <2>2. QED BY <1>a, <1>6, <2>1
<1>7. ASSUME NEW c \in Campaign, Create(c) PROVE Worked'
  <2>1. \A s \in Step : Home[s] = c => step[s] = "absent"
    BY <1>7 DEF Create, Unmade
  <2>2. QED BY <1>6, <1>7, <2>1 DEF Create, UserFrame
<1>8. ASSUME NEW c \in Campaign, Activate(c) \/ Pause(c) \/ Cancel(c) \/ Delete(c)
      PROVE  Worked'
  BY <1>6, <1>8 DEF Activate, Pause, Cancel, Delete, UserFrame
<1>9. ASSUME NEW s \in Step, AddStep(s) \/ TimePasses(s) PROVE Worked'
  BY <1>6, <1>9 DEF AddStep, TimePasses, UserFrame, TypeOK
<1>10. CASE UNCHANGED vars
  BY <1>6, <1>10 DEF vars
<1>11. QED BY <1>1, <1>2, <1>3, <1>4, <1>5, <1>7, <1>8, <1>9, <1>10 DEF Next

\* A verdict is earned, and what earned it stays.
LEMMA JudgedStep ==
  ASSUME CampaignsAssumption, TypeOK, Structure, Unmade, Started, OneHand, Listed, Worked,
         Judged, [Next]_vars
  PROVE  Judged'
<1>1. \A c \in Campaign : StepsOf(c) \subseteq StepsOf(c)'
  BY StepsRemain
<1>a. ASSUME shared \subseteq shared',
             \A c \in Campaign : status'[c] = "completed" =>
                status[c] = "completed" \/ \E s \in StepsOf(c) : step'[s] = "completed",
             \A s \in Step \ shared : step[s] = "completed" => step'[s] = "completed"
      PROVE  Judged'
  <2> SUFFICES ASSUME NEW c \in Campaign, status'[c] = "completed",
                      (StepsOf(c) \cap shared)' = {}
               PROVE  (\E s \in StepsOf(c) : step[s] = "completed")'
    BY DEF Judged
  <2>1. CASE \E s \in StepsOf(c) : step'[s] = "completed"
    BY <1>1, <2>1
  <2>2. CASE status[c] = "completed"
    <3>1. StepsOf(c) \cap shared = {}
      BY <1>1, <1>a
    <3>2. PICK s \in StepsOf(c) : step[s] = "completed"
      BY <2>2, <3>1 DEF Judged
    <3>3. s \in Step \ shared
      BY <3>1 DEF StepsOf
    <3>4. QED BY <1>1, <1>a, <3>2, <3>3
  <2>3. QED BY <1>a, <2>1, <2>2
\* A step that somebody starts or ends is not completed, unless shared.
<1>b. \A w \in Walker : walk[w].pc \in {"loading", "running"} =>
         /\ walk[w].step \in Step
         /\ walk[w].step \notin shared => step[walk[w].step] # "completed"
  <2>1. \A w \in Walker : walk[w].pc = "loading" => Awaits(w, walk[w].step)
    BY DEF Awaits
  <2>2. \A w \in Walker : walk[w].pc \in {"loading", "running"} => walk[w].step \in Step
    BY DEF Structure
  <2>3. \A s \in Step : step[s] = "completed" => sent[s] # 0
    BY DEF Worked, TypeOK
  <2>4. QED BY <2>1, <2>2, <2>3 DEF Worked, OneHand
<1>c. ASSUME NEW w \in Walker, NEW r \in {"completed", "failed"},
             walk[w].pc \in {"loading", "running"}, shared' = shared,
             Advance(w, [step EXCEPT ![walk[w].step] = r])
      PROVE  Judged'
  <2>1. \A s \in Step : step'[s] = IF s = walk[w].step THEN r ELSE step[s]
    BY <1>c, AdvanceHands
  <2>2. \A s \in Step \ shared : step[s] = "completed" => step'[s] = "completed"
    BY <1>b, <1>c, <2>1
  <2>3. ASSUME NEW c \in Campaign, status'[c] = "completed", status[c] # "completed"
        PROVE  \E s \in StepsOf(c) : step'[s] = "completed"
    <3>1. c = walk[w].at
      BY <1>c, <2>3, AdvanceTypes
    <3>2. status' = [status EXCEPT ![c] = Verdict(status[c], c, step')]
      BY <1>c, <2>3, <3>1 DEF Advance
    <3>3. Verdict(status[c], c, step') = "completed"
      BY <2>3, <3>2 DEF TypeOK
    <3>4. step' \in [Step -> StepStatus]
      BY <1>c, AdvanceTypes
    <3>5. walk[w].step \in StepsOf(c)
      <4>1. walk[w].step \in Step /\ walk[w].at = Home[walk[w].step]
            /\ walk[w].step \in InHand(w)
        BY <1>c DEF Structure, InHand, CampaignsAssumption
      <4>2. step[walk[w].step] # "absent"
        BY <4>1 DEF Started
      <4>3. QED BY <3>1, <4>1, <4>2 DEF StepsOf
    <3>6. QED BY <2>3, <3>3, <3>4, <3>5, VerdictEarned
  <2>4. QED BY <1>a, <1>c, <2>2, <2>3
<1>2. ASSUME NEW w \in Walker, NEW c \in Campaign, TurnAway(w, c) PROVE Judged'
  <2>1. /\ status' = [status EXCEPT ![c] = Verdict(Began(c), c, step)]
        /\ UNCHANGED <<step, shared>> /\ c \in walk[w].todo
    BY <1>2 DEF TurnAway
  <2>2. StepsOf(c) # {}
    BY <2>1 DEF Listed
  <2>3. step \in [Step -> StepStatus]
    BY DEF TypeOK
  <2>4. Verdict(Began(c), c, step) = "completed" =>
           Began(c) = "completed" \/ \E s \in StepsOf(c) : step[s] = "completed"
    BY <2>2, <2>3, VerdictEarned
  <2>5. Began(c) = "completed" => status[c] = "completed"
    BY DEF Began
  <2>6. \A d \in Campaign : status'[d] = "completed" =>
           status[d] = "completed" \/ \E s \in StepsOf(d) : step[s] = "completed"
    BY <2>1, <2>4, <2>5 DEF TypeOK
  <2>7. QED BY <1>a, <2>1, <2>6
<1>3. ASSUME NEW w \in Walker, NEW c \in Campaign, Turn(w, c) PROVE Judged'
  <2>1. status' = [status EXCEPT ![c] = Began(c)] /\ step' = step
    BY <1>3 DEF Turn
  <2>2. shared \subseteq shared'
    BY <1>3, TurnHands
  <2>3. \A d \in Campaign : status'[d] = "completed" => status[d] = "completed"
    BY <2>1 DEF Began, TypeOK
  <2>4. QED BY <1>a, <2>1, <2>2, <2>3
<1>4. ASSUME NEW w \in Walker, Start(w) PROVE Judged'
  <2>1. /\ \A s \in Step : step'[s] = IF s = walk[w].step THEN "running" ELSE step[s]
        /\ UNCHANGED <<status, shared>> /\ walk[w].pc = "loading"
    BY <1>4 DEF Start, TypeOK
  <2>2. \A s \in Step \ shared : step[s] = "completed" => step'[s] = "completed"
    BY <1>b, <2>1
  <2>3. QED BY <1>a, <2>1, <2>2
<1>5. ASSUME NEW w \in Walker, WorkflowMissing(w) \/ RunReturns(w) \/ RunRaises(w)
      PROVE  Judged'
  <2>1. /\ walk[w].pc \in {"loading", "running"} /\ shared' = shared
        /\ \E r \in {"completed", "failed"} : Advance(w, [step EXCEPT ![walk[w].step] = r])
    BY <1>5 DEF WorkflowMissing, RunReturns, RunRaises
  <2>2. QED BY <1>c, <2>1
<1>6. ASSUME NEW c \in Campaign, Create(c) PROVE Judged'
  <2>1. \A s \in Step : Home[s] = c => step[s] = "absent"
    BY <1>6 DEF Create, Unmade
  <2>2. shared' = shared /\ \A d \in Campaign : status'[d] = "completed" => status[d] = "completed"
    BY <1>6 DEF Create, UserFrame, TypeOK
  <2>3. \A s \in Step : step[s] = "completed" => step'[s] = "completed"
    BY <1>6, <2>1 DEF Create
  <2>4. QED BY <1>a, <2>2, <2>3
<1>7. ASSUME NEW c \in Campaign, Activate(c) \/ Pause(c) \/ Cancel(c) \/ Delete(c)
      PROVE  Judged'
  <2>1. UNCHANGED <<step, shared>>
    BY <1>7 DEF Activate, Pause, Cancel, Delete, UserFrame
  <2>2. \A d \in Campaign : status'[d] = "completed" => status[d] = "completed"
    BY <1>7 DEF Activate, Pause, Cancel, Delete, TypeOK
  <2>3. QED BY <1>a, <2>1, <2>2
<1>8. ASSUME NEW s \in Step, AddStep(s) PROVE Judged'
  <2>1. UNCHANGED <<status, shared>>
        /\ \A x \in Step : step[x] = "completed" => step'[x] = "completed"
    BY <1>8 DEF AddStep, UserFrame, TypeOK
  <2>2. QED BY <1>a, <2>1
<1>9. ASSUME UNCHANGED <<status, step, shared>> PROVE Judged'
  BY <1>a, <1>9
<1>10. QED BY <1>2, <1>3, <1>4, <1>5, <1>6, <1>7, <1>8, <1>9
       DEF Next, vars, Begin, Return, TimePasses

\* The inductive invariant holds of every behaviour.
LEMMA Inductive == Spec => []IInv
<1>1. Init => IInv
  <2> SUFFICES ASSUME Init PROVE IInv
    OBVIOUS
  <2> USE CampaignsAssumption DEF CampaignsAssumption
  <2>1. IdleWalk \in Walks /\ IdleWalk.pc = "idle" /\ IdleWalk.at = NoCampaign
        /\ IdleWalk.left = {} /\ IdleWalk.step = NoStep /\ IdleWalk.todo = {}
    BY DEF IdleWalk, Walks
  <2>2. \A w \in Walker : walk[w] = IdleWalk
    BY DEF Init
  <2>3. TypeOK
    BY <2>1 DEF Init, TypeOK, CampaignStatus, StepStatus
  <2>4. \A w \in Walker : InHand(w) = {}
    BY <2>1, <2>2 DEF InHand
  <2>5. Structure /\ Story /\ Unmade /\ Stops
    BY <2>1, <2>2, <2>4 DEF Init, Structure, Story, StoryOrder, Unmade, Stops
  <2>6. Started /\ OneHand
    BY <2>1, <2>2, <2>4 DEF Init, Started, OneHand, Awaits
  <2>7. Listed /\ Worked /\ Judged
    BY <2>1, <2>2 DEF Init, Listed, Worked, Judged
  <2>8. QED BY <2>3, <2>5, <2>6, <2>7 DEF IInv
<1>2. IInv /\ [Next]_vars => IInv'
  BY CampaignsAssumption, TypeStep, StoryStep, UnmadeStep, StartedStep, OneHandStep, StopsStep,
     ListedStep, WorkedStep, JudgedStep
  DEF IInv
<1>3. QED BY <1>1, <1>2, PTL DEF Spec

\* Every variable stays in its type.
THEOREM CampaignTypes == Spec => []TypeOK
BY Inductive, PTL DEF IInv

\* However walks overlap, a step is dispatched after the steps it builds on.
THEOREM StoryIsOrdered == Spec => []StoryOrder
<1>1. IInv => StoryOrder
  BY DEF IInv, Story
<1>2. QED BY <1>1, Inductive, PTL

\* Without two walks that have a step in hand together, it is sent once at most.
THEOREM RepeatsAreShared == Spec => []RepeatsNeedSharing
<1>1. IInv => RepeatsNeedSharing
  <2> SUFFICES ASSUME IInv, NEW s \in Step, s \notin shared PROVE ~(sent[s] > 1)
    BY DEF RepeatsNeedSharing
  <2>1. sent[s] <= 1 /\ sent[s] \in Nat
    BY DEF IInv, OneHand, TypeOK
  <2>2. QED BY <2>1
<1>2. QED BY <1>1, Inductive, PTL

\* A campaign stopped while no walk has it stays stopped until it is activated.
THEOREM StopsHold == Spec => []StopHolds
<1>1. IInv => StopHolds
  BY DEF IInv, Stops, StopHolds, Holds
<1>2. QED BY <1>1, Inductive, PTL

\* A campaign no step of which two walks shared is completed only when a step
\* of it completed, whatever was added, activated or judged in between.
THEOREM CompletionMeansSent == Spec => []CompletedMeansSent
<1>1. IInv => CompletedMeansSent
  BY DEF IInv, Judged, CompletedMeansSent
<1>2. QED BY <1>1, Inductive, PTL

=============================================================================
