------------------------------- MODULE Inbox -------------------------------
(***************************************************************************)
(* The chat side of an organisation with one messaging trigger             *)
(* (api/v1/webhooks.py, services/trigger_service.py, adapters/triggers,    *)
(* adapters/review_channels).  People write in chats; the provider delivers *)
(* each message to the webhook until it is answered with success.  A       *)
(* message that answers a draft decides its review session, any other      *)
(* starts a run, whose draft goes back into the chat.  The whole run       *)
(* happens inside the request, so the answer to a draft arrives while the  *)
(* request that sent it is still at work.  Votes in a group and the copies *)
(* requests hold of a session and of a run are InlineRun's subject.        *)
(***************************************************************************)
EXTENDS Naturals, Sequences, FiniteSets

CONSTANTS
    Channels,    \* messaging channels the trigger may be of
    Chats,       \* chats (or senders) on the channel
    Requests,    \* slots 1..n of the webhook requests in flight
    Typed,       \* what people type, and whether a picture comes with it
    Labels,      \* the buttons they tap
    MaxMessages, \* bound on the messages people write
    MaxRuns,     \* bound on the runs messages start
    MaxSessions, \* bound on the review sessions
    MaxTroubles  \* bound, on each channel, on requests that die, sends that fail,
                 \* deliveries the provider gives up waiting for and trigger edits

InboxAssumption ==
    /\ Channels \subseteq {"telegram", "whatsapp", "instagram"}
    /\ Typed \subseteq {"approve", "reject", "revise", "words", "short"} \X BOOLEAN
    /\ Labels \subseteq {"approve", "reject", "revise"}
    /\ {MaxMessages, MaxRuns, MaxSessions} \subseteq Nat
    /\ MaxTroubles \in [Channels -> Nat]

VARIABLES
    channel,   \* plugin of the trigger and of its review channel
    trigger,   \* the trigger's row: status and allowlist
    last,      \* number of the latest message in each chat
    said,      \* numbers of the bot's messages in each chat
    messages,  \* what people wrote, whether it still is to be delivered, and (history)
               \* whether it came from a chat that was not allowed then
    runs,      \* workflow_runs rows
    sessions,  \* review_sessions rows
    req,       \* webhook requests
    troubles

inboxVars == <<channel, trigger, last, said, messages, runs, sessions, req, troubles>>

Trigger == [status : {"active", "paused", "deleted"}, allowed : SUBSET Chats]
RunStatus == {"executing", "awaiting", "succeeded", "cancelled", "failed"}
SessionStatus == {"pending", "approved", "revision_requested", "rejected"}

\* What a message says: one of the three decisions, four words or more, or less.
Texts == {"approve", "revise", "reject", "words", "short"}

Idle == [pc |-> "idle", msg |-> 0, run |-> 0, session |-> 0, ref |-> 0,
         verdict |-> "pending", picture |-> FALSE]

TypeOK ==
    /\ channel \in Channels /\ trigger \in Trigger
    /\ last \in [Chats -> Nat] /\ said \in [Chats -> SUBSET Nat]
    /\ messages \in Seq([chat : Chats, text : Texts, reply : Nat, tap : BOOLEAN,
                         picture : BOOLEAN, due : BOOLEAN, barred : BOOLEAN])
    /\ runs \in Seq([chat : Chats, status : RunStatus, picture : BOOLEAN])
    /\ sessions \in Seq([run : DOMAIN runs, chat : Chats, number : Nat, ref : Nat,
                         status : SessionStatus, shows : BOOLEAN, by : Seq(DOMAIN messages),
                         rushed : BOOLEAN])
    /\ req \in [Requests ->
          [pc : {"idle", "resuming", "drafting", "sending", "saving", "closing"},
           msg : 0..Len(messages), run : 0..Len(runs), session : 0..Len(sessions),
           ref : Nat, verdict : SessionStatus, picture : BOOLEAN]]
    /\ troubles \in 0..MaxTroubles[channel]

NewTrigger == [status |-> "active", allowed |-> {}]

Init ==
    /\ channel \in Channels
    /\ trigger = NewTrigger
    /\ last = [c \in Chats |-> 0] /\ said = [c \in Chats |-> {}]
    /\ messages = <<>> /\ runs = <<>> /\ sessions = <<>>
    /\ req = [q \in Requests |-> Idle]
    /\ troubles = 0

\* Telegram numbers the messages of each chat; the others have one id each.
NextNumber(c) ==
    IF channel = "telegram" THEN last[c] + 1
    ELSE 1 + (CHOOSE n \in {last[d] : d \in Chats} : \A d \in Chats : last[d] <= n)

Trouble == troubles < MaxTroubles[channel] /\ troubles' = troubles + 1

-----------------------------------------------------------------------------
(* What people write.                                                      *)

Message(c, text, reply, tap, picture) ==
    /\ Len(messages) < MaxMessages
    /\ last' = [last EXCEPT ![c] = NextNumber(c)]
    /\ messages' = Append(messages, [chat |-> c, text |-> text, reply |-> reply, tap |-> tap,
                                     picture |-> picture, due |-> TRUE, barred |-> FALSE])
    /\ UNCHANGED <<channel, trigger, said, runs, sessions, req, troubles>>

\* Text of its own, or in reply to a message of the bot.
Write(c) ==
    \E typed \in Typed, reply \in {0} \cup said[c] :
       Message(c, typed[1], reply, FALSE, typed[2])

\* A quick reply of Instagram does not name the message it is under.
ButtonReply(s) == IF channel = "instagram" THEN 0 ELSE sessions[s].number

\* A button under a draft; only Telegram's arrive marked as taps.
Tap(c) ==
    \E s \in DOMAIN sessions, label \in Labels :
       /\ sessions[s].chat = c /\ sessions[s].number # 0
       /\ Message(c, label, ButtonReply(s), channel = "telegram", FALSE)

-----------------------------------------------------------------------------
(* Delivery: what died or took too long is delivered again, and a paused or *)
(* deleted trigger answers nothing.                                        *)

\* parse_payload() drops the senders that are not allowed.
Admits(c) == trigger.allowed = {} \/ c \in trigger.allowed

\* Telegram's files are fetched and stored; one that fails is left out.
Kept(m) == {m.picture, m.picture /\ channel # "telegram"}

Arrives(q, i) ==
    /\ req[q].pc = "idle" /\ \A p \in Requests : p < q => req[p].pc # "idle"
    /\ messages[i].due /\ trigger.status = "active"

Answered(i) == messages' = [messages EXCEPT ![i].due = FALSE]

Drop(q, i) ==
    /\ Arrives(q, i) /\ ~Admits(messages[i].chat)
    /\ messages' = [messages EXCEPT ![i].due = FALSE, ![i].barred = TRUE]
    /\ UNCHANGED <<channel, trigger, last, said, runs, sessions, req, troubles>>

GiveUp(q) ==
    /\ req[q].pc # "idle" /\ ~messages[req[q].msg].due
    /\ Trouble
    /\ messages' = [messages EXCEPT ![req[q].msg].due = TRUE]
    /\ UNCHANGED <<channel, trigger, last, said, runs, sessions, req>>

\* The process dies, or the request ends in an error: a run that was drafting
\* fails when the error is caught and is left as it is by a crash.
Die(q) ==
    /\ req[q].pc # "idle" /\ Trouble
    /\ req' = [req EXCEPT ![q] = Idle]
    /\ messages' = [messages EXCEPT ![req[q].msg].due = TRUE]
    /\ \/ UNCHANGED runs
       \/ req[q].pc = "drafting" /\ req[q].session = 0
          /\ runs' = [runs EXCEPT ![req[q].run].status = "failed"]
    /\ UNCHANGED <<channel, trigger, last, said, sessions>>

-----------------------------------------------------------------------------
(* _handle_messaging_webhook(): the session a message answers.             *)

\* get_by_message_ref() looks in the whole channel, latest_pending_for() in the
\* sender's chat.
OpenByRef(n) ==
    {s \in DOMAIN sessions : n # 0 /\ sessions[s].ref = n /\ sessions[s].status = "pending"}
ByRef(n) == {s \in DOMAIN sessions : n # 0 /\ sessions[s].ref = n}

PendingAnywhere(c) == {s \in DOMAIN sessions : sessions[s].status = "pending"}
PendingIn(c) ==
    {s \in DOMAIN sessions : sessions[s].chat = c /\ sessions[s].status = "pending"}

LatestOf(S) == IF S = {} THEN 0 ELSE CHOOSE s \in S : \A t \in S : t <= s
Found(m) ==
    LatestOf(IF ByRef(m.reply) # {} THEN ByRef(m.reply) ELSE PendingIn(m.chat))

\* parse_decision(): four words or more ask for a revision, fewer decide nothing.
Verdict(text) ==
    CASE text = "approve" -> "approved" [] text = "reject" -> "rejected"
      [] text \in {"revise", "words"} -> "revision_requested" [] text = "short" -> "pending"

Working(r) == \E q \in Requests : req[q].run = r

\* A tap on Revise says nothing yet: the chat is asked what should change.
NotIntercepted(m) == FALSE
Intercepted(m) == m.tap /\ m.text = "revise" /\ PendingIn(m.chat) # {}

\* The bot says something in a chat, with the credentials of the active trigger.
Credentials == trigger.status = "active"
Say(c) ==
    /\ last' = [last EXCEPT ![c] = NextNumber(c)]
    /\ said' = [said EXCEPT ![c] = @ \cup {NextNumber(c)}]

\* acknowledge(): a failed send is only logged.
Ask(c) == (Credentials /\ Say(c)) \/ UNCHANGED <<last, said>>

Prompt(q, i) ==
    LET c == messages[i].chat IN
    /\ Arrives(q, i) /\ Admits(c) /\ Intercepted(messages[i])
    /\ Ask(c)
    /\ Answered(i)
    /\ UNCHANGED <<channel, trigger, runs, sessions, req, troubles>>

\* apply_reply(): decided sessions are decided again.  Two sessions of one number
\* are an error, and the message comes back for ever.
Decide(q, i) ==
    LET m == messages[i]
        s == Found(m)
        verdict == IF m.text = "short" THEN sessions[s].status ELSE Verdict(m.text) IN
    /\ Arrives(q, i) /\ Admits(m.chat) /\ ~Intercepted(m)
    /\ Cardinality(ByRef(m.reply)) <= 1 /\ s # 0
    /\ sessions' = IF m.text = "short" THEN sessions
                   ELSE [sessions EXCEPT ![s].status = verdict, ![s].by = Append(@, i),
                                         ![s].rushed = Working(sessions[s].run)]
    /\ \E kept \in Kept(m) :
          req' = [req EXCEPT ![q] = [Idle EXCEPT !.pc = "resuming", !.msg = i, !.session = s,
                                       !.run = sessions[s].run, !.verdict = verdict,
                                       !.picture = kept]]
    /\ Answered(i)
    /\ UNCHANGED <<channel, trigger, last, said, runs, troubles>>

\* run_from_trigger(): a message that answers nothing starts a run, and its
\* text and pictures are the brief.
Start(q, i) ==
    LET m == messages[i] IN
    /\ Arrives(q, i) /\ Admits(m.chat) /\ ~Intercepted(m)
    /\ ByRef(m.reply) = {} /\ Found(m) = 0
    /\ Len(runs) < MaxRuns
    /\ \E kept \in Kept(m) :
          runs' = Append(runs, [chat |-> m.chat, status |-> "executing", picture |-> kept])
    /\ req' = [req EXCEPT ![q] = [Idle EXCEPT !.pc = "drafting", !.msg = i,
                                              !.run = Len(runs) + 1]]
    /\ Answered(i)
    /\ UNCHANGED <<channel, trigger, last, said, sessions, troubles>>

-----------------------------------------------------------------------------
(* The run.                                                                *)

\* resume_after_review() goes on only with a run that waits.
Resume(q) ==
    LET r == req[q].run IN
    /\ req[q].pc = "resuming"
    /\ IF runs[r].status # "awaiting" \/ req[q].verdict = "pending"
       THEN req' = [req EXCEPT ![q] = Idle] /\ UNCHANGED runs
       ELSE \/ /\ req[q].verdict \in {"approved", "rejected"}
               /\ runs' = [runs EXCEPT ![r].status =
                              IF req[q].verdict = "approved" THEN "succeeded" ELSE "cancelled"]
               /\ req' = [req EXCEPT ![q] = Idle]
            \/ /\ req[q].verdict = "revision_requested"
               /\ runs' = [runs EXCEPT ![r].status = "executing"]
               /\ req' = [req EXCEPT ![q].pc = "drafting"]
    /\ UNCHANGED <<channel, trigger, last, said, messages, sessions, troubles>>

\* The feedback's picture takes the place of the brief's, which is kept with
\* the run and restored at each revision.
ShowsFeedbackOnly(q) == req[q].picture
Shows(q) == req[q].picture \/ runs[req[q].run].picture

Draft(q) ==
    /\ req[q].pc = "drafting" /\ Len(sessions) < MaxSessions
    /\ runs' = [runs EXCEPT ![req[q].run].status = "awaiting"]
    /\ sessions' = Append(sessions, [run |-> req[q].run, chat |-> runs[req[q].run].chat,
                             number |-> 0, ref |-> 0, status |-> "pending",
                             shows |-> Shows(q), by |-> <<>>, rushed |-> FALSE])
    /\ req' = [req EXCEPT ![q].pc = "sending", ![q].session = Len(sessions) + 1]
    /\ UNCHANGED <<channel, trigger, last, said, messages, troubles>>

\* send_for_review() returns the message's number, or a placeholder when the send
\* fails or there are no credentials.
Send(q) ==
    LET s == req[q].session
        c == sessions[s].chat IN
    /\ req[q].pc = "sending" /\ Credentials
    /\ Say(c)
    /\ sessions' = [sessions EXCEPT ![s].number = NextNumber(c)]
    /\ req' = [req EXCEPT ![q].pc = "saving", ![q].ref = NextNumber(c)]
    /\ UNCHANGED <<channel, trigger, messages, runs, troubles>>

SendFails(q) ==
    /\ req[q].pc = "sending"
    /\ IF Credentials THEN Trouble ELSE UNCHANGED troubles
    /\ req' = [req EXCEPT ![q].pc = "saving"]
    /\ UNCHANGED <<channel, trigger, last, said, messages, runs, sessions>>

\* The session is written back whole, as it was before the message was out.
SaveRef(q) ==
    /\ req[q].pc = "saving"
    /\ sessions' = [sessions EXCEPT ![req[q].session].ref = req[q].ref,
                                    ![req[q].session].status = "pending"]
    /\ req' = [req EXCEPT ![q].pc = "closing"]
    /\ UNCHANGED <<channel, trigger, last, said, messages, runs, troubles>>

\* So is the run.
Close(q) ==
    /\ req[q].pc = "closing"
    /\ runs' = [runs EXCEPT ![req[q].run].status = "awaiting"]
    /\ req' = [req EXCEPT ![q] = Idle]
    /\ UNCHANGED <<channel, trigger, last, said, messages, sessions, troubles>>

-----------------------------------------------------------------------------
(* The triggers page.                                                      *)

Edit ==
    /\ trigger.status # "deleted" /\ Trouble
    /\ \/ trigger' = [trigger EXCEPT !.status = IF @ = "active" THEN "paused" ELSE "active"]
       \/ \E allowed \in SUBSET Chats : trigger' = [trigger EXCEPT !.allowed = allowed]
    /\ UNCHANGED <<channel, last, said, messages, runs, sessions, req>>

Delete ==
    /\ trigger.status # "deleted" /\ Trouble
    /\ trigger' = [trigger EXCEPT !.status = "deleted"]
    /\ UNCHANGED <<channel, last, said, messages, runs, sessions, req>>

-----------------------------------------------------------------------------
Receive(q, i) == Drop(q, i) \/ Prompt(q, i) \/ Decide(q, i) \/ Start(q, i)
Handle(q) ==
    \/ GiveUp(q) \/ Die(q) \/ Resume(q) \/ Draft(q) \/ Send(q) \/ SendFails(q)
    \/ SaveRef(q) \/ Close(q)

Next ==
    \/ \E c \in Chats : Write(c) \/ Tap(c)
    \/ \E q \in Requests : Handle(q) \/ \E i \in DOMAIN messages : Receive(q, i)
    \/ Edit \/ Delete

Spec == Init /\ [][Next]_inboxVars
-----------------------------------------------------------------------------
(* Properties.                                                             *)

\* A draft is decided by a message of its own chat, but for one of Telegram
\* that answers a message of the same number in another chat.
OwnChat ==
    \A s \in DOMAIN sessions : \A k \in DOMAIN sessions[s].by :
       LET m == messages[sessions[s].by[k]] IN
       \/ m.chat = sessions[s].chat
       \/ channel = "telegram" /\ m.reply # 0 /\ m.reply = sessions[s].ref

\* "every tap is a complete decision" only for Approve and Reject: on Telegram
\* the label Revise is nobody's feedback to a draft of the chat that has not
\* been decided before.
LabelsAreNoFeedback ==
    channel = "telegram" =>
       \A s \in DOMAIN sessions :
          sessions[s].by # <<>> /\ messages[sessions[s].by[1]].chat = sessions[s].chat
             => LET m == messages[sessions[s].by[1]] IN ~(m.tap /\ m.text = "revise")

Newest(s) == \A t \in DOMAIN sessions : sessions[t].run = sessions[s].run => t <= s
Decider(s) == messages[sessions[s].by[Len(sessions[s].by)]]

\* A decision that answers its draft's own message survives the death of its
\* request: while the run waits, the message is to be delivered again, a request
\* is at work on the run, or the chat was taken off the allowlist meanwhile.
TapsAreKept ==
    \A s \in DOMAIN sessions :
       /\ Newest(s) /\ sessions[s].status \in {"approved", "rejected"}
       /\ runs[sessions[s].run].status = "awaiting"
       /\ Decider(s).reply = sessions[s].ref /\ sessions[s].ref # 0
       /\ ~sessions[s].rushed
       => \/ Working(sessions[s].run) \/ Decider(s).due \/ Decider(s).barred

\* "Your previously attached image stays unless you upload a new one"
\* (api/v1/webhooks.py:175), for the picture of the brief.
BriefPictureStays ==
    \A s \in DOMAIN sessions : runs[sessions[s].run].picture => sessions[s].shows

\* The same for every picture: one that came with an earlier revision is gone.
PictureStays ==
    \A s, t \in DOMAIN sessions :
       s < t /\ sessions[s].run = sessions[t].run => (sessions[s].shows => sessions[t].shows)
=============================================================================
