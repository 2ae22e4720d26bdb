------------------------------ MODULE Adapters ------------------------------
(***************************************************************************)
(* Publishing one draft through a platform adapter (adapters/platforms,    *)
(* services/media_normalizer.py).  An adapter validates the payload and    *)
(* makes its remote calls in order; each may be refused, or take effect    *)
(* and lose its answer.  Any failure is an exception to the caller, who    *)
(* calls publish again: the job's next attempt (durable) or a user         *)
(* (inline).  Lengths are counted in characters of a small alphabet.       *)
(***************************************************************************)
EXTENDS Naturals, Sequences

CONSTANTS
    MaxText,    \* max_text_length of every adapter
    MaxTags,    \* max_hashtags of the adapters that take hashtags
    MaxPolls,   \* polls of a container that _wait_for_container makes
    MaxTries    \* bound on calls of publish

VARIABLES
    plat, caller, payload,
    pc, at,    \* where publish is, and its next remote call
    container, \* the container of this call of publish, as the platform has it
    polls, tries,
    posts,     \* what the platform shows: one record for each post
    lost       \* history: posting calls whose answer never came

vars == <<plat, caller, payload, pc, at, container, polls, tries, posts, lost>>

AdaptersAssumption == {MaxText, MaxTags, MaxPolls, MaxTries} \subseteq Nat

Kinds == {"none", "image", "video", "gif", "document"}
Attachable == Kinds \ {"none"}
Payloads == [text : 1 .. MaxText + 1, tags : 0 .. MaxTags + 1, media : Kinds]

\* What the adapters have in common, and what each one does otherwise.
Plain == [takes |-> Kinds,          \* media that validate() lets through
          maxTags |-> MaxTags,
          limit |-> "text",         \* what validate() measures
          cut |-> FALSE,            \* whether the text sent is cut to the limit
          sep |-> 2,                \* what _compose puts between text and hashtags; 0: no hashtags
          bare |-> 0,               \* what it appends when there are none
          sends |-> {},             \* media that reach the platform
          first |-> <<>>,           \* calls made for media only
          calls |-> <<"post">>,
          experimental |-> FALSE]

Instagram == [Plain EXCEPT !.takes = Attachable, !.sep = 5, !.bare = 4, !.sends = Attachable,
                           !.calls = <<"container", "poll", "post">>]
YouTube == [Plain EXCEPT !.takes = {"video"}, !.cut = TRUE, !.sends = {"video"},
                         !.calls = <<"start", "fetch", "post">>]
LinkedIn == [Plain EXCEPT !.sends = Attachable, !.first = <<"start", "fetch", "upload">>]
Facebook == [Plain EXCEPT !.sends = {"image", "gif", "video"}]
Threads == [Plain EXCEPT !.sends = Attachable, !.calls = <<"container", "sleep", "post">>]
Pinterest == [Plain EXCEPT !.takes = Attachable, !.cut = TRUE, !.sends = Attachable]
Twitter == [Plain EXCEPT !.limit = "sent", !.sep = 1]
Bluesky == [Plain EXCEPT !.sep = 1, !.calls = <<"start", "post">>]
Telegram == [Plain EXCEPT !.sends = {"image", "video"}]
Tumblr == [Plain EXCEPT !.sep = 0, !.sends = {"image", "video"}]
Reddit == [Plain EXCEPT !.maxTags = 0, !.sep = 0]
Slack == [Plain EXCEPT !.maxTags = 0, !.sep = 0]
Discord == Plain
Mastodon == Plain
Medium == [Plain EXCEPT !.sep = 0, !.calls = <<>>, !.experimental = TRUE]
TikTok == [Plain EXCEPT !.takes = Attachable, !.sep = 1, !.calls = <<>>, !.experimental = TRUE]

Platforms == [instagram |-> Instagram, youtube |-> YouTube, linkedin |-> LinkedIn,
              facebook |-> Facebook, threads |-> Threads, pinterest |-> Pinterest,
              twitter |-> Twitter, bluesky |-> Bluesky, telegram |-> Telegram,
              tumblr |-> Tumblr, reddit |-> Reddit, slack |-> Slack, discord |-> Discord,
              mastodon |-> Mastodon, medium |-> Medium, tiktok |-> TikTok]
Adapter == Platforms[plat]

\* Hashtags are one character each and joined by blanks.
TagText(n) == IF n = 0 THEN 0 ELSE 2 * n - 1
Composed ==
    IF Adapter.sep = 0 \/ payload.tags = 0 THEN payload.text + Adapter.bare
    ELSE payload.text + Adapter.sep + TagText(payload.tags)
Sent == IF Adapter.cut /\ Composed > MaxText THEN MaxText ELSE Composed

\* Twitter's validate() counts the blank before the hashtags also without any.
Measured ==
    IF Adapter.limit = "text" THEN payload.text
    ELSE payload.text + Adapter.sep + TagText(payload.tags)
Valid ==
    /\ payload.text <= MaxText /\ Measured <= MaxText
    /\ payload.tags <= Adapter.maxTags
    /\ payload.media \in Adapter.takes

Steps == (IF payload.media = "none" THEN <<>> ELSE Adapter.first) \o Adapter.calls
NoContainer == "none"

TypeOK ==
    /\ plat \in DOMAIN Platforms /\ caller \in {"inline", "durable"} /\ payload \in Payloads
    /\ pc \in {"idle", "calling", "raised", "refused", "done"} /\ at \in 0 .. Len(Steps) + 1
    /\ container \in {NoContainer, "working", "finished", "failed", "used"}
    /\ polls \in 0 .. MaxPolls /\ tries \in 0 .. MaxTries
    /\ posts \in Seq([text : Nat, media : Kinds, from : {NoContainer, "finished"}])
    /\ lost \in Nat

Init ==
    /\ plat \in DOMAIN Platforms /\ caller \in {"inline", "durable"}
    /\ payload \in Payloads
    /\ pc = "idle" /\ at = 0 /\ container = NoContainer /\ polls = 0 /\ tries = 0
    /\ posts = <<>> /\ lost = 0

\* Mutant of Retried: a result without an id is taken for a failure.
RetriedAfterDone == pc \in {"idle", "raised", "done"}
Retried == pc \in {"idle", "raised"}

\* publish: the inline caller refuses adapters that post nothing, the durable
\* one does not; then validate() on the whole payload.
Publish ==
    /\ Retried /\ tries < MaxTries
    /\ tries' = tries + 1 /\ polls' = 0 /\ container' = NoContainer /\ at' = 1
    /\ pc' = IF (Adapter.experimental /\ caller = "inline") \/ ~ Valid THEN "refused" ELSE "calling"
    /\ UNCHANGED <<plat, caller, payload, posts, lost>>

Calling == pc = "calling" /\ at \in 1 .. Len(Steps)
Doing(call) == Calling /\ Steps[at] = call
Raise == pc' = "raised" /\ UNCHANGED at
GoOn == at' = at + 1 /\ UNCHANGED pc

\* Sessions, upload slots, bytes: nothing of them shows.
Prepare ==
    /\ \E call \in {"start", "fetch", "upload", "sleep"} : Doing(call)
    /\ GoOn
    /\ UNCHANGED <<plat, caller, payload, container, polls, tries, posts, lost>>

MakeContainer ==
    /\ Doing("container")
    /\ container' = "working" /\ GoOn
    /\ UNCHANGED <<plat, caller, payload, polls, tries, posts, lost>>

\* The platform fetches and encodes the media of a container.
Process ==
    /\ container = "working"
    /\ container' \in {"finished", "failed"}
    /\ UNCHANGED <<plat, caller, payload, pc, at, polls, tries, posts, lost>>

\* Mutant of PollEnds: the adapter publishes whatever the container's status.
PollEndsAnyhow == container # NoContainer
PollEnds == container = "finished"
Poll ==
    /\ Doing("poll")
    /\ IF PollEnds THEN GoOn /\ UNCHANGED polls
       ELSE IF container = "failed" \/ polls = MaxPolls THEN Raise /\ UNCHANGED polls
       ELSE polls' = polls + 1 /\ UNCHANGED <<pc, at>>
    /\ UNCHANGED <<plat, caller, payload, container, tries, posts, lost>>

\* A container that is not finished is refused; Threads may come too early.
Accepted == container \in {NoContainer, "finished"}
Post ==
    /\ Doing("post") /\ Accepted
    /\ posts' = Append(posts,
            [text |-> Sent, from |-> container,
             media |-> IF payload.media \in Adapter.sends THEN payload.media ELSE "none"])
    /\ container' = IF container = NoContainer THEN container ELSE "used"
    /\ \/ GoOn /\ UNCHANGED lost
       \/ Raise /\ lost' = lost + 1
    /\ UNCHANGED <<plat, caller, payload, polls, tries>>

\* A status of 400 or more, a body with an error, no id of a container, or a
\* connection that breaks before anything has happened.
CallFails ==
    /\ Calling
    /\ Raise
    /\ UNCHANGED <<plat, caller, payload, container, polls, tries, posts, lost>>

\* The PublishResult; an id missing from the answer is an empty id.
Return ==
    /\ pc = "calling" /\ at = Len(Steps) + 1
    /\ pc' = "done"
    /\ UNCHANGED <<plat, caller, payload, at, container, polls, tries, posts, lost>>

Next == Publish \/ Prepare \/ MakeContainer \/ Process \/ Poll \/ Post \/ CallFails \/ Return

Spec == Init /\ [][Next]_vars
-----------------------------------------------------------------------------
\* A draft is on the platform at most once more than answers were lost: calling
\* publish again after an exception repeats a post only if the first had landed.
OnceUnlessLost == Len(posts) <= lost + 1

\* publish returns only when there is a post. Medium and TikTok return an
\* invented id: the guard against them is in the inline caller only.
ReturnedIsPosted ==
    pc = "done" => \/ Len(posts) = lost + 1
                   \/ Adapter.experimental /\ caller = "durable"

\* Instagram never asks for a container to be published that is not finished.
NeverEarly == plat = "instagram" /\ Doing("post") => container = "finished"

\* Media are left out without a word where the adapter has no code for them,
\* and nowhere else.
MediaDropsAreKnown ==
    \A k \in DOMAIN posts :
        \/ posts[k].media = payload.media
        \/ plat \in {"twitter", "bluesky", "reddit", "slack", "discord", "mastodon"}
        \/ plat \in {"telegram", "tumblr"} /\ payload.media \in {"gif", "document"}
        \/ plat = "facebook" /\ payload.media = "document"

\* The limit bounds what is sent only if the adapter measures or cuts that; for
\* the rest the hashtags come on top.
LengthIsBounded ==
    \A k \in DOMAIN posts :
        posts[k].text <= IF Adapter.limit = "sent" \/ Adapter.cut THEN MaxText
                         ELSE MaxText + Adapter.sep + TagText(Adapter.maxTags)
=============================================================================
