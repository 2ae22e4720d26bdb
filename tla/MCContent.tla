----------------------------- MODULE MCContent -----------------------------
(* Small instances of the parts of Content: a campaign of a launch whose       *)
(* later step builds on the first and one of a single step, and one instance  *)
(* of each module its posts pass through.                                     *)
EXTENDS Content, TLC

CONSTANTS launch, promo, teaser, day, recap, offer, w1, w2, c1, c2

MCHome == [s \in Step |-> IF s = offer THEN promo ELSE launch]
MCAfter == [s \in Step |-> IF s \in {day, recap} THEN {teaser} ELSE {}]

MCPlatformOf == [carousel |-> "instagram", reel |-> "mastodon"]

MCMayDecide == [legal |-> {"ann", "bob"}, exec |-> {}, style |-> {"bob"}]
MCNeeds == [legal |-> 2, exec |-> 1, style |-> 1]
MCLadders == {<<"legal", "exec", "style">>, <<"exec">>}

MCFeedKind == <<"rss", "notion">>
MCHomeOf == <<1, 2, 2>>
MCRunKind == <<"x", "x">>

MCPluginOf == [a |-> "ig", b |-> "ig", c |-> "fb"]
MCLabelOf == [vip |-> {"b", "c"}]
MCPhrases == {{}, {<<"to", "ig">>}, {<<"not", "ig">>}, {<<"label", "vip">>},
              {<<"to", "ig">>, <<"not", "fb">>}, {<<"label", "vip">>, <<"not", "ig">>}}
none == [ids |-> {}, plugins |-> {}, labels |-> {}, noIds |-> {}, noPlugins |-> {}]
MCStored == {none, [none EXCEPT !.plugins = {"ig"}],
             [none EXCEPT !.labels = {"vip"}, !.noIds = {"b"}],
             [none EXCEPT !.ids = {"c"}, !.noPlugins = {"fb"}]}

MCTyped == {<<"words", TRUE>>}
MCMaxTroubles == [telegram |-> 0, whatsapp |-> 1]

MCDraftAccount == <<"ig1", "ig2", "tt">>
MCDraftPlugin == [ig1 |-> "ig", ig2 |-> "ig", tt |-> "tiktok"]
MCPrefers == [ig |-> <<"video", "image">>, tiktok |-> <<"video">>]
MCKindOf == [hero |-> "image"]
MCItemMedia == << <<"hero">>, <<"hero">> >>
MCWithin == [page |-> {"home"}, home |-> {}, blog |-> {}]
MCDenied == [none |-> {}, finra |-> {}, medical_claims |-> {"tiktok"}]

ASSUME ContentAssumption

Alike == Permutations(Walker) \cup Permutations({c1, c2})
-----------------------------------------------------------------------------
\* "each variant is published as its own Post and wired to the experiment"
\* (services/experiment_service.py:6-7): when start() has been through, some
\* variant was published.
StartPublishes == X!StartPublishes

\* The required approvals of a step are by different people ("n-of-m sign-off",
\* domain/entities/approval_policy.py:48).
QuorumIsPeople == V!QuorumIsPeople

\* A post is reused no more than max_recycle_count times ("avoid infinite
\* reuse", domain/entities/recycle_policy.py:39).
ReuseIsLimited == R!ReuseIsLimited
=============================================================================
