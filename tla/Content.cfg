\* Two walks, overlapping or not, over a launch of two steps and a campaign of
\* one; and the modules its posts pass through, each on its own instance.
SPECIFICATION SpecAll
CONSTANTS
    launch = launch  promo = promo
    teaser = teaser  day = day  recap = recap  offer = offer  w1 = w1  w2 = w2  c1 = c1  c2 = c2
    Campaign = {launch, promo}  Step = {teaser, day, offer}
    Home <- MCHome  After <- MCAfter  Opening = {teaser, offer}  Walker = {w1, w2}
    MaxPerCampaign = 2  MaxWalks = 2  MaxActivations = 2
    NoStep = NoStep  NoCampaign = NoCampaign
    MaxText = 3  MaxTags = 1  MaxPolls = 1  MaxTries = 2
    Posted = {"carousel", "reel"}  PlatformOf <- MCPlatformOf  Aggregate = {"first", "second"}
    MaxReal = 1  MaxUndone = 1  MaxShots = 3  MaxRounds = 2
    Persists = TRUE  Floor = 0  MaxRecycle = 1  PerRun = 1  Originals = 1
    Runner = {"monday", "tuesday"}  MaxRuns = 3  MaxPosts = 3
    Person = {"ann", "bob"}  Policy = {"house", "brand"}  Ticket = {"post"}
    Rung = {"legal", "exec", "style"}  MayDecide <- MCMayDecide  Needs <- MCNeeds
    Optional = {"exec"}  Ladders <- MCLadders  Flow = {"weekly"}  Platform = {"page"}
    MaxDecisions = 3
    Variant = {"short", "long"}  Caller = {"first", "second"}  MaxStarts = 3
    Job = {"j1", "j2"}  User = {"u"}  MaxDocs = 2
    Source = {1, 2}  FeedKind <- MCFeedKind  MaxEntry = 3  HomeOf <- MCHomeOf
    Limit = 2
    Strategies = {"per_item", "roundrobin", "freshness", "engagement_weighted", "relevance"}
    MaxPerRun = 1  PerSource = 1  MaxPerSource = 2  TotalCap = 2  TopK = 2  Window = 2
    RunAccount = {1, 2}  RunKind <- MCRunKind  MaxClock = 3  MaxLoads = 2
    Account = {"a", "b", "c"}  AccountPlugin = {"ig", "fb"}  PluginOf <- MCPluginOf
    Label = {"vip"}  LabelOf <- MCLabelOf  Phrases <- MCPhrases  Stored <- MCStored
    MaxTurns = 2
    Channels = {"telegram", "whatsapp"}  Chats = {c1, c2}  Requests = {1, 2}
    Typed <- MCTyped  Labels = {"approve", "revise", "reject"}
    MaxMessages = 3  MaxStarted = 2  MaxSessions = 2  MaxTroubles <- MCMaxTroubles
    DraftAccount <- MCDraftAccount  DraftPlugin <- MCDraftPlugin  Prefers <- MCPrefers
    Requires = {"ig", "tiktok"}  Media = {"hero"}  KindOf <- MCKindOf
    ItemMedia <- MCItemMedia  BriefLinks = {"page", "home"}  ItemLinks = {"blog"}
    Within <- MCWithin  Profile = {"none", "finra", "medical_claims"}  Rules = {"finra"}
    Denied <- MCDenied  MaxRevisions = 1  MaxBlueprints = 2  MaxRevises = 1  MaxGone = 1
    Parts = {"campaigns", "publishing", "engagement", "recycling", "approval", "experiments",
             "knowledge", "selection", "targeting", "inbox",
             "drafting"}
INVARIANTS TypesHold StoryOrder RepeatsNeedSharing StopHolds CompletedMeansSent
           PublishingHolds LearningHolds DecisionsHold
SYMMETRY Alike
CHECK_DEADLOCK FALSE
