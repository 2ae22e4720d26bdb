\* Three identities, two organisations, two requests at a time, five in all; three
\* audit rows of two writers; two erasure walks over three rows and one editor;
\* and the schedulers and limits, each on its own instance.
SPECIFICATION SpecAll
CONSTANTS
    Person = {ada, bob, cyd}  Org = {acme, beta}  Role = {"editor", "admin"}
    Request = {r1, r2}  MaxRequests = 5  MaxInvites = 2
    ada = ada  bob = bob  cyd = cyd  acme = acme  beta = beta  r1 = r1  r2 = r2
    Writer = {w1, w2}  MaxRows = 3  Window = 2  PageSize = 2  NoHash = NoHash
    w1 = w1  w2 = w2
    Row = {post, flow, channel}  Table = {"posts", "workflows", "platforms"}
    TableOf <- MCTableOf  CascadesWith <- MCCascadesWith  KeptBy <- MCKeptBy
    DeleteOrder <- MCDeleteOrder  ExportOrder <- MCExportOrder
    Job = {export, erasure}  KindOf <- MCKindOf  Walker = {w1, w2}  Editor = {e1}
    MaxWalks = 2  NoJob = NoJob  Nothing = Nothing
    post = post  flow = flow  channel = channel  export = export  erasure = erasure  e1 = e1
    Call = {"c1", "c2"}  Threshold = 2  MaxFails = 3  MaxCalls = 5
    Unit = 2  Capacity = 2  Rates = {1, 2}  Room = 1  Publisher = {"p1", "p2"}
    MaxTime = 4  MaxTakes = 4
    Completion = {"draft", "critique", "triage"}  Budgets = {0, 1}  MaxMonth = 2
    Ticker = {"t1", "t2"}  User = {"u"}
    Kinds = {"once", "interval", "cron", "optimal", "adaptive"}
    RunAts = {1}  Interval = 1  CronTimes = {2}  Hour = 2  GoodHours = {0, 1}  MinGap = 2
    MaxFires = 2
    Process = {"p1", "p2"}  Conn = {"c1", "c2"}  Tenant = {"acme"}
    Periodic = {"engagement.aggregate", "jobs.cleanup"}  Period <- MCPeriod  MaxCloses = 1
    MaxClock = 2  MaxEdits = 1
    Parts = {"members", "audit", "privacy", "breaker", "buckets", "spending", "schedules", "system"}
INVARIANTS TypesHold MembershipHolds LogTellsTheTruth ErasureHolds
           GatesHold ScheduleHolds
PROPERTIES JoinsByInvitation
SYMMETRY Sym
CHECK_DEADLOCK FALSE
