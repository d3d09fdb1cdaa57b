SPECIFICATION ServicesSpec
CONSTANTS
    Parts <- AllParts
    Users = {u1, u2, u3}
    Patches = {p1, p2}
    StalePatches = FALSE
    SignIns = {1, 2, 3}
    ProcessOf <- TwoProcesses
    MaxAttempts = 2
    MaxUses = 1
    Emails = {e1, e2}
    Writes = {w1, w2, w3}
    Bodies = {b1, b2}
    WriteHazards <- EveryWriteHazard
    Completions = {c1, c2, c3}
    UploadFaults = {"crash"}
    MaxRuns = 4
    OverlapRuns = FALSE
    Writers = {v1, v2, v3}
    RetryLimit = 3
    MaxNumber = 4
    StaleCopies = FALSE
    Nodes = {n1, n2}
    CallsPerNode = 1
    MaxRows = 3
    Settings <- EverySetting
    Limit = 1
    Window = 1
    Processes = {h1, h2}
    Workers = {k1, k2, k3}
    MaxInflight = 1
    MaxQps = 2
    TTL = 2
    Faults <- Failing
    NItems = 2
    Accounts = {a1}
    Requests = {q1, q2}
    Ops <- Overlapping
    Uids = {x1}
    Calls = {t1, t2}
    PublishAccounts = {o1}
    AppUids = {x1}
    Narrations <- SomeNarrations
    Inventories <- SomeInventories
    BeamWidth = 1
    Scripts <- SomeScripts
    Footage <- SomeFootage
    Spoken <- SomeDemands
    Offers <- SomeOffers
    LeastCover = 3000
    Briefs <- SomeBriefs
    Pools <- SomePools
    Replies <- SomeReplies
    MaxRepairs = 1
    Tasks = {1, 2, 3}
    Durations = {4000, 4100, 10000}
    WindowCount = 1
    Retries <- OneMoreTry
    OverlapEdits = FALSE
    Logins = {l1}
    NodeCount = 4
    EdgeLists <- SomeEdgeLists
    MaxJobRuns = 4
    StaleJob = FALSE
    CardReaders = {r1, r2}
    Bumps = {m1, m2}
    Decisions = {d1, d2}
CHECK_DEADLOCK FALSE
INVARIANTS
    ServicesTypeOK
    AnAdminRemains
    AttemptsBounded
    TakesEffectOnce
    ReplaysAreMine
    CompletedHasObject
    
    SpendBounded
    CapacityBounded
    HonestPublished
    TrackIsWhole
    
    FailedStaysOut
    SortIsRight
    ExportHasFile
    OneActiveCard
    InsertsFit
    CoverIsHonest
    AgentRenders
PROPERTIES
    NumbersStay
    NothingFabricated
    
    AcceptedStays
