SPECIFICATION MCSpec
CONSTANTS
    Clients = {c1}
    Batch = 2
    MaxRecords = 3
    MaxTroubles = 2
    Callers = {u1, u2}
    Worker = worker
    Items = {i1, i2, i3}
    Stop = Stop
    Nothing = Nothing
    Capacity = 2
    MaxLeaves = 9
    Jobs = {j1, j2}
    Sealers = {j1, j2}
    Anchorers = {j1, j2}
    Exported = {1}
    MaxEvents = 2
    MaxFaults = 1
    Sweepers = {w1}
    Humans = {h1}
    t1 = t1
    t2 = t2
    Texts = {t1, t2}
    Rules = {"r1", "r2"}
    Mentions <- MCMentions
    NoText = NoText
    Persistent = 2
    MaxChanges = 2
    MaxFailures = 1
    MaxSupplied = 1
    Runners = {q1, q2}
    Cron = q1
    Links <- MCLinks
    Cap = 1
    Interval = 1
    ManualRetry = 2
    Watched = "u1"
    MaxCorrections = 2
    MaxCrashes = 1
    Versions = {"v1", "v2", "v3"}
    OwnRules <- MCOwnRules
    Rulebooks <- MCRulebooks
    MaxPacks = 1
    Traits = {"pii", "spaced_phone", "phrase", "hard_phrase", "uncited", "crossing", "basis", "high", "payment", "clinical",
              "advice", "lending", "_advice", "_lending"}
    MaxRules = 2
    MaxTraits = 3
CHECK_DEADLOCK FALSE
INVARIANTS
    QueueLinked PostedOnce CloseDrains
    ProofsVerifyExactly
    SomeDocumentInForce
    OnlyOwnPolicyBlocks 
PROPERTIES
    LeavesOnlyAccepted EventuallyHandedOver CloseReturns
    SealedEventsProven EventuallyAnchored DriftSeenTwice PageRecorded CitationConfirmed
    EverySourceChecked
