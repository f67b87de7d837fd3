SPECIFICATION MCSpec
CONSTANTS
    Workers = {w1, w2}
    Requests = {"gate", "replay", "precheck", "resolve"}
    Rulings <- MCRulings
    None = None
    Limit = 2
    MaxDecisions = 3
    MaxEvents = 6
    Desks = {w1, w2}
    MaxAttempts = 2
    MaxIssued = 2
    Lockout = 3
    MaxCodes = 4
    MaxSessions = 2
    MaxPasswords = 2
    MaxGuesses = 6
    Savers = {w1, w2}
    Places = {"difc", "adgm", "uae_onshore"}
    Fields = {"financial", "health"}
    Profiles <- MCProfiles
    Packs = {"dp", "ai"}
    Documents <- MCDocuments
    MaxVersions = 2
    MaxAsks = 1
SYMMETRY Symmetry
CHECK_DEADLOCK FALSE
INVARIANTS
    IndexMatchesChain HighRiskIsAsked ResolutionEvidenced CureIsReal QueueTellsChain
    OpenPerDesk IssueBudget GuessBudget LockoutBudget
    
