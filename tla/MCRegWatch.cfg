SPECIFICATION WatchSpec
CONSTANTS
    Sweepers = {w1}
    Humans = {h1}
    t1 = t1
    t2 = t2
    Texts = {t1, t2}
    Rules = {"r1", "r2"}
    Mentions <- MCMentions
    NoText = NoText
    Persistent = 2
    MaxChanges = 2
    MaxFailures = 1
    MaxSupplied = 1
CHECK_DEADLOCK FALSE
INVARIANT AttestedNeverPromoted
