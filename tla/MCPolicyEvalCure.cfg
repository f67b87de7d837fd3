SPECIFICATION EvalSpec
CONSTANTS
    OwnRules <- MCOwnRules
    Rulebooks <- MCRulebooks
    MaxPacks = 1
    Traits = {"pii", "spaced_phone", "phrase", "hard_phrase", "uncited", "crossing", "basis", "high", "payment", "clinical",
              "advice", "lending", "_advice", "_lending"}
    MaxRules = 2
    MaxTraits = 3
CHECK_DEADLOCK FALSE
INVARIANT CureComplete
