SPECIFICATION AuthSpec
CONSTANTS
    Desks = {d1, d2}
    MaxAttempts = 2
    MaxIssued = 1
    Lockout = 3
    MaxCodes = 1
    MaxSessions = 2
    MaxPasswords = 2
    MaxGuesses = 6
CHECK_DEADLOCK FALSE
INVARIANT GuessesBounded
