SPECIFICATION AuthSpec
CONSTANTS
    Sessions = {s1, s2}
    MaxAttempts = 2
    Budget = 5
    Approves = TRUE
    Types = {"hotp", "totp"}
    MaxSecrets = 2
    MaxCounter = 1
    MaxAccounts = 2
    MaxFailures = 3
SYMMETRY Alike
INVARIANTS LockoutHolds
PROPERTIES CodeOnce
CHECK_DEADLOCK FALSE
