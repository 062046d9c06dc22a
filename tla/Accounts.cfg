\* Two accounts, one session, and two tokens over the life of the database.
SPECIFICATION Spec
CONSTANTS
    UserIds = {1, 2}
    Emails = {"a", "b"}
    AdminEmail = "a"
    Passwords = {"p", "q"}
    Unusable = "random"
    BackupCodes = {"c"}
    MaxTokens = 2
    MaxSessions = 1
    MaxGen = 1
    MaxFlight = 1
    Patches <- MCPatches
    Scenarios <- MCScenarios
INVARIANTS StubNeverSignsIn
PROPERTIES RefusedKeepsAccount
CHECK_DEADLOCK FALSE
