SPECIFICATION SettingsSpec
CONSTANTS
    r1 = r1
    r2 = r2
    k1 = k1
    k2 = k2
    MaxId = 2
    Emails = {"aino"}
    AdminEmails = {}
    Passwords = {"p"}
    Tokens = {k1, k2}
    Requests = {r1, r2}
    KeepSessions = {FALSE, TRUE}
    Supported <- BothLanguages
    Lists <- SentLists
    Lifetime = 1
    MaxNow = 1
SYMMETRY Interchangeable
INVARIANT ActiveIsLearned
INVARIANT EndedStaysOut
INVARIANT OneAccountPerEmail
PROPERTY NewAccountStartsEmpty
CHECK_DEADLOCK FALSE
