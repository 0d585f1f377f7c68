SPECIFICATION OnboardingSpec
CONSTANTS
    Mails = {r1, r2}
    Slugs = {s1, s2}
    Emails = {e1, e2}
    LoneEmails = {e1}
    None = None
    Attempts = 1
    MaxStalls = 0
    Workers = 1
    MaxRetries = 0
    MaxCrashes = 1
    MaxExits = 1
INVARIANTS
    EmailUniqueAlone
    GracefulStop
CHECK_DEADLOCK FALSE
