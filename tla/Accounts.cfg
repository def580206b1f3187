SPECIFICATION Spec
CONSTANTS
    None = None
    a1 = a1
    e1 = e1
    Accounts = {a1, a2}
    Emails = {e1, e2}
    Calls = {c1, c2, c3}
    Registered = {a1}
    emailOf <- MCEmailOf
    MaxFailures = 1
    Scenarios <- MCScenarios
INVARIANTS
    OneAccountPerEmail
    ExpiryOwed
    RedeemedOnce
    
PROPERTIES
    LostOnlyByOverlap
CHECK_DEADLOCK FALSE
