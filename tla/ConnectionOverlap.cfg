SPECIFICATION FairSpec
CONSTANTS
    u1 = u1
    s1 = s1
    s2 = s2
    s3 = s3
    g1 = g1
    g2 = g2
    Guest = Guest
    None = None
    Users = {u1, Guest}
    Sockets = {s1, s2}
    owner <- MCOwner
    Overlap = TRUE
    Faults = {"badframe", "crash"}
INVARIANTS
    OnlineHasSession
PROPERTIES
    GoesOffline
CHECK_DEADLOCK FALSE
