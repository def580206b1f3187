SPECIFICATION CastSpec
CONSTANTS
    a1 = a1
    s1 = s1
    s2 = s2
    g1 = g1
    p = p
    Guest = Guest
    None = None
    Users = {a1, Guest}
    Agents = {a1}
    Sockets = {s1, s2, g1}
    owner <- MCOwner
    Requests = {p}
    Overlap = FALSE
    Faults = {"crash"}
INVARIANTS
    
    NoOrphanTask
    HeardIsKept
    RecordedUntilSwept
CHECK_DEADLOCK FALSE
