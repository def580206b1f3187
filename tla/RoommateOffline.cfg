SPECIFICATION Spec
CONSTANTS
    a1 = a1
    c1 = c1
    c2 = c2
    d1 = d1
    d2 = d2
    Applicants = {a1}
    Calls = {c1, c2}
    applicant <- MCApplicant
    Deleters = {d1, d2}
    Faults = {}
INVARIANTS
    OfflineRequesterStill201
CHECK_DEADLOCK FALSE
