SPECIFICATION Spec
CONSTANTS
    m1 = m1
    m2 = m2
    w1 = w1
    w2 = w2
    o1 = o1
    o2 = o2
    Messages = {m1, m2}
    Writers = {w1, w2}
    Offloaders = {o1, o2}
    Failures = {"dberror", "cancel", "crash"}
    LastStatus = 2
SYMMETRY MCSymmetry
INVARIANTS
    OneThread
    StoredOnceUnlessSpoiled
    LockHeldOrLeaked
CHECK_DEADLOCK FALSE
