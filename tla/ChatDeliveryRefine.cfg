SPECIFICATION ChatSpec
CONSTANTS
    u1 = u1
    s1 = s1
    s2 = s2
    m1 = m1
    m2 = m2
    Guest = Guest
    None = None
    Users = {u1, Guest}
    Sockets = {s1, s2}
    owner <- MCOwner
    Messages = {m1}
    target <- MCTarget
    dialogue <- MCTwoDialogues
    Overlap = TRUE
    Faults = {"badframe", "crash", "notification"}
PROPERTIES
    
    UnheardOnlyInWindow
CHECK_DEADLOCK FALSE
