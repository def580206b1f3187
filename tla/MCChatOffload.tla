--------------------------- MODULE MCChatOffload ---------------------------
(* ChatOffload for TLC: two timestamps, two writers, two offloading tasks  *)
(* (the pending dispatches of the two participants of the dialogue).       *)
EXTENDS ChatOffload, TLC

CONSTANTS m1, m2, w1, w2, o1, o2

MCSymmetry ==
    Permutations({m1, m2}) \cup Permutations({w1, w2}) \cup Permutations({o1, o2})

============================================================================
