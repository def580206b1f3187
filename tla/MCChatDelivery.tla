--------------------------- MODULE MCChatDelivery ---------------------------
(* ChatDelivery for TLC: one addressee with two sockets, two messages.     *)
EXTENDS ChatDelivery, TLC

CONSTANTS u1, s1, s2, m1, m2

MCOwner == [s \in Sockets |-> u1]
MCTarget == [m \in Messages |-> u1]
(* Two senders.                                                            *)
MCTwoDialogues == [m \in Messages |-> m]

MCSymmetry == Permutations({s1, s2}) \cup Permutations({m1, m2})

============================================================================
