---------------------------- MODULE MCBroadcasts ----------------------------
(* Broadcasts for TLC: an agent with two sockets, a guest, one request.  *)
EXTENDS Broadcasts, TLC

CONSTANTS a1, s1, s2, g1, p

MCOwner == [s \in Sockets |-> IF s = g1 THEN Guest ELSE a1]

============================================================================
