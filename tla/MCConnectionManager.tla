----------------------- MODULE MCConnectionManager -------------------------
(* ConnectionManager for TLC: a user with two or three sockets and guests. *)
EXTENDS ConnectionManager, TLC

CONSTANTS u1, s1, s2, s3, g1, g2

(* s1, s2 and s3 belong to the user u1, g1 and g2 are sockets of guests.   *)
MCOwner == [s \in Sockets |-> IF s \in {s1, s2, s3} THEN u1 ELSE Guest]

MCSymmetry == Permutations({s1, s2, s3}) \cup Permutations({g1, g2})

============================================================================
