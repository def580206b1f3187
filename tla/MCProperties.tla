---------------------------- MODULE MCProperties ----------------------------
(* Properties for TLC: one agent with a property, a member of staff who is *)
(* not limited.  The operations that meet in a behaviour are those on one  *)
(* part of a property, with what creates and removes it.                   *)
EXTENDS Properties, TLC

CONSTANTS p1, g1, w1, w2

MCAgentOf == p1 :> g1
Scenario(o, n, ws, f) ==
    [ops |-> o, calls |-> n, workers |-> ws, faults |-> f]
MCScenarios ==
    {Scenario({"create", "assign", "delete"}, 3, {}, 0),
     Scenario({"update", "recreate", "verify", "cancel"}, 3, {}, 0),
     Scenario({"like", "unlike"}, 3, {}, 1),
     Scenario({"like", "delete", "assign"}, 3, {}, 0),
     Scenario({"edit", "delete"}, 3, {w1}, 0),
     Scenario({"edit", "replace", "delete"}, 2, {w1, w2}, 1)}

============================================================================
