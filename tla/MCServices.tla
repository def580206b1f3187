----------------------------- MODULE MCServices -----------------------------
(***************************************************************************)
(* The smaller services in one run.  They share no variable, so that their *)
(* interleavings tell nothing: a behaviour exercises one of them, `part',  *)
(* and the others stay in one of their initial states.                     *)
(***************************************************************************)
EXTENDS Sessions, Feeds, Stream, Cart, Ratings, Resolution, Relations,
        Startup

CONSTANTS c1, c2, c3, i1, i2, agent, area, a1, a2, q, v1, v2, e1, e2,
          f1, f2, n1, n2

MCCalls == {c1, c2, c3}
MCPair == {c1, c2}
MCItems == {i1, i2}
MCTargets == {agent, area}
MCScores == {2, 6}
MCResolvers == {a1, a2}
MCWishes == {q}
MCFlats == {f1, f2}
MCNames == {n1, n2}
MCServers == {v1, v2}
MCEmails == {e1, e2}

VARIABLE part

Parts == {"sessions", "feeds", "stream", "cart", "ratings", "resolution",
          "relations", "startup"}

Init ==
    /\ part \in Parts
    /\ SessionInit /\ CartInit
    /\ FeedInit /\ (part # "feeds" => listing = "all" /\ made = 0)
    /\ StreamInit /\ (part # "stream" => checked = {} /\ tracked = {} /\ ~known)
    /\ RatingInit
    /\ part # "ratings" => \A c \in MCCalls : rating[c] = [of |-> agent, key |-> agent, score |-> 2]
    /\ ResolutionInit
    /\ part # "resolution" =>
          /\ \A p \in Builds : owner[p] = a1
          /\ \A c \in MCPair : ask[c] = [who |-> a2, wish |-> q, id |-> 1, data |-> FALSE]
    /\ RelationInit
    /\ part # "relations" => links = {} /\ nameOf[1] = n1
    /\ StartupInit
    /\ part # "startup" => usersOf = {} /\ ~leftover /\ \A v \in MCServers : emailOf[v] = e1

Next ==
    \/ part = "sessions" /\ SessionNext
          /\ UNCHANGED <<part, feedVars, streamVars, cartVars, ratingVars,
                          resolutionVars, relationVars, startupVars>>
    \/ part = "feeds" /\ FeedNext
          /\ UNCHANGED <<part, sessionVars, streamVars, cartVars, ratingVars,
                          resolutionVars, relationVars, startupVars>>
    \/ part = "stream" /\ StreamNext
          /\ UNCHANGED <<part, sessionVars, feedVars, cartVars, ratingVars,
                          resolutionVars, relationVars, startupVars>>
    \/ part = "cart" /\ CartNext
          /\ UNCHANGED <<part, sessionVars, feedVars, streamVars, ratingVars,
                          resolutionVars, relationVars, startupVars>>
    \/ part = "ratings" /\ RatingNext
          /\ UNCHANGED <<part, sessionVars, feedVars, streamVars, cartVars,
                          resolutionVars, relationVars, startupVars>>
    \/ part = "resolution" /\ ResolutionNext
          /\ UNCHANGED <<part, sessionVars, feedVars, streamVars, cartVars,
                          ratingVars, relationVars, startupVars>>
    \/ part = "relations" /\ RelationNext
          /\ UNCHANGED <<part, sessionVars, feedVars, streamVars, cartVars,
                          ratingVars, resolutionVars, startupVars>>
    \/ part = "startup" /\ StartupNext
          /\ UNCHANGED <<part, sessionVars, feedVars, streamVars, cartVars,
                          ratingVars, resolutionVars, relationVars>>

Spec ==
    Init /\ [][Next]_<<part, sessionVars, feedVars, streamVars, cartVars, ratingVars,
                      resolutionVars, relationVars, startupVars>>

=============================================================================
