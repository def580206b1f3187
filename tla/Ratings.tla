------------------------------ MODULE Ratings ------------------------------
(***************************************************************************)
(* Ratings of agents and areas (ratings/core.py, models.py, utils.py).  A  *)
(* call loads what it rates, and then inserts the rating and writes the    *)
(* two totals, which it has computed from what it loaded, in one commit.   *)
(***************************************************************************)
EXTENDS Integers, FiniteSets, FiniteSetsExt

CONSTANTS
    RateCalls,
    Targets,    \* users and areas that can be rated
    Scores      \* of a request: any integer

ASSUME RatingsAssumption == Scores \subseteq Int

VARIABLES
    present,    \* the users and areas that exist
    ratings,    \* rows: <<call, target of its foreign key, score>>
    total,      \* total_ratings
    stars,      \* total_stars
    ratePc,
    rating,     \* a request: what asset_to_rate and the id name, the foreign key, the score
    loaded,     \* the totals a call has loaded
    overlap,    \* history: targets two calls had loaded at once
    mistaken    \* history: targets of requests that name one kind and the id of the other

ratingVars == <<present, ratings, total, stars, ratePc, rating, loaded, overlap, mistaken>>

(* A request, and a row of ratings with the call that brought it.          *)
Reviews == [of : Targets, key : Targets, score : Scores]
RatingRows == RateCalls \X Targets \X Scores

RatingTypeOK ==
    /\ present \subseteq Targets /\ ratings \subseteq RatingRows
    /\ total \in [Targets -> Int] /\ stars \in [Targets -> Int]
    /\ ratePc \in [RateCalls -> {"new", "rate", "201", "404", "500"}]
    /\ rating \in [RateCalls -> Reviews]
    /\ loaded \in [RateCalls -> Int \X Int]
    /\ overlap \subseteq Targets /\ mistaken \subseteq Targets

RatingInit ==
    /\ present = Targets /\ ratings = {}
    /\ total = [t \in Targets |-> 0] /\ stars = [t \in Targets |-> 0]
    /\ ratePc = [c \in RateCalls |-> "new"]
    /\ rating \in [RateCalls -> Reviews]
    /\ loaded = [c \in RateCalls |-> <<0, 0>>]
    /\ overlap = {} /\ mistaken = {}

RatingEnds(c, pc) == ratePc' = [ratePc EXCEPT ![c] = pc]

(* The model is the one that asset_to_rate names, the id that of whichever *)
(* of agent_id and area_id is given.                                       *)
RateLoads(c) ==
    LET t == rating[c].of
    IN  /\ ratePc[c] = "new"
        /\ IF t \in present
           THEN /\ RatingEnds(c, "rate")
                /\ loaded' = [loaded EXCEPT ![c] = <<total[t], stars[t]>>]
                /\ overlap' = IF \E d \in RateCalls : ratePc[d] = "rate" /\ rating[d].of = t
                              THEN overlap \cup {t} ELSE overlap
                /\ mistaken' = IF rating[c].key = t THEN mistaken
                               ELSE mistaken \cup {t, rating[c].key}
           ELSE RatingEnds(c, "404") /\ UNCHANGED <<loaded, overlap, mistaken>>
        /\ UNCHANGED <<present, ratings, total, stars, rating>>

(* The check constraint and the foreign key; an update of a row that has   *)
(* gone matches nothing, and fails too.                                    *)
Ratable(c) ==
    rating[c].score <= 5 /\ rating[c].key \in present /\ rating[c].of \in present

(* Mutant: the totals are written before the rating is inserted.           *)
CommitsTotalsFirst(c) ==
    LET r == rating[c]
    IN  /\ ratePc[c] = "rate"
        /\ total' = [total EXCEPT ![r.of] = loaded[c][1] + 1]
        /\ stars' = [stars EXCEPT ![r.of] = loaded[c][2] + r.score]
        /\ ratings' = IF Ratable(c) THEN ratings \cup {<<c, r.key, r.score>>} ELSE ratings
        /\ RatingEnds(c, IF Ratable(c) THEN "201" ELSE "500")
        /\ UNCHANGED <<present, rating, loaded, overlap, mistaken>>

RateCommits(c) ==
    LET r == rating[c]
    IN  /\ ratePc[c] = "rate" /\ Ratable(c)
        /\ ratings' = ratings \cup {<<c, r.key, r.score>>}
        /\ total' = [total EXCEPT ![r.of] = loaded[c][1] + 1]
        /\ stars' = [stars EXCEPT ![r.of] = loaded[c][2] + r.score]
        /\ RatingEnds(c, "201")
        /\ UNCHANGED <<present, rating, loaded, overlap, mistaken>>

(* rate_asset rolls back whatever fails, the connection included.          *)
RateRollsBack(c) ==
    /\ ratePc[c] = "rate"
    /\ RatingEnds(c, "500")
    /\ UNCHANGED <<present, ratings, total, stars, rating, loaded, overlap, mistaken>>

(* An account or an area is deleted; the ratings go with it.               *)
TargetGoes(t) ==
    /\ t \in present
    /\ present' = present \ {t}
    /\ ratings' = {r \in ratings : r[2] # t}
    /\ UNCHANGED <<total, stars, ratePc, rating, loaded, overlap, mistaken>>

RatingNext ==
    \/ \E c \in RateCalls : RateLoads(c) \/ RateCommits(c) \/ RateRollsBack(c)
    \/ \E t \in Targets : TargetGoes(t)

RatingSpec == RatingInit /\ [][RatingNext]_ratingVars

----------------------------------------------------------------------------
(* The sum of the scores.                                                  *)
StarsOf(rows) == MapThenSumSet(LAMBDA r : r[3], rows)

(* The totals of a target are the number and the sum of its ratings, as    *)
(* long as no two ratings of it were under way at once and no request took *)
(* an agent for an area; overlapping ratings only ever lose updates.       *)
TotalsAddUp ==
    \A t \in present \ mistaken :
        LET mine == {r \in ratings : r[2] = t}
        IN  /\ total[t] <= Cardinality(mine)
            /\ t \notin overlap => total[t] = Cardinality(mine) /\ stars[t] = StarsOf(mine)

============================================================================
