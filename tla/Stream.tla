------------------------------ MODULE Stream ------------------------------
(***************************************************************************)
(* The stream of properties for one client (assets/stream.py, s_utils.py,  *)
(* services.handle_stream).  A page is filled from three sources: a quota  *)
(* for every preference field, the sorted set of tracked properties in     *)
(* Redis, and the newest properties of the database.  The client sends     *)
(* back what the last page answered: the ids it has seen and two cursors.  *)
(*                                                                         *)
(* Properties are numbered in the order of created_at, and a cursor is the *)
(* number of a property; no cursor is one more than the last number.  What *)
(* the keyword matches to which a field has rotated is any set.            *)
(***************************************************************************)
EXTENDS Naturals, FiniteSets, Sequences

CONSTANTS
    Fields,       \* preference fields that name a condition, in any order
    LastField,    \* the field whose quota comes last
    MaxResults,   \* MAX_RESULTS_PER_STREAM
    PageSize,     \* the size asked for
    MaxProperty,  \* bound: properties
    MaxStreamPage,\* bound: pages read
    MaxEdits      \* bound: changes of the properties meanwhile

ASSUME StreamAssumption ==
    /\ IsFiniteSet(Fields) /\ LastField \in Fields
    /\ PageSize \in Nat \ {0} /\ MaxResults \in Nat \ {0}
    /\ MaxProperty \in Nat /\ MaxEdits \in Nat

Ids == 1..MaxProperty
NoCursor == MaxProperty + 1

VARIABLES
    listed,       \* assets
    checked,      \* those with verified
    tracked,      \* auto:categories:tracker, with the score of an id its number
    known,        \* is the client a signed in user
    score,        \* auto:cat:stream:cursor of that user
    seenIds,      \* seen_ids, as the client sends them
    dbCursor,     \* db_cursor
    autoCursor,   \* auto_cat_cursor
    answers,      \* the pages so far, each the set of its properties
    firstly,      \* history: properties verified since the first page
    leapt,        \* history: a page was full without the third source
    edits

streamVars == <<listed, checked, tracked, known, score, seenIds, dbCursor,
                autoCursor, answers, firstly, leapt, edits>>

StreamTypeOK ==
    /\ listed \subseteq Ids /\ checked \subseteq listed /\ firstly \subseteq checked
    /\ tracked \subseteq Ids /\ seenIds \subseteq Ids
    /\ known \in BOOLEAN /\ leapt \in BOOLEAN
    /\ {score, dbCursor, autoCursor} \subseteq 1..NoCursor
    /\ answers \in Seq(SUBSET Ids)
    /\ edits \in 0..MaxEdits

AtMost(a, b) == IF a < b THEN a ELSE b
Newest(S, n) == {r \in S : Cardinality({q \in S : q > r}) < n}
Oldest(S, otherwise) ==
    IF S = {} THEN otherwise ELSE CHOOSE r \in S : \A q \in S : r <= q

StreamInit ==
    /\ listed = Ids
    /\ checked \in SUBSET Ids
    /\ tracked \in SUBSET Ids
    /\ known \in BOOLEAN
    /\ score = NoCursor /\ seenIds = {} /\ dbCursor = NoCursor /\ autoCursor = NoCursor
    /\ answers = <<>> /\ firstly = checked /\ leapt = FALSE /\ edits = 0

----------------------------------------------------------------------------
(* query_assets_by_preference: verified, not seen before this page, below  *)
(* the cursor, matched by a keyword; the newest of them up to the quota.   *)
Quota == (MaxResults + Cardinality(Fields) - 1) \div Cardinality(Fields)
ByPreference ==
    {S \in SUBSET {r \in checked : r \notin seenIds /\ r < dbCursor} :
        Cardinality(S) <= Quota}

(* load_stream_state_from_auto_categories: twice the number needed from    *)
(* the cursor down, of which those that were not seen; nothing asks        *)
(* whether they are verified.                                              *)
(* Mutant: what was seen may come again.                                   *)
ReachedAgain(max, seen, limit) ==
    Newest(Newest({r \in tracked : r <= max}, 2 * limit), limit)
Reached(max, seen, limit) ==
    Newest(Newest({r \in tracked : r <= max}, 2 * limit) \ seen, limit)

(* load_assets_by_ids: what is no longer listed is not found.              *)
Loaded(ids) == ids \cap listed

(* The cursor of a user is kept in Redis, that of a visitor by the client. *)
CategoryCursor == IF known THEN score ELSE autoCursor

(* load_stream_state_from_db.                                              *)
(* Mutant: from the cursor of the preferences on.                          *)
FallbackBelow(seen, cursor, limit) ==
    Newest({r \in checked \ seen : r < Oldest(seen \ seenIds, cursor)}, limit)
Fallback(seen, cursor, limit) ==
    Newest({r \in checked \ seen : r < cursor}, limit)

(* load_stream_state.  A page may answer more than its size, and one       *)
(* property for two fields; the cursor of the database is that of the last *)
(* quota, unless the third source was asked.                               *)
StreamPage ==
    \E quota \in [Fields -> ByPreference] :
      LET preferred == UNION {quota[f] : f \in Fields}
          many      == Cardinality(UNION {{f} \X quota[f] : f \in Fields})
          seen1     == seenIds \cup preferred
          asksAuto  == many < PageSize
          ids       == IF asksAuto
                       THEN Reached(CategoryCursor, seen1, PageSize - many)
                       ELSE {}
          auto      == Loaded(ids)
          seen2     == seen1 \cup auto
          need      == PageSize - AtMost(PageSize, many + Cardinality(auto))
          fallback  == IF need > 0 THEN Fallback(seen2, dbCursor, need) ELSE {}
      IN  /\ Len(answers) < MaxStreamPage
          /\ answers' = Append(answers, preferred \cup auto \cup fallback)
          /\ seenIds' = seen2 \cup fallback
          /\ autoCursor' = Oldest(ids, NoCursor)
          /\ score' = IF known /\ ids # {} THEN Oldest(ids, NoCursor) ELSE score
          /\ dbCursor' = Oldest(IF need > 0 THEN fallback ELSE quota[LastField], dbCursor)
          /\ leapt' = (leapt \/ need = 0)
          /\ UNCHANGED <<listed, checked, tracked, known, firstly, edits>>

----------------------------------------------------------------------------
(* Meanwhile.                                                              *)

Edited == edits < MaxEdits /\ edits' = edits + 1
StreamRest == UNCHANGED <<known, score, seenIds, dbCursor, autoCursor, answers, leapt>>

Checks(r) ==
    /\ r \in listed \ checked /\ Edited
    /\ checked' = checked \cup {r}
    /\ UNCHANGED <<listed, tracked, firstly>> /\ StreamRest
Unchecks(r) ==
    /\ r \in checked /\ Edited
    /\ checked' = checked \ {r} /\ firstly' = firstly \ {r}
    /\ UNCHANGED <<listed, tracked>> /\ StreamRest
Unlists(r) ==
    /\ r \in listed /\ Edited
    /\ listed' = listed \ {r} /\ checked' = checked \ {r} /\ firstly' = firstly \ {r}
    /\ UNCHANGED tracked /\ StreamRest
(* The sorted set belongs to a program that is not in the repository.      *)
Tracks(r) ==
    /\ Edited
    /\ tracked' = IF r \in tracked THEN tracked \ {r} ELSE tracked \cup {r}
    /\ UNCHANGED <<listed, checked, firstly>> /\ StreamRest
(* STREAM_CURSOR_EXPIRY.                                                   *)
ScoreExpires ==
    /\ score # NoCursor /\ Edited
    /\ score' = NoCursor
    /\ UNCHANGED <<listed, checked, tracked, known, seenIds, dbCursor, autoCursor,
                   answers, firstly, leapt>>

StreamNext ==
    \/ StreamPage \/ ScoreExpires
    \/ \E r \in Ids : Checks(r) \/ Unchecks(r) \/ Unlists(r) \/ Tracks(r)

StreamSpec == StreamInit /\ [][StreamNext]_streamVars

----------------------------------------------------------------------------
(* Properties.                                                             *)

(* A client that sends back its seen_ids is not given a property on two    *)
(* pages, from whichever sources, however the rows and cursors change.     *)
NeverOnTwoPages ==
    \A i, j \in DOMAIN answers : i # j => answers[i] \cap answers[j] = {}

(* The cursor of the database passes over a property that was verified all *)
(* along only after a page that was full before the third source was       *)
(* asked: the cursor is then that of the last field alone.                 *)
NothingPassedOver ==
    ~leapt => \A r \in firstly : r \in seenIds \/ r < dbCursor

============================================================================
