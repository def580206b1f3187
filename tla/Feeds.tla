------------------------------- MODULE Feeds -------------------------------
(***************************************************************************)
(* One client reads a listing page by page (page = 1, 2, ...) while rows   *)
(* are created, verified, declined and deleted.  Every page is a request   *)
(* with an offset of its own into the rows as they are then: the latest    *)
(* properties (fetch_latest_assets, which reads the newly created ids in   *)
(* Redis first), discover, all properties, the requests of roommates and   *)
(* those to agents ("wishes"), the chat threads, the messages of a thread, *)
(* and the lists that have no ORDER BY.                                    *)
(*                                                                         *)
(* Rows are numbered in the order of created_at, messages in that of       *)
(* server_timestamp_ms.                                                    *)
(***************************************************************************)
EXTENDS Naturals, FiniteSets, Sequences, SequencesExt

CONSTANTS
    Size,       \* rows of a page
    MaxRow,     \* bound: rows ever created
    MaxPage,    \* bound: the page the client stops at
    MaxMoves    \* bound: changes of the rows

ASSUME FeedsAssumption ==
    /\ {Size, MaxPage} \subseteq Nat \ {0} /\ {MaxRow, MaxMoves} \subseteq Nat
    /\ MaxPage * Size > 2 * MaxRow

RowIds == 1..MaxRow
Ordered == {"discover", "all", "requests", "threads", "wishes", "messages"}
Unordered == {"agent", "verified", "unverified"}
Listings == Ordered \cup Unordered \cup {"latest", "seen"}

VARIABLES
    rows,       \* the table: properties, requests, threads or messages
    made,       \* the last id given
    approved,   \* rows with verified
    newest,     \* the sorted set newly_created_asset_ids
    tied,       \* threads with two messages of the latest server_timestamp_ms
    listing,    \* what the client reads
    page,       \* pages read
    held,       \* the ids of Redis that a request for the latest has read
    got,        \* how often the client was given a row
    base,       \* history: rows the listing had when the first page was read
    changed,    \* history: what happened to the listing since
    ended,      \* the client has its last page
    moves       \* changes so far

tables == <<rows, made, approved, newest, tied>>
feedVars == <<tables, listing, page, held, got, base, changed, ended, moves>>

NotAsked == {0}
SortDown(S) ==
    [i \in 1..Cardinality(S) |->
        CHOOSE r \in S : Cardinality({q \in S : q > r}) = i - 1]
Cut(s, offset, limit) ==
    SubSeq(s, offset + 1, IF offset + limit < Len(s) THEN offset + limit ELSE Len(s))
Times(s, r) == Cardinality({i \in DOMAIN s : s[i] = r})
Given(s) == [r \in RowIds |-> got[r] + Times(s, r)]

(* The listings that select verified properties; the other ones are not    *)
(* touched by verification.                                                *)
Verifiable == listing \in {"latest", "discover", "seen", "verified", "unverified"}

FeedTypeOK ==
    /\ made \in 0..MaxRow /\ rows \subseteq 1..made /\ approved \subseteq rows
    /\ newest \subseteq 1..made /\ tied \subseteq rows
    /\ listing \in Listings /\ page \in Nat /\ ended \in BOOLEAN /\ moves \in 0..MaxMoves
    /\ held = NotAsked \/ held \subseteq 1..made
    /\ got \in [RowIds -> Nat] /\ base \subseteq RowIds
    /\ changed \subseteq {"created", "inserted", "removed", "expired"}

FeedInit ==
    /\ listing \in Listings
    /\ made \in 0..MaxRow
    /\ rows = 1..made
    /\ approved \in IF Verifiable THEN SUBSET rows ELSE {{}}
    /\ newest \in IF listing = "latest" THEN {k..made : k \in 1..(made + 1)} ELSE {{}}
    /\ tied \in IF listing = "threads" THEN SUBSET rows ELSE {{}}
    /\ page = 0 /\ held = NotAsked /\ got = [r \in RowIds |-> 0]
    /\ base = {} /\ changed = {} /\ ended = FALSE /\ moves = 0

----------------------------------------------------------------------------
(* The rows a listing selects, in its order.                               *)

DiscoverRows == SortDown(approved)
AllRows == SortDown(rows)
RequestRows == SortDown(rows)
WishRows == SortDown(rows)
MessageRows == SortDown(rows)
(* The join gives a row for every message with the latest timestamp.       *)
ThreadRows ==
    LET joined == SortDown({2 * t : t \in rows} \cup {2 * t + 1 : t \in tied})
    IN  [i \in DOMAIN joined |-> joined[i] \div 2]

AgentRows == rows
UnverifiedRows == rows \ approved

Shown == IF listing = "unverified" THEN UnverifiedRows
         ELSE IF Verifiable THEN approved ELSE rows

Turn(s, last) ==
    /\ page' = page + 1
    /\ got' = Given(s)
    /\ base' = IF page = 0 THEN Shown ELSE base
    /\ ended' = last

Offset == page * Size

(* Pages read with offset and limit; the client stops at a short one.      *)
ReadByOffset(s) ==
    /\ Turn(s, Len(s) < Size \/ page + 1 = MaxPage)
    /\ UNCHANGED <<tables, listing, held, changed, moves>>

ReadAll ==
    /\ listing = "all" /\ ~ended
    /\ ReadByOffset(Cut(AllRows, Offset, Size))
ReadRequests ==
    /\ listing = "requests" /\ ~ended
    /\ ReadByOffset(Cut(RequestRows, Offset, Size))
ReadThreads ==
    /\ listing = "threads" /\ ~ended
    /\ ReadByOffset(Cut(ThreadRows, Offset, Size))

ReadWishes ==
    /\ listing = "wishes" /\ ~ended
    /\ ReadByOffset(Cut(WishRows, Offset, Size))
ReadMessages ==
    /\ listing = "messages" /\ ~ended
    /\ ReadByOffset(Cut(MessageRows, Offset, Size))

(* discover_properties fetches one row more and answers has_more.          *)
ReadWithMore(s) ==
    /\ Turn(Cut(s, 0, Size), Len(s) <= Size \/ page + 1 = MaxPage)
    /\ UNCHANGED <<tables, listing, held, changed, moves>>
(* Mutant: the additional row is not fetched.                              *)
DiscoverExactly ==
    /\ listing = "discover" /\ ~ended
    /\ ReadWithMore(Cut(DiscoverRows, Offset, Size))
Discover ==
    /\ listing = "discover" /\ ~ended
    /\ ReadWithMore(Cut(DiscoverRows, Offset, Size + 1))

Unseen == SortDown({r \in approved : got[r] = 0})
(* The client that sends seen_ids stays at page 1.                         *)
DiscoverUnseen ==
    /\ listing = "seen" /\ ~ended
    /\ ReadWithMore(Cut(Unseen, 0, Size + 1))

(* Without ORDER BY a page is any rows of the right number.                *)
AnyPage(S) ==
    {t \in SUBSET S : Cardinality(t) = Len(Cut(SortDown(S), Offset, Size))}
ReadAgentRows ==
    /\ listing = "agent" /\ ~ended
    /\ \E t \in AnyPage(AgentRows) : ReadByOffset(SortDown(t))
ReadUnverified ==
    /\ listing = "unverified" /\ ~ended
    /\ \E t \in AnyPage(UnverifiedRows) : ReadByOffset(SortDown(t))
(* The page is of all properties; what is not verified is dropped from it. *)
ReadVerified ==
    /\ listing = "verified" /\ ~ended
    /\ \E t \in AnyPage(rows) : ReadByOffset(SortDown(t \cap approved))

----------------------------------------------------------------------------
(* fetch_latest_assets: the ids of the page in Redis, then the database    *)
(* for those and for the rest of the page.  validate_assets drops what is  *)
(* not verified.                                                           *)

AskRedis ==
    /\ listing = "latest" /\ ~ended /\ held = NotAsked
    /\ held' = ToSet(Cut(SortDown(newest), Offset, Size))
    /\ base' = IF page = 0 THEN Shown ELSE base
    /\ UNCHANGED <<tables, listing, page, got, changed, ended, moves>>

(* Mutant: the offset of the fill is 0 on every page.                      *)
FillFromTop(ids) == Cut(SortDown(rows \ ids), 0, Size - Cardinality(ids))
Fill(ids) ==
    Cut(SortDown(rows \ ids), IF ids = {} THEN Offset ELSE 0, Size - Cardinality(ids))

AskDatabase ==
    LET ids == held
        found == SortDown(ids \cap rows)
        both == IF Cardinality(ids) < Size THEN found \o Fill(ids) ELSE found
    IN  /\ held # NotAsked
        /\ page' = page + 1
        /\ got' = [r \in RowIds |-> IF r \in approved THEN Given(both)[r] ELSE got[r]]
        /\ held' = NotAsked
        /\ ended' = (page + 1 = MaxPage)
        /\ UNCHANGED <<tables, listing, base, changed, moves>>

----------------------------------------------------------------------------
(* The rows change.                                                        *)

Reading == page > 0 \/ held # NotAsked
Change(what) ==
    /\ ~ended /\ moves < MaxMoves
    /\ moves' = moves + 1
    /\ changed' = IF Reading THEN changed \cup {what} ELSE changed
FeedRest == UNCHANGED <<listing, page, held, got, base, ended>>

(* A new property is not verified; its id is added to the sorted set,      *)
(* unless Redis fails, which is not reported.                              *)
RowCreated ==
    /\ made < MaxRow
    /\ made' = made + 1
    /\ rows' = rows \cup {made + 1}
    /\ newest' \in IF listing = "latest" THEN {newest, newest \cup {made + 1}} ELSE {{}}
    /\ Change(IF Verifiable THEN "created" ELSE "inserted")
    /\ FeedRest /\ UNCHANGED <<approved, tied>>
RowVerified(r) ==
    /\ r \in rows \ approved /\ Verifiable
    /\ approved' = approved \cup {r}
    /\ Change("inserted") /\ FeedRest /\ UNCHANGED <<rows, made, newest, tied>>
RowDeclined(r) ==
    /\ r \in approved
    /\ approved' = approved \ {r}
    /\ Change("removed") /\ FeedRest /\ UNCHANGED <<rows, made, newest, tied>>
(* The sorted set keeps the id; nothing deletes threads and messages.       *)
RowDeleted(r) ==
    /\ r \in rows /\ listing \notin {"threads", "messages"}
    /\ rows' = rows \ {r} /\ approved' = approved \ {r}
    /\ Change("removed") /\ FeedRest /\ UNCHANGED <<made, newest, tied>>
NewestExpires ==
    /\ newest # {}
    /\ newest' = {}
    /\ Change("expired") /\ FeedRest /\ UNCHANGED <<rows, made, approved, tied>>
(* A later message of a thread stands alone or shares its millisecond.     *)
ThreadMessage(t) ==
    /\ listing = "threads" /\ t \in rows
    /\ tied' = IF t \in tied THEN tied \ {t} ELSE tied \cup {t}
    /\ Change(IF t \in tied THEN "removed" ELSE "inserted")
    /\ FeedRest /\ UNCHANGED <<rows, made, approved, newest>>

FeedNext ==
    \/ ReadAll \/ ReadRequests \/ ReadWishes \/ ReadThreads \/ ReadMessages \/ Discover \/ DiscoverUnseen
    \/ ReadAgentRows \/ ReadUnverified \/ ReadVerified
    \/ AskRedis \/ AskDatabase
    \/ RowCreated \/ NewestExpires
    \/ \E r \in RowIds :
          RowVerified(r) \/ RowDeclined(r) \/ RowDeleted(r) \/ ThreadMessage(r)

FeedSpec == FeedInit /\ [][FeedNext]_feedVars

----------------------------------------------------------------------------
(* Properties.                                                             *)

(* A listing with an order, read to its end by offset: a row that was      *)
(* there from the beginning is missed only if one was removed meanwhile,   *)
(* and given twice only if one was inserted (or, for a thread, if two of   *)
(* its messages share the latest timestamp).  A client of discover that    *)
(* sends the ids it has seen is given nothing twice, whatever changes.  A  *)
(* listing without an order is only whole if one page holds it.            *)
MissedByRemoval ==
    ended /\ "removed" \notin changed => \A r \in base : got[r] > 0
Repeats(r) == IF listing = "threads" /\ "removed" \in changed THEN 2 ELSE 1
PagesAreWhole ==
    /\ listing \in Ordered \cup {"seen"} => MissedByRemoval
    /\ listing \in Ordered /\ "inserted" \notin changed =>
          \A r \in RowIds \ tied : got[r] <= Repeats(r)
    /\ listing = "seen" => \A r \in RowIds : got[r] <= 1
    /\ listing \in Unordered /\ changed = {} /\ Cardinality(rows) <= Size /\ ended =>
          \A r \in RowIds : got[r] = IF r \in base THEN 1 ELSE 0

(* The latest properties are complete and without repetition when nothing  *)
(* changed, the ids in Redis are those of the newest rows, and they do not *)
(* end in the middle of a page after the first: there the rest of the page *)
(* comes from the top of the table again, and the next page skips as many. *)
RedisIsNewest == newest \subseteq rows /\ \A r \in rows \ newest, n \in newest : r < n
LatestIsWhole ==
    /\ listing = "latest" /\ ended /\ changed = {} /\ RedisIsNewest
    /\ Cardinality(newest) <= Size \/ Cardinality(newest) % Size = 0
    => \A r \in RowIds : got[r] = IF r \in base THEN 1 ELSE 0

============================================================================
