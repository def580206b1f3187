----------------------------- MODULE Resolution -----------------------------
(***************************************************************************)
(* handle_resolve_property_request of asset_request/services.py: a user    *)
(* links a property to the request of another, one that exists or one that *)
(* is created on the way.  The creation commits by itself, the link after  *)
(* it.  Every refusal is meant as a 400 or 404, but is raised with a       *)
(* keyword HTTPException does not have, and so answers 500.                *)
(***************************************************************************)
EXTENDS Naturals, FiniteSets

CONSTANTS
    Resolvers, Wishes,   \* users; asset_requests
    ResolveCalls,
    MaxBuilt             \* bound: properties that are ever created

ASSUME ResolutionAssumption == MaxBuilt \in Nat

Builds == 1..MaxBuilt
None == 0

VARIABLES
    open,       \* asset_requests
    built,      \* assets
    last,       \* the last id that was given to one
    owner,      \* agent_id
    joins,      \* request_asset_association
    gone,       \* history: links that were deleted with a request or a property
    resPc,
    ask,        \* a call: who, which request, which property or None, with data or not
    chosen,     \* the property a call will link
    already     \* whether it was linked when the request was loaded

resolutionVars == <<open, built, last, owner, joins, gone, resPc, ask, chosen, already>>

Asks == {a \in [who : Resolvers, wish : Wishes, id : Builds \cup {None}, data : BOOLEAN] :
            a.id # None \/ a.data}

Joins == Wishes \X Builds

ResolutionTypeOK ==
    /\ open \subseteq Wishes /\ built \subseteq Builds /\ last \in 0..MaxBuilt
    /\ owner \in [Builds -> Resolvers]
    /\ joins \subseteq Joins /\ gone \subseteq Joins
    /\ resPc \in [ResolveCalls -> {"new", "create", "link", "200", "500"}]
    /\ ask \in [ResolveCalls -> Asks]
    /\ chosen \in [ResolveCalls -> Builds \cup {None}]
    /\ already \in [ResolveCalls -> BOOLEAN]

ResolutionInit ==
    /\ open = Wishes /\ built = {} /\ last = 0 /\ joins = {} /\ gone = {}
    /\ owner \in [Builds -> Resolvers]
    /\ resPc = [c \in ResolveCalls |-> "new"]
    /\ ask \in [ResolveCalls -> Asks]
    /\ chosen = [c \in ResolveCalls |-> None]
    /\ already = [c \in ResolveCalls |-> FALSE]

ResolveGoes(c, pc) == resPc' = [resPc EXCEPT ![c] = pc]

(* A property may be referred to that the user does not own; the one he    *)
(* owns is refused.                                                        *)
Referable(a) == a.id \in built /\ owner[a.id] # a.who
(* Mutant: the other way round.                                            *)
ResolveLoadsOwn(c) ==
    LET a == ask[c]
    IN  /\ resPc[c] = "new"
        /\ IF a.wish \notin open \/ (a.id # None /\ (a.id \notin built \/ owner[a.id] # a.who))
           THEN ResolveGoes(c, "500") /\ UNCHANGED <<chosen, already>>
           ELSE /\ ResolveGoes(c, IF a.data THEN "create" ELSE "link")
                /\ chosen' = [chosen EXCEPT ![c] = a.id]
                /\ already' = [already EXCEPT ![c] = <<a.wish, a.id>> \in joins]
        /\ UNCHANGED <<open, built, last, owner, joins, gone, ask>>
ResolveLoads(c) ==
    LET a == ask[c]
    IN  /\ resPc[c] = "new"
        /\ IF a.wish \notin open \/ (a.id # None /\ ~Referable(a))
           THEN ResolveGoes(c, "500") /\ UNCHANGED <<chosen, already>>
           ELSE /\ ResolveGoes(c, IF a.data THEN "create" ELSE "link")
                /\ chosen' = [chosen EXCEPT ![c] = a.id]
                /\ already' = [already EXCEPT ![c] = <<a.wish, a.id>> \in joins]
        /\ UNCHANGED <<open, built, last, owner, joins, gone, ask>>

(* handle_property_create_update, with its own commit or its own refusal;  *)
(* the property that was referred to is forgotten.                         *)
ResolveCreates(c) ==
    LET p == last + 1
    IN  /\ resPc[c] = "create" /\ p \in Builds
        /\ last' = p /\ built' = built \cup {p}
        /\ owner' = [owner EXCEPT ![p] = ask[c].who]
        /\ chosen' = [chosen EXCEPT ![c] = p]
        /\ already' = [already EXCEPT ![c] = FALSE]
        /\ ResolveGoes(c, "link")
        /\ UNCHANGED <<open, joins, gone, ask>>

(* The association has a primary key and two foreign keys.  A link that    *)
(* was there when the request was loaded is not inserted again.            *)
Link(c) == <<ask[c].wish, chosen[c]>>
ResolveLinks(c) ==
    /\ resPc[c] = "link"
    /\ ask[c].wish \in open
    /\ already[c] \/ (Link(c) \notin joins /\ chosen[c] \in built)
    /\ joins' = IF already[c] THEN joins ELSE joins \cup {Link(c)}
    /\ ResolveGoes(c, "200")
    /\ UNCHANGED <<open, built, last, owner, gone, ask, chosen, already>>

ResolveFails(c) ==
    /\ resPc[c] \in {"create", "link"}
    /\ ResolveGoes(c, "500")
    /\ UNCHANGED <<open, built, last, owner, joins, gone, ask, chosen, already>>

(* The requester deletes his account; a property is deleted, or one is     *)
(* created outside.                                                        *)
WishGoes(q) ==
    /\ q \in open /\ open' = open \ {q}
    /\ joins' = {j \in joins : j[1] # q}
    /\ gone' = gone \cup (joins \ joins')
    /\ UNCHANGED <<built, last, owner, resPc, ask, chosen, already>>
BuildGoes(p) ==
    /\ p \in built /\ built' = built \ {p}
    /\ joins' = {j \in joins : j[2] # p}
    /\ gone' = gone \cup (joins \ joins')
    /\ UNCHANGED <<open, last, owner, resPc, ask, chosen, already>>
PropertyCreated ==
    /\ last < MaxBuilt
    /\ last' = last + 1 /\ built' = built \cup {last + 1}
    /\ UNCHANGED <<open, owner, joins, gone, resPc, ask, chosen, already>>

ResolutionNext ==
    \/ \E c \in ResolveCalls :
          ResolveLoads(c) \/ ResolveCreates(c) \/ ResolveLinks(c) \/ ResolveFails(c)
    \/ \E q \in Wishes : WishGoes(q)
    \/ \E p \in Builds : BuildGoes(p)
    \/ PropertyCreated

ResolutionSpec == ResolutionInit /\ [][ResolutionNext]_resolutionVars

----------------------------------------------------------------------------
(* Every link was answered to somebody, and every answer left its link,    *)
(* until the request or the property was deleted.  A link to a property of *)
(* the user who made it is the one that its creation was for: when that    *)
(* failed between the two commits, he can create another property but not  *)
(* link the first one.                                                     *)
LinksAreAnswers ==
    LET answered == {c \in ResolveCalls : resPc[c] = "200"}
    IN  /\ \A c \in answered : Link(c) \in joins \cup gone
        /\ \A j \in joins : \E c \in answered :
              Link(c) = j /\ (ask[c].data \/ owner[j[2]] # ask[c].who)

============================================================================
