------------------------------ MODULE Relations ------------------------------
(***************************************************************************)
(* The tags and the features an update brings for a property, as           *)
(* RelationshipExecutor merges them: relationship_handler.py.  Tags are    *)
(* shared and their names unique; a feature belongs to one property.  The  *)
(* update loads the property with what it is related to, finds the object  *)
(* each item means, and commits what differs from what it loaded: links    *)
(* and rows are added and deleted one by one, so that what others added in *)
(* between is not touched.                                                 *)
(*                                                                         *)
(* A payload brings one item; two of them only meet if they are equal new  *)
(* names, which the unique index refuses.  The images of a feature and of  *)
(* a property are merged by the same code as features.  Areas and covers,  *)
(* the other columns and the deletion of images are in Properties.         *)
(***************************************************************************)
EXTENDS Naturals, FiniteSets

CONSTANTS
    Flats,       \* properties
    TagNames,
    MergeCalls   \* updates, bounding how many there are

ASSUME RelationsAssumption ==
    IsFiniteSet(TagNames) /\ 0 \notin TagNames /\ Flats \cap MergeCalls = {}

TagIds == 1..Cardinality(TagNames)
NoTag == 0
(* A feature is named by the call that brought it, or by the property that *)
(* had it from the beginning; a title by the call that gave it.            *)
Features == Flats \cup MergeCalls
First == "first"
Deleted == "deleted"

ASSUME TitlesAssumption == {First, Deleted} \cap MergeCalls = {}

VARIABLES
    standing, \* assets
    nameOf,   \* tags, with NoTag where there is no row
    links,    \* asset_tag_association
    titleOf,  \* asset_features
    mergePc,
    want,     \* a call: its property and its item
    sight,    \* what it loaded: the tags of the property, and names as first seen
    found,    \* the tag its item means, NoTag for a new one
    clock,    \* history: the number of commits,
    sawAt,    \* the one before which a call loaded,
    when      \* and the one it made, or 0

relationVars ==
    <<standing, nameOf, links, titleOf, mergePc, want, sight, found, clock, sawAt, when>>

NoWant ==
    [kind |-> "none", of |-> NoTag, tag |-> NoTag, name |-> NoTag, feature |-> NoTag]
OfTag == {"tag", "retag"}
OfFeature == {"feature", "retitle", "unfeature"}
Items ==
    [kind : {"none", "untag"} \cup OfTag \cup OfFeature, of : Flats \cup {NoTag},
     tag : TagIds \cup {NoTag}, name : TagNames \cup {NoTag}, feature : Features \cup {NoTag}]

TagsOf(p) == {t \in TagIds : <<p, t>> \in links}
Known == {t \in TagIds : nameOf[t] # NoTag}
Home(f) == IF f \in Flats THEN f ELSE want[f].of
FeaturesOf(p) == {f \in Features : titleOf[f] # Deleted /\ Home(f) = p}

Links == Flats \X TagIds

RelationTypeOK ==
    /\ standing \subseteq Flats /\ links \subseteq Links
    /\ nameOf \in [TagIds -> TagNames \cup {NoTag}]
    /\ titleOf \in [Features -> MergeCalls \cup {First, Deleted}]
    /\ mergePc \in [MergeCalls -> {"new", "load", "find", "commit", "refresh", "200", "500"}]
    /\ want \in [MergeCalls -> Items]
    /\ sight \in [MergeCalls ->
                     [tags : SUBSET TagIds, names : [TagIds -> TagNames \cup {NoTag}]]]
    /\ found \in [MergeCalls -> TagIds \cup {NoTag}]
    /\ clock \in Nat /\ {sawAt, when} \subseteq [MergeCalls -> Nat]

RelationInit ==
    /\ standing = Flats
    /\ \E n \in TagNames : nameOf = [t \in TagIds |-> IF t = 1 THEN n ELSE NoTag]
    /\ links \in SUBSET {l \in Links : l[2] = 1}
    /\ titleOf = [f \in Features |-> IF f \in Flats THEN First ELSE Deleted]
    /\ mergePc = [c \in MergeCalls |-> "new"]
    /\ want = [c \in MergeCalls |-> NoWant]
    /\ sight = [c \in MergeCalls |-> [tags |-> {}, names |-> [t \in TagIds |-> NoTag]]]
    /\ found = [c \in MergeCalls |-> NoTag]
    /\ clock = 0
    /\ sawAt = [c \in MergeCalls |-> 0] /\ when = [c \in MergeCalls |-> 0]

MergeGoes(c, pc) == mergePc' = [mergePc EXCEPT ![c] = pc]

(***************************************************************************)
(* The items of a client who has read the property: a tag by its name, a   *)
(* tag by its id, whose name is then set, and one that is taken off; a     *)
(* feature that is new, gets another title, or is deleted.                 *)
(***************************************************************************)
Wants(p) ==
    LET w == [NoWant EXCEPT !.of = p]
    IN  {[w EXCEPT !.kind = "tag", !.name = n] : n \in TagNames}
        \cup {[w EXCEPT !.kind = "retag", !.tag = t, !.name = n] : t \in Known, n \in TagNames}
        \cup {[w EXCEPT !.kind = "untag", !.tag = t] : t \in TagsOf(p)}
        \cup {[w EXCEPT !.kind = k, !.feature = f] :
                 k \in {"retitle", "unfeature"}, f \in FeaturesOf(p)}

(* Calls are alike, so the next one may always be the same of those left.  *)
Brings(c) ==
    /\ mergePc[c] = "new" /\ c = CHOOSE d \in MergeCalls : mergePc[d] = "new"
    /\ \E p \in standing :
       \E w \in Wants(p) \cup {[NoWant EXCEPT !.kind = "feature", !.of = p, !.feature = c]} :
          want' = [want EXCEPT ![c] = w]
    /\ MergeGoes(c, "load")
    /\ UNCHANGED <<standing, nameOf, links, titleOf, sight, found, clock, sawAt, when>>

(* db.get of the property, with its collections.  A property that is gone  *)
(* would be inserted without its columns.                                  *)
MergeLoads(c) ==
    LET p == want[c].of
        tags == TagsOf(p)
    IN  /\ mergePc[c] = "load"
        /\ IF p \in standing
           THEN /\ sight' = [sight EXCEPT ![c] =
                       [tags |-> tags,
                        names |-> [t \in TagIds |-> IF t \in tags THEN nameOf[t] ELSE NoTag]]]
                /\ sawAt' = [sawAt EXCEPT ![c] = clock]
                /\ MergeGoes(c, "find")
           ELSE MergeGoes(c, "500") /\ UNCHANGED <<sight, sawAt>>
        /\ UNCHANGED <<standing, nameOf, links, titleOf, want, found, clock, when>>

(* The tag with the name (_find_existing_match), or with the id: the one   *)
(* that was loaded, or db.get.  What the session has loaded keeps the name *)
(* it was loaded with.  A feature that is gone cannot be applied to.       *)
MergeFinds(c) ==
    LET w == want[c]
        named == {t \in TagIds : nameOf[t] = w.name}
    IN  /\ mergePc[c] = "find"
        /\ IF w.kind = "retitle" /\ titleOf[w.feature] = Deleted
           THEN MergeGoes(c, "500") /\ UNCHANGED <<sight, found>>
           ELSE /\ MergeGoes(c, "commit")
                /\ \E t \in IF w.kind # "tag" THEN {w.tag}
                            ELSE IF named = {} THEN {NoTag} ELSE named :
                      /\ found' = [found EXCEPT ![c] = t]
                      /\ IF t = NoTag \/ sight[c].names[t] # NoTag THEN UNCHANGED sight
                         ELSE sight' = [sight EXCEPT ![c].names[t] = nameOf[t]]
        /\ UNCHANGED <<standing, nameOf, links, titleOf, want, clock, sawAt, when>>

(***************************************************************************)
(* The flush and the commit.                                               *)
(***************************************************************************)
Commits(c) ==
    /\ clock' = clock + 1 /\ when' = [when EXCEPT ![c] = clock + 1]
    /\ MergeGoes(c, "refresh")
Raises(c) ==
    MergeGoes(c, "500") /\ UNCHANGED <<nameOf, links, titleOf, found, clock, when>>

NextTag ==
    CHOOSE t \in TagIds : t \notin Known /\ \A s \in TagIds : s < t => s \in Known
(* The unique index on names, and the foreign and the primary key of links.*)
Names(n) == {t \in TagIds : nameOf[t] = n}

(* Mutant: the collection of the property becomes the merged list whatever *)
(* it is by now, the replace semantics that are commented out.             *)
TagCommitsWhole(c) ==
    LET w == want[c]
        new == found[c] = NoTag
    IN  /\ mergePc[c] = "commit" /\ w.kind \in OfTag
        /\ IF w.of \notin standing \/ (new /\ Names(w.name) # {})
              \/ (~new /\ Names(w.name) \ {found[c]} # {})
           THEN Raises(c)
           ELSE LET t == IF new THEN NextTag ELSE found[c]
                IN  /\ links' = {l \in links : l[1] # w.of}
                               \cup ({w.of} \X (sight[c].tags \cup {t}))
                    /\ nameOf' = [nameOf EXCEPT ![t] = w.name]
                    /\ found' = [found EXCEPT ![c] = t]
                    /\ Commits(c) /\ UNCHANGED titleOf
        /\ UNCHANGED <<standing, want, sight, sawAt>>
TagCommits(c) ==
    LET w == want[c]
        new == found[c] = NoTag
        link == new \/ found[c] \notin sight[c].tags
        rename == ~new /\ sight[c].names[found[c]] # w.name
        refused ==
            \/ new /\ Names(w.name) # {}
            \/ rename /\ Names(w.name) \ {found[c]} # {}
            \/ link /\ (w.of \notin standing \/ <<w.of, found[c]>> \in links)
    IN  /\ mergePc[c] = "commit" /\ w.kind \in OfTag
        /\ IF refused THEN Raises(c)
           ELSE LET t == IF new THEN NextTag ELSE found[c]
                IN  /\ links' = IF link THEN links \cup {<<w.of, t>>} ELSE links
                    /\ nameOf' = IF new \/ rename THEN [nameOf EXCEPT ![t] = w.name] ELSE nameOf
                    /\ found' = [found EXCEPT ![c] = t]
                    /\ Commits(c) /\ UNCHANGED titleOf
        /\ UNCHANGED <<standing, want, sight, sawAt>>

(* A collection of many loses the object (rmv_frm_parent).  When the link  *)
(* is gone already, the driver says whether the DELETE has counted it.     *)
UntagCommits(c) ==
    LET w == want[c]
        link == <<w.of, w.tag>>
    IN  /\ mergePc[c] = "commit" /\ w.kind = "untag"
        /\ \/ /\ links' = IF w.tag \in sight[c].tags THEN links \ {link} ELSE links
              /\ Commits(c) /\ UNCHANGED <<nameOf, titleOf, found>>
           \/ w.tag \in sight[c].tags /\ link \notin links /\ Raises(c)
        /\ UNCHANGED <<standing, want, sight, sawAt>>

(* The row of a new feature needs that of its property; a title is given   *)
(* to a row that is there; a feature that left its property is an orphan,  *)
(* and deleted, and it only warns that it was gone.                        *)
FeatureCommits(c) ==
    LET w == want[c]
    IN  /\ mergePc[c] = "commit" /\ w.kind \in OfFeature
        /\ IF \/ w.kind = "feature" /\ w.of \notin standing
              \/ w.kind = "retitle" /\ titleOf[w.feature] = Deleted
           THEN Raises(c)
           ELSE /\ titleOf' = [titleOf EXCEPT ![w.feature] =
                                  IF w.kind = "unfeature" THEN Deleted ELSE c]
                /\ Commits(c) /\ UNCHANGED <<nameOf, links, found>>
        /\ UNCHANGED <<standing, want, sight, sawAt>>

(* db.refresh, which raises when the property is gone.                     *)
MergeRefreshes(c) ==
    /\ mergePc[c] = "refresh"
    /\ MergeGoes(c, IF want[c].of \in standing THEN "200" ELSE "500")
    /\ UNCHANGED <<standing, nameOf, links, titleOf, want, sight, found, clock, sawAt, when>>

(* A property is deleted with its links and its features.                  *)
FlatGoes(p) ==
    /\ p \in standing
    /\ standing' = standing \ {p}
    /\ links' = {l \in links : l[1] # p}
    /\ titleOf' = [f \in Features |-> IF Home(f) = p THEN Deleted ELSE titleOf[f]]
    /\ UNCHANGED <<nameOf, mergePc, want, sight, found, clock, sawAt, when>>

RelationNext ==
    \/ \E c \in MergeCalls :
          \/ Brings(c) \/ MergeLoads(c) \/ MergeFinds(c) \/ TagCommits(c) \/ UntagCommits(c)
          \/ FeatureCommits(c) \/ MergeRefreshes(c)
    \/ \E p \in Flats : FlatGoes(p)

RelationSpec == RelationInit /\ [][RelationNext]_relationVars

-----------------------------------------------------------------------------
(* What an update asked for and committed is so, until an update that      *)
(* names the same tag or feature says otherwise.  That one need not be the *)
(* later of the two: it may have been committed before, after the first    *)
(* had loaded the property (RelationshipExecutor._handle_many).            *)
Since(c, d) == d # c /\ when[d] > sawAt[c]
StillSo(c) ==
    LET w == want[c]
        t == found[c]
        Other(kinds) == {d \in MergeCalls : Since(c, d) /\ want[d].kind \in kinds}
        OnTag(kinds) == {d \in Other(kinds) : found[d] = t}
        OnFeature(kinds) == {d \in Other(kinds) : want[d].feature = w.feature}
    IN  /\ w.kind \in OfTag =>
              /\ <<w.of, t>> \in links \/ \E d \in OnTag({"untag"}) : want[d].of = w.of
              /\ nameOf[t] = w.name \/ \E d \in OnTag(OfTag) : want[d].name = nameOf[t]
        /\ w.kind = "untag" =>
              <<w.of, t>> \notin links \/ \E d \in OnTag(OfTag) : want[d].of = w.of
        /\ w.kind \in {"feature", "retitle"} =>
              \/ titleOf[w.feature] = c
              \/ titleOf[w.feature] = Deleted /\ OnFeature({"unfeature"}) # {}
              \/ titleOf[w.feature] \in OnFeature({"retitle"})
        /\ w.kind = "unfeature" => titleOf[w.feature] = Deleted
MergedUntilNamed ==
    \A c \in MergeCalls : when[c] > 0 /\ want[c].of \in standing => StillSo(c)

=============================================================================
