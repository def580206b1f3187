--------------------------- MODULE RoommateFinder ---------------------------
(***************************************************************************)
(* One roommate request: the users who apply for it                        *)
(* (roommates_finder_request_application, rf_application.py), the deletion *)
(* of the request (delete_roommate_request, services.py) and the           *)
(* notification of the requester over the websocket.  Each call runs in a  *)
(* database transaction of its own, READ COMMITTED, so what a call has     *)
(* checked may be stale when it writes; postgres then decides by the       *)
(* unique constraint, the foreign key and the row locks they take.         *)
(*                                                                         *)
(* The requester has one websocket at a time; ConnectionManager has the    *)
(* sessions in detail, and here a session is reduced to the windows in     *)
(* which it is in the online set, subscribed, or both.                     *)
(***************************************************************************)
EXTENDS Naturals, FiniteSets

CONSTANTS
    Applicants,
    Calls,        \* calls of roommates_finder_request_application
    applicant,    \* the user who makes a call
    Deleters,     \* calls of delete_roommate_request
    Faults        \* "dberror": a statement fails, "crash": the server dies

ASSUME ApplicantAssumption == applicant \in [Calls -> Applicants]
ASSUME CallsAssumption == IsFiniteSet(Calls)
ASSUME FaultsAssumption == Faults \subseteq {"dberror", "crash"}

VARIABLES
    request,   \* the RoommateFinder row
    rows,      \* calls whose RoomieApplication row is committed
    orphans,   \* those whose roommate_finder_id was set to NULL since
    cached,    \* how often the request is in cached_roomies_application_ids
    cpc, reply,          \* a call: control and HTTP status
    dpc, loaded, answer, \* a deletion: control, child rows it saw, status
    session,   \* the websocket of the requester
    online,    \* the requester is in active_authenticated_actors
    inbox,     \* notifications in the pubsub of the session
    shown,     \* history: notifications sent to the requester
    missed,    \* history: notifications that no later step sends
    offline    \* history: calls that found the requester offline

dbVars == <<request, rows, orphans, cached>>
callVars == <<cpc, reply>>
deleteVars == <<dpc, loaded, answer>>
wsVars == <<session, online, inbox, shown, missed>>
vars == <<dbVars, callVars, deleteVars, wsVars, offline>>

Of(a) == {c \in Calls : applicant[c] = a}
Referring == rows \ orphans

TypeOK ==
    /\ request \in {"posted", "deleted"}
    /\ rows \subseteq Calls /\ orphans \subseteq rows
    /\ cached \in [Applicants -> Nat]
    /\ cpc \in [Calls -> {"start", "check", "insert", "commit", "online",
                          "publish", "refresh", "done"}]
    /\ reply \in [Calls -> {0, 201, 302, 404, 500}]
    /\ dpc \in [Deleters -> {"start", "flush", "delete", "commit", "done"}]
    /\ loaded \in [Deleters -> SUBSET Calls]
    /\ answer \in [Deleters -> {0, 204, 400, 403, 404}]
    /\ session \in {"off", "added", "up", "closed", "leaving"}
    /\ online \in BOOLEAN
    /\ inbox \cup shown \cup missed \cup offline \subseteq Calls

Init ==
    /\ request = "posted" /\ rows = {} /\ orphans = {}
    /\ cached = [a \in Applicants |-> 0]
    /\ cpc = [c \in Calls |-> "start"] /\ reply = [c \in Calls |-> 0]
    /\ dpc = [d \in Deleters |-> "start"]
    /\ loaded = [d \in Deleters |-> {}]
    /\ answer = [d \in Deleters |-> 0]
    /\ session = "off" /\ online = FALSE
    /\ inbox = {} /\ shown = {} /\ missed = {} /\ offline = {}

(* A call goes on at a control point, or ends with a status.               *)
Goes(c, pc) == cpc' = [cpc EXCEPT ![c] = pc] /\ UNCHANGED reply
Replies(c, code) ==
    cpc' = [cpc EXCEPT ![c] = "done"] /\ reply' = [reply EXCEPT ![c] = code]
Answers(d, code) ==
    dpc' = [dpc EXCEPT ![d] = "done"] /\ answer' = [answer EXCEPT ![d] = code]

----------------------------------------------------------------------------
(* roommates_finder_request_application.                                   *)

FindRequest(c) ==
    /\ cpc[c] = "start"
    /\ IF request = "posted" THEN Goes(c, "check") ELSE Replies(c, 404)
    /\ UNCHANGED <<dbVars, deleteVars, wsVars, offline>>

CheckDuplicate(c) ==
    /\ cpc[c] = "check"
    /\ IF Referring \cap Of(applicant[c]) = {}
       THEN Goes(c, "insert") ELSE Replies(c, 302)
    /\ UNCHANGED <<dbVars, deleteVars, wsVars, offline>>

(* Mutants of Insert: no foreign key; and the error of either constraint   *)
(* taken for a duplicate.                                                  *)
InsertUnreferenced(c) ==
    /\ cpc[c] = "insert"
    /\ \A b \in Of(applicant[c]) : cpc[b] # "commit"
    /\ IF Referring \cap Of(applicant[c]) = {}
       THEN Goes(c, "commit") ELSE Replies(c, 500)
    /\ UNCHANGED <<dbVars, deleteVars, wsVars, offline>>

InsertSaysDuplicate(c) ==
    /\ cpc[c] = "insert"
    /\ \A b \in Of(applicant[c]) : cpc[b] # "commit"
    /\ \A d \in Deleters : dpc[d] # "commit"
    /\ IF request = "posted" /\ Referring \cap Of(applicant[c]) = {}
       THEN Goes(c, "commit") ELSE Replies(c, 302)
    /\ UNCHANGED <<dbVars, deleteVars, wsVars, offline>>

(* The flush.  It waits for a transaction that has inserted the same pair  *)
(* or deleted the request; what that one commits decides whether the       *)
(* unique constraint and the foreign key let the row in.                   *)
Insert(c) ==
    /\ cpc[c] = "insert"
    /\ \A b \in Of(applicant[c]) : cpc[b] # "commit"
    /\ \A d \in Deleters : dpc[d] # "commit"
    /\ IF request = "posted" /\ Referring \cap Of(applicant[c]) = {}
       THEN Goes(c, "commit") ELSE Replies(c, 500)
    /\ UNCHANGED <<dbVars, deleteVars, wsVars, offline>>

(* The commit of the application, the notification and, by the             *)
(* after_insert listener, the id in the applicant's cached ids.            *)
CommitApplication(c) ==
    /\ cpc[c] = "commit"
    /\ rows' = rows \cup {c}
    /\ cached' = [cached EXCEPT ![applicant[c]] = @ + 1]
    /\ Goes(c, "online")
    /\ UNCHANGED <<request, orphans, deleteVars, wsVars, offline>>

(* For an offline requester the token should go to the pending pool, but   *)
(* the call omits the argument notification_ids, which it spells           *)
(* notification_id: it raises, and the outer except clause, with nothing   *)
(* left to roll back, replies 500.                                         *)
CheckOnline(c) ==
    /\ cpc[c] = "online"
    /\ IF online THEN Goes(c, "publish") ELSE Replies(c, 500)
    /\ offline' = IF online THEN offline ELSE offline \cup {c}
    /\ UNCHANGED <<dbVars, deleteVars, wsVars>>

Subscribed == session \in {"up", "closed"}

Publish(c) ==
    /\ cpc[c] = "publish"
    /\ inbox' = IF Subscribed THEN inbox \cup {c} ELSE inbox
    /\ missed' = IF Subscribed THEN missed ELSE missed \cup {c}
    /\ Goes(c, "refresh")
    /\ UNCHANGED <<dbVars, deleteVars, session, online, shown, offline>>

Refresh(c) ==
    /\ cpc[c] = "refresh"
    /\ Replies(c, 201)
    /\ UNCHANGED <<dbVars, deleteVars, wsVars, offline>>

(* A statement or the commit fails: rollback and 500.  The refresh of the  *)
(* applicant comes after the commit, and its failure undoes nothing.       *)
DbError(c) ==
    /\ "dberror" \in Faults
    /\ cpc[c] \in {"check", "insert", "commit", "refresh"}
    /\ Replies(c, 500)
    /\ UNCHANGED <<dbVars, deleteVars, wsVars, offline>>

----------------------------------------------------------------------------
(* delete_roommate_request.                                                *)

FindForDelete(d, permitted) ==
    /\ dpc[d] = "start"
    /\ IF request = "posted" /\ permitted
       THEN dpc' = [dpc EXCEPT ![d] = "flush"] /\ UNCHANGED answer
       ELSE Answers(d, IF request = "posted" THEN 403 ELSE 404)
    /\ UNCHANGED <<dbVars, callVars, loaded, wsVars, offline>>

(* The flush of the deleted object first loads its applications, whose     *)
(* foreign key it is going to set to NULL.                                 *)
LoadApplications(d) ==
    /\ dpc[d] = "flush"
    /\ loaded' = [loaded EXCEPT ![d] = Referring]
    /\ dpc' = [dpc EXCEPT ![d] = "delete"]
    /\ UNCHANGED <<dbVars, callVars, answer, wsVars, offline>>

(* Mutant of DeleteRow: the row was read with a share lock, which it       *)
(* upgrades.                                                               *)
DeleteRowUpgrades(d) ==
    /\ dpc[d] = "delete"
    /\ \A c \in Calls : cpc[c] # "commit"
    /\ \A e \in Deleters \ {d} : dpc[e] \notin {"flush", "delete", "commit"}
    /\ IF Referring \subseteq loaded[d]
       THEN dpc' = [dpc EXCEPT ![d] = "commit"] /\ UNCHANGED answer
       ELSE Answers(d, 400)
    /\ UNCHANGED <<dbVars, callVars, loaded, wsVars, offline>>

(* The UPDATE of those and the DELETE, which waits for the transactions    *)
(* that reference the request; RESTRICT sees what was committed since.     *)
DeleteRow(d) ==
    /\ dpc[d] = "delete"
    /\ \A c \in Calls : cpc[c] # "commit"
    /\ \A e \in Deleters : dpc[e] # "commit"
    /\ IF Referring \subseteq loaded[d]
       THEN dpc' = [dpc EXCEPT ![d] = "commit"] /\ UNCHANGED answer
       ELSE Answers(d, 400)
    /\ UNCHANGED <<dbVars, callVars, loaded, wsVars, offline>>

CommitDelete(d) ==
    /\ dpc[d] = "commit"
    /\ request' = "deleted"
    /\ orphans' = orphans \cup loaded[d]
    /\ Answers(d, 204)
    /\ UNCHANGED <<rows, cached, callVars, loaded, wsVars, offline>>

----------------------------------------------------------------------------
(* The websocket of the requester.                                         *)

(* Mutant of Opens: connect subscribes and forgets the sadd.               *)
OpensUnlisted ==
    /\ session = "off"
    /\ session' = "added"
    /\ UNCHANGED <<dbVars, callVars, deleteVars, online, inbox, shown, missed, offline>>

Opens ==
    /\ session = "off"
    /\ session' = "added" /\ online' = TRUE
    /\ UNCHANGED <<dbVars, callVars, deleteVars, inbox, shown, missed, offline>>

Subscribes ==
    /\ session = "added"
    /\ session' = "up"
    /\ UNCHANGED <<dbVars, callVars, deleteVars, online, inbox, shown, missed, offline>>

ClientCloses ==
    /\ session = "up"
    /\ session' = "closed"
    /\ UNCHANGED <<dbVars, callVars, deleteVars, online, inbox, shown, missed, offline>>

(* pubsub_notification_handler with an open socket.                        *)
ListenerSends(c) ==
    /\ session = "up" /\ c \in inbox
    /\ inbox' = inbox \ {c}
    /\ shown' = shown \cup {c}
    /\ UNCHANGED <<dbVars, callVars, deleteVars, session, online, missed, offline>>

(* disconnect, by the receive loop or by a listener whose send failed and  *)
(* whose attempt to queue the token raised: what is unread is lost.        *)
Unsubscribes ==
    /\ session = "closed"
    /\ session' = "leaving"
    /\ inbox' = {} /\ missed' = missed \cup inbox
    /\ UNCHANGED <<dbVars, callVars, deleteVars, online, shown, offline>>

GoesOffline ==
    /\ session = "leaving"
    /\ session' = "off" /\ online' = FALSE
    /\ UNCHANGED <<dbVars, callVars, deleteVars, inbox, shown, missed, offline>>

(* The server dies: open transactions roll back, no call under way         *)
(* replies, and the online set keeps whom it held.                         *)
Crash ==
    /\ "crash" \in Faults
    /\ \/ \E c \in Calls : cpc[c] \notin {"start", "done"}
       \/ \E d \in Deleters : dpc[d] \notin {"start", "done"}
       \/ session # "off"
    /\ cpc' = [c \in Calls |-> IF cpc[c] = "start" THEN "start" ELSE "done"]
    /\ dpc' = [d \in Deleters |-> IF dpc[d] = "start" THEN "start" ELSE "done"]
    /\ session' = "off"
    /\ inbox' = {} /\ missed' = missed \cup inbox
    /\ UNCHANGED <<dbVars, reply, loaded, answer, online, shown, offline>>

----------------------------------------------------------------------------
Apply(c) ==
    \/ FindRequest(c)
    \/ CheckDuplicate(c)
    \/ Insert(c)
    \/ CommitApplication(c)
    \/ CheckOnline(c)
    \/ Publish(c)
    \/ Refresh(c)
    \/ DbError(c)

Delete(d) ==
    \/ \E permitted \in BOOLEAN : FindForDelete(d, permitted)
    \/ LoadApplications(d)
    \/ DeleteRow(d)
    \/ CommitDelete(d)

Websocket ==
    \/ Opens
    \/ Subscribes
    \/ ClientCloses
    \/ \E c \in Calls : ListenerSends(c)
    \/ Unsubscribes
    \/ GoesOffline

Next ==
    \/ \E c \in Calls : Apply(c)
    \/ \E d \in Deleters : Delete(d)
    \/ Websocket
    \/ Crash

Spec == Init /\ [][Next]_vars

(* A call that has begun is run on, and a statement that waits for a lock  *)
(* gets it when it is free; the listener reads what is published.          *)
FairSpec ==
    /\ Spec
    /\ \A c \in Calls : WF_vars(Apply(c) /\ cpc[c] # "start")
    /\ \A c \in Calls : WF_vars(ListenerSends(c))
    /\ \A d \in Deleters : WF_vars(Delete(d) /\ dpc[d] # "start")

----------------------------------------------------------------------------
(* Properties.                                                             *)

(* Two calls of one applicant that both passed the duplicate check leave   *)
(* one application, and the cached ids agree with the rows, also after the *)
(* request is gone: every list entry has its row.                          *)
AppliedOnce ==
    \A a \in Applicants :
        /\ Cardinality(rows \cap Of(a)) <= 1
        /\ cached[a] = Cardinality(rows \cap Of(a))

(* An application never refers to a request that was deleted, although the *)
(* call saw the request and the deletion saw no application.               *)
NoDanglingApplication == request = "deleted" => Referring = {}

Board == INSTANCE RequestBoard WITH
    Applications <- Calls,
    posted <- request = "posted",
    entries <- [a \in Applicants |-> Referring \cap Of(a)]

(* The transactions of applications and deletions, which read, wait, fail  *)
(* and die in any order, amount to atomic ones: nobody applies twice or    *)
(* for a request that is gone, and a deletion takes every application off. *)
BoardImplemented == Board!BoardSpec

(* The status tells what happened: 201 means applied, 302 and 404 not by   *)
(* this call, 302 that another call applied, 400 that the request stood;   *)
(* and a 500 whose application was kept is that of an offline requester,   *)
(* or came after the notification was published.                           *)
ReplyTruthful ==
    /\ \A c \in Calls :
          /\ reply[c] = 201 => c \in rows
          /\ reply[c] = 302 => c \notin rows /\ rows \cap Of(applicant[c]) # {}
          /\ reply[c] = 404 => c \notin rows
          /\ reply[c] = 500 /\ c \in rows =>
                 c \in offline \cup inbox \cup shown \cup missed
    /\ \A d \in Deleters :
          answer[d] = 400 => Referring # {} \/ request = "deleted"

(* Every call gets its status: the row locks, the unique index and the     *)
(* foreign key never make two transactions wait for each other.            *)
EveryCallReplies ==
    /\ \A c \in Calls : cpc[c] # "start" ~> cpc[c] = "done"
    /\ \A d \in Deleters : dpc[d] # "start" ~> dpc[d] = "done"

(* While the session of the requester is open, an application that was     *)
(* committed is shown to the requester: the session is in the online set,  *)
(* it is subscribed, and what is published to it is sent.                  *)
AppliedIsShown ==
    \A c \in Calls : cpc[c] = "online" /\ session = "up"
                          ~> (c \in shown \/ session # "up")

(* tests/test_roommate_finder/test_application.py:171 asserts 201 for an   *)
(* application whose requester is disconnected.                            *)
OfflineRequesterStill201 ==
    \A c \in Calls : c \in offline /\ cpc[c] = "done" => reply[c] = 201

============================================================================
