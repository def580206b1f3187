------------------------ MODULE RoommateFinder_proofs ------------------------
(***************************************************************************)
(* Proofs about RoommateFinder, for any applicants, calls, deletions and   *)
(* faults: the types, that an applicant applies once, that no application  *)
(* refers to a deleted request, and that the replies are truthful.         *)
(***************************************************************************)
EXTENDS RoommateFinder, FiniteSetTheorems, TLAPS

(* A call whose transaction is still open has no row, and one that goes on *)
(* after its commit has.                                                   *)
RowsFollowCalls ==
    \A c \in Calls :
        /\ cpc[c] \in {"start", "check", "insert", "commit"} => c \notin rows
        /\ cpc[c] \in {"online", "publish", "refresh"} => c \in rows
        /\ reply[c] # 0 => cpc[c] = "done"

(* Whoever has inserted holds off the deletion and the other calls of the  *)
(* applicant, of whom none has a row.                                      *)
InsertExcludes ==
    \A c \in Calls : cpc[c] = "commit" =>
        /\ request = "posted"
        /\ rows \cap Of(applicant[c]) = {}
        /\ \A b \in Of(applicant[c]) : cpc[b] = "commit" => b = c

(* Whoever has deleted holds off the insertions, and has loaded all the    *)
(* applications there are.                                                 *)
DeleteExcludes ==
    \A d \in Deleters :
        /\ loaded[d] \subseteq rows
        /\ dpc[d] = "commit" =>
              Referring \subseteq loaded[d] /\ \A c \in Calls : cpc[c] # "commit"

(* Only a deletion makes an orphan.                                        *)
PostedHasNoOrphan == request = "posted" => orphans = {}

(* AppliedOnce without its cardinalities.                                  *)
NoneOrOne(a) ==
    \/ rows \cap Of(a) = {} /\ cached[a] = 0
    \/ \E c \in Calls : rows \cap Of(a) = {c} /\ cached[a] = 1

DbInv ==
    /\ TypeOK
    /\ RowsFollowCalls
    /\ InsertExcludes
    /\ DeleteExcludes
    /\ PostedHasNoOrphan
    /\ NoDanglingApplication
    /\ \A a \in Applicants : NoneOrOne(a)

(* A call that is about to reply 201 has published its notification.       *)
RefreshIsPublished ==
    \A c \in Calls : cpc[c] = "refresh" => c \in inbox \cup shown \cup missed

IInv == DbInv /\ RefreshIsPublished /\ ReplyTruthful

----------------------------------------------------------------------------
(* The database part.                                                      *)

LEMMA DbInit == Init => DbInv
<1> SUFFICES ASSUME Init PROVE DbInv
  OBVIOUS
<1>1. TypeOK
  BY DEF Init, TypeOK
<1>2. RowsFollowCalls /\ InsertExcludes /\ DeleteExcludes
  BY DEF Init, RowsFollowCalls, InsertExcludes, DeleteExcludes
<1>3. PostedHasNoOrphan /\ NoDanglingApplication
  BY DEF Init, PostedHasNoOrphan, NoDanglingApplication
<1>4. \A a \in Applicants : NoneOrOne(a)
  BY DEF Init, NoneOrOne
<1>5. QED
  BY <1>1, <1>2, <1>3, <1>4 DEF DbInv

(* A step of a call that writes no row and starts no transaction that      *)
(* inserts keeps everything.                                               *)
LEMMA CallStep ==
    ASSUME DbInv, NEW c \in Calls, UNCHANGED <<dbVars, deleteVars>>, TypeOK',
           \A b \in Calls : b # c => cpc'[b] = cpc[b] /\ reply'[b] = reply[b],
           cpc'[c] \in {"check", "insert"} => c \notin rows,
           cpc'[c] \in {"online", "publish", "refresh"} => c \in rows,
           cpc'[c] \notin {"start", "commit"},
           reply'[c] # 0 => cpc'[c] = "done"
    PROVE  DbInv'
<1> USE DEF dbVars, deleteVars
<1>1. RowsFollowCalls'
  BY DEF DbInv, RowsFollowCalls
<1>2. InsertExcludes'
  BY DEF DbInv, InsertExcludes, Of
<1>3. DeleteExcludes'
  BY DEF DbInv, DeleteExcludes, Referring
<1>4. PostedHasNoOrphan' /\ NoDanglingApplication'
  BY DEF DbInv, PostedHasNoOrphan, NoDanglingApplication, Referring
<1>5. \A a \in Applicants : NoneOrOne(a)'
  BY DEF DbInv, NoneOrOne, Of
<1>6. QED
  BY <1>1, <1>2, <1>3, <1>4, <1>5 DEF DbInv

LEMMA InsertStep ==
    ASSUME DbInv, NEW c \in Calls, Insert(c), TypeOK'
    PROVE  DbInv'
<1> USE DEF Insert, dbVars, deleteVars
<1>1. CASE request = "posted" /\ Referring \cap Of(applicant[c]) = {}
  <2>1. /\ cpc' = [cpc EXCEPT ![c] = "commit"]
        /\ UNCHANGED <<reply, request, rows, orphans, cached, dpc, loaded, answer>>
    BY <1>1 DEF Goes
  <2>2. \A b \in Calls : cpc'[b] = IF b = c THEN "commit" ELSE cpc[b]
    BY <2>1 DEF DbInv, TypeOK
  <2>3. rows \cap Of(applicant[c]) = {}
    BY <1>1 DEF DbInv, PostedHasNoOrphan, Referring
  <2>4. RowsFollowCalls'
    BY <2>1, <2>2 DEF DbInv, RowsFollowCalls
  <2>5. InsertExcludes'
    <3> SUFFICES ASSUME NEW e \in Calls, cpc'[e] = "commit",
                        NEW b \in Of(applicant[e]), cpc'[b] = "commit"
                 PROVE  b = e
      BY <1>1, <2>1, <2>2, <2>3 DEF DbInv, InsertExcludes, Of
    <3>1. CASE e = c
      BY <2>2, <3>1 DEF Of
    <3>2. CASE e # c /\ b = c
      BY <2>2, <3>2 DEF Of
    <3>3. CASE e # c /\ b # c
      BY <2>2, <3>3 DEF DbInv, InsertExcludes, Of
    <3>4. QED
      BY <3>1, <3>2, <3>3
  <2>6. DeleteExcludes'
    BY <2>1 DEF DbInv, DeleteExcludes, Referring
  <2>7. PostedHasNoOrphan' /\ NoDanglingApplication'
    BY <2>1 DEF DbInv, PostedHasNoOrphan, NoDanglingApplication, Referring
  <2>8. \A a \in Applicants : NoneOrOne(a)'
    BY <2>1 DEF DbInv, NoneOrOne, Of
  <2>9. QED
    BY <2>4, <2>5, <2>6, <2>7, <2>8 DEF DbInv
<1>2. CASE ~(request = "posted" /\ Referring \cap Of(applicant[c]) = {})
  <2>1. Replies(c, 500)
    BY <1>2
  <2>2. QED
    BY <2>1, CallStep DEF Replies, DbInv, TypeOK
<1>3. QED
  BY <1>1, <1>2

LEMMA CommitApplicationStep ==
    ASSUME DbInv, NEW c \in Calls, CommitApplication(c), TypeOK'
    PROVE  DbInv'
<1> USE DEF CommitApplication, deleteVars, Goes
<1>1. /\ request = "posted" /\ rows \cap Of(applicant[c]) = {}
      /\ \A b \in Of(applicant[c]) : cpc[b] = "commit" => b = c
      /\ \A d \in Deleters : dpc[d] # "commit"
      /\ applicant[c] \in Applicants /\ c \in Of(applicant[c])
  BY ApplicantAssumption DEF DbInv, InsertExcludes, DeleteExcludes, Of
<1>2. \A b \in Calls : cpc'[b] = IF b = c THEN "online" ELSE cpc[b]
  BY DEF DbInv, TypeOK
<1>3. RowsFollowCalls'
  BY <1>2 DEF DbInv, RowsFollowCalls
<1>4. InsertExcludes'
  <2> SUFFICES ASSUME NEW e \in Calls, cpc'[e] = "commit"
               PROVE  /\ request' = "posted"
                      /\ rows' \cap Of(applicant[e]) = {}
                      /\ \A b \in Of(applicant[e]) : cpc'[b] = "commit" => b = e
    BY DEF InsertExcludes, Of
  <2>1. e # c /\ cpc[e] = "commit"
    BY <1>2
  <2>2. applicant[e] # applicant[c]
    BY <1>1, <2>1 DEF Of
  <2>3. QED
    BY <1>2, <2>1, <2>2 DEF DbInv, InsertExcludes, Of
<1>5. DeleteExcludes'
  BY <1>1 DEF DbInv, DeleteExcludes
<1>6. PostedHasNoOrphan' /\ NoDanglingApplication'
  BY <1>1 DEF DbInv, PostedHasNoOrphan, NoDanglingApplication
<1>7. ASSUME NEW a \in Applicants PROVE NoneOrOne(a)'
  <2>1. CASE a = applicant[c]
    <3>1. cached[a] = 0
      BY <1>1, <2>1 DEF DbInv, NoneOrOne
    <3>2. cached'[a] = 1
      BY <2>1, <3>1 DEF DbInv, TypeOK
    <3>3. rows' \cap Of(a) = {c}
      BY <1>1, <2>1 DEF Of
    <3>4. QED
      BY <3>2, <3>3 DEF NoneOrOne, Of
  <2>2. CASE a # applicant[c]
    <3>1. cached'[a] = cached[a]
      BY <2>2 DEF DbInv, TypeOK
    <3>2. rows' \cap Of(a) = rows \cap Of(a)
      BY <2>2 DEF Of
    <3>3. QED
      BY <3>1, <3>2 DEF DbInv, NoneOrOne, Of
  <2>3. QED
    BY <2>1, <2>2
<1>8. QED
  BY <1>3, <1>4, <1>5, <1>6, <1>7 DEF DbInv

(* A deletion that has not committed changes no row.                       *)
LEMMA DeleteStep ==
    ASSUME DbInv, NEW d \in Deleters,
           (\E permitted \in BOOLEAN : FindForDelete(d, permitted))
              \/ LoadApplications(d) \/ DeleteRow(d),
           TypeOK'
    PROVE  DbInv'
<1> USE DEF dbVars, callVars
<1>1. UNCHANGED <<request, rows, orphans, cached, cpc, reply>>
  BY DEF FindForDelete, LoadApplications, DeleteRow
<1>2. DeleteExcludes'
  <2>1. CASE \E permitted \in BOOLEAN : FindForDelete(d, permitted)
    BY <1>1, <2>1 DEF DbInv, TypeOK, DeleteExcludes, FindForDelete, Answers, Referring
  <2>2. CASE LoadApplications(d)
    BY <1>1, <2>2 DEF DbInv, TypeOK, DeleteExcludes, LoadApplications, Referring
  <2>3. CASE DeleteRow(d)
    BY <1>1, <2>3 DEF DbInv, TypeOK, DeleteExcludes, DeleteRow, Answers, Referring
  <2>4. QED
    BY <2>1, <2>2, <2>3
<1>3. RowsFollowCalls' /\ InsertExcludes'
  BY <1>1 DEF DbInv, RowsFollowCalls, InsertExcludes, Of
<1>4. PostedHasNoOrphan' /\ NoDanglingApplication'
  BY <1>1 DEF DbInv, PostedHasNoOrphan, NoDanglingApplication, Referring
<1>5. \A a \in Applicants : NoneOrOne(a)'
  BY <1>1 DEF DbInv, NoneOrOne, Of
<1>6. QED
  BY <1>2, <1>3, <1>4, <1>5 DEF DbInv

LEMMA CommitDeleteStep ==
    ASSUME DbInv, NEW d \in Deleters, CommitDelete(d), TypeOK'
    PROVE  DbInv'
<1> USE DEF CommitDelete, callVars, Answers
<1>1. /\ Referring \subseteq loaded[d] /\ \A c \in Calls : cpc[c] # "commit"
  BY DEF DbInv, DeleteExcludes
<1>2. Referring' = {}
  BY <1>1 DEF Referring
<1>3. RowsFollowCalls'
  BY DEF DbInv, RowsFollowCalls
<1>4. InsertExcludes'
  BY <1>1 DEF InsertExcludes
<1>5. DeleteExcludes'
  BY <1>1, <1>2 DEF DbInv, TypeOK, DeleteExcludes
<1>6. PostedHasNoOrphan' /\ NoDanglingApplication'
  BY <1>2 DEF PostedHasNoOrphan, NoDanglingApplication
<1>7. \A a \in Applicants : NoneOrOne(a)'
  BY DEF DbInv, NoneOrOne, Of
<1>8. QED
  BY <1>3, <1>4, <1>5, <1>6, <1>7 DEF DbInv

LEMMA CrashStep ==
    ASSUME DbInv, Crash, TypeOK'
    PROVE  DbInv'
<1> USE DEF Crash, dbVars
<1>1. /\ UNCHANGED <<request, rows, orphans, cached, reply, loaded>>
      /\ \A c \in Calls : cpc'[c] = IF cpc[c] = "start" THEN "start" ELSE "done"
      /\ \A d \in Deleters : dpc'[d] # "commit"
  OBVIOUS
<1>2. RowsFollowCalls'
  BY <1>1 DEF DbInv, RowsFollowCalls
<1>3. InsertExcludes' /\ DeleteExcludes'
  BY <1>1 DEF DbInv, InsertExcludes, DeleteExcludes
<1>4. PostedHasNoOrphan' /\ NoDanglingApplication'
  BY <1>1 DEF DbInv, PostedHasNoOrphan, NoDanglingApplication, Referring
<1>5. \A a \in Applicants : NoneOrOne(a)'
  BY <1>1 DEF DbInv, NoneOrOne, Of
<1>6. QED
  BY <1>2, <1>3, <1>4, <1>5 DEF DbInv

(* What leaves the database, the calls and the deletions alone.            *)
LEMMA ElsewhereStep ==
    ASSUME DbInv, UNCHANGED <<dbVars, callVars, deleteVars>>, TypeOK'
    PROVE  DbInv'
<1> USE DEF dbVars, callVars, deleteVars
<1>1. RowsFollowCalls' /\ InsertExcludes' /\ DeleteExcludes'
  BY DEF DbInv, RowsFollowCalls, InsertExcludes, DeleteExcludes, Of, Referring
<1>2. PostedHasNoOrphan' /\ NoDanglingApplication'
  BY DEF DbInv, PostedHasNoOrphan, NoDanglingApplication, Referring
<1>3. \A a \in Applicants : NoneOrOne(a)'
  BY DEF DbInv, NoneOrOne, Of
<1>4. QED
  BY <1>1, <1>2, <1>3 DEF DbInv

(* orphans stay within rows because the loaded applications do.            *)
LEMMA TypeStep == TypeOK /\ DeleteExcludes /\ [Next]_vars => TypeOK'
<1> SUFFICES ASSUME TypeOK, DeleteExcludes, [Next]_vars PROVE TypeOK'
  OBVIOUS
<1> USE DEF TypeOK, dbVars, callVars, deleteVars, wsVars, Goes, Replies, Answers
<1>1. ASSUME NEW c \in Calls, FindRequest(c) PROVE TypeOK'
  BY <1>1 DEF FindRequest
<1>2. ASSUME NEW c \in Calls, CheckDuplicate(c) PROVE TypeOK'
  BY <1>2 DEF CheckDuplicate
<1>3. ASSUME NEW c \in Calls, Insert(c) PROVE TypeOK'
  BY <1>3 DEF Insert
<1>4. ASSUME NEW c \in Calls, CommitApplication(c) PROVE TypeOK'
  <2>1. cached' \in [Applicants -> Nat]
    <3>1. applicant[c] \in Applicants /\ cached[applicant[c]] + 1 \in Nat
      BY ApplicantAssumption
    <3>2. QED
      BY <1>4, <3>1 DEF CommitApplication
  <2>2. cpc' \in [Calls -> {"start", "check", "insert", "commit", "online",
                            "publish", "refresh", "done"}]
    BY <1>4 DEF CommitApplication
  <2>3. QED
    BY <1>4, <2>1, <2>2 DEF CommitApplication
<1>5. ASSUME NEW c \in Calls, CheckOnline(c) PROVE TypeOK'
  BY <1>5 DEF CheckOnline
<1>6. ASSUME NEW c \in Calls, Publish(c) PROVE TypeOK'
  BY <1>6 DEF Publish
<1>7. ASSUME NEW c \in Calls, Refresh(c) PROVE TypeOK'
  BY <1>7 DEF Refresh
<1>8. ASSUME NEW c \in Calls, DbError(c) PROVE TypeOK'
  BY <1>8 DEF DbError
<1>9. ASSUME NEW d \in Deleters, NEW permitted \in BOOLEAN,
            FindForDelete(d, permitted)
     PROVE  TypeOK'
  BY <1>9 DEF FindForDelete
<1>10. ASSUME NEW d \in Deleters, LoadApplications(d) PROVE TypeOK'
  BY <1>10 DEF LoadApplications, Referring
<1>11. ASSUME NEW d \in Deleters, DeleteRow(d) PROVE TypeOK'
  BY <1>11 DEF DeleteRow, Referring
<1>12. ASSUME NEW d \in Deleters, CommitDelete(d) PROVE TypeOK'
  BY <1>12 DEF CommitDelete, DeleteExcludes
<1>13. ASSUME Websocket PROVE TypeOK'
  <2>1. CASE Opens \/ Subscribes \/ ClientCloses \/ GoesOffline
    <3>1. session' \in {"off", "added", "up", "closed", "leaving"} /\ online' \in BOOLEAN
      BY <2>1 DEF Opens, Subscribes, ClientCloses, GoesOffline
    <3>2. UNCHANGED <<dbVars, callVars, deleteVars, inbox, shown, missed, offline>>
      BY <2>1 DEF Opens, Subscribes, ClientCloses, GoesOffline
    <3>3. QED
      BY <3>1, <3>2
  <2>2. ASSUME NEW c \in Calls, ListenerSends(c) PROVE TypeOK'
    BY <2>2 DEF ListenerSends
  <2>3. CASE Unsubscribes
    BY <2>3 DEF Unsubscribes
  <2>4. QED
    BY <1>13, <2>1, <2>2, <2>3 DEF Websocket
<1>14. ASSUME Crash PROVE TypeOK'
  BY <1>14 DEF Crash
<1>15. ASSUME UNCHANGED vars PROVE TypeOK'
  BY <1>15 DEF vars
<1>16. QED
  BY <1>1, <1>2, <1>3, <1>4, <1>5, <1>6, <1>7, <1>8,
     <1>9, <1>10, <1>11, <1>12, <1>13, <1>14, <1>15
  DEF Next, Apply, Delete

LEMMA DbStep == DbInv /\ [Next]_vars => DbInv'
<1> SUFFICES ASSUME DbInv, [Next]_vars PROVE DbInv'
  OBVIOUS
<1>1. TypeOK'
  BY TypeStep DEF DbInv
<1>2. ASSUME NEW c \in Calls,
             \/ FindRequest(c) \/ CheckDuplicate(c) \/ CheckOnline(c)
             \/ Publish(c) \/ Refresh(c) \/ DbError(c)
      PROVE  DbInv'
  <2> USE DEF DbInv, TypeOK, RowsFollowCalls, Goes, Replies
  <2>1. CASE FindRequest(c)
    BY <1>1, <2>1, CallStep DEF FindRequest
  <2>2. CASE CheckDuplicate(c)
    BY <1>1, <2>2, CallStep DEF CheckDuplicate
  <2>3. CASE CheckOnline(c)
    BY <1>1, <2>3, CallStep DEF CheckOnline
  <2>4. CASE Publish(c)
    BY <1>1, <2>4, CallStep DEF Publish
  <2>5. CASE Refresh(c)
    BY <1>1, <2>5, CallStep DEF Refresh
  <2>6. CASE DbError(c)
    BY <1>1, <2>6, CallStep DEF DbError
  <2>7. QED
    BY <1>2, <2>1, <2>2, <2>3, <2>4, <2>5, <2>6
<1>3. ASSUME NEW c \in Calls, Insert(c) PROVE DbInv'
  BY <1>1, <1>3, InsertStep
<1>4. ASSUME NEW c \in Calls, CommitApplication(c) PROVE DbInv'
  BY <1>1, <1>4, CommitApplicationStep
<1>5. ASSUME NEW d \in Deleters, Delete(d) PROVE DbInv'
  BY <1>1, <1>5, DeleteStep, CommitDeleteStep DEF Delete
<1>6. CASE Crash
  BY <1>1, <1>6, CrashStep
<1>7. CASE Websocket \/ UNCHANGED vars
  <2>1. UNCHANGED <<dbVars, callVars, deleteVars>>
    BY <1>7 DEF Websocket, vars, Opens, Subscribes, ClientCloses, ListenerSends,
                Unsubscribes, GoesOffline
  <2>2. QED
    BY <1>1, <2>1, ElsewhereStep
<1>8. QED
  BY <1>2, <1>3, <1>4, <1>5, <1>6, <1>7 DEF Next, Apply

----------------------------------------------------------------------------
(* The replies.                                                            *)

LEMMA ReplyInit == Init => RefreshIsPublished /\ ReplyTruthful
BY DEF Init, RefreshIsPublished, ReplyTruthful

(* What is published stays so, and so does the row of a call that has its  *)
(* reply, or the lack of one.                                              *)
LEMMA Stays ==
    ASSUME DbInv, [Next]_vars
    PROVE  /\ inbox \cup shown \cup missed \subseteq inbox' \cup shown' \cup missed'
           /\ offline \subseteq offline'
           /\ rows \subseteq rows'
           /\ \A c \in Calls : reply[c] # 0 /\ c \notin rows => c \notin rows'
           /\ request = "deleted" => request' = "deleted"
           /\ Referring # {} => Referring' # {} \/ request' = "deleted"
<1> USE DEF dbVars, callVars, deleteVars, wsVars, Goes, Referring
<1>1. ASSUME NEW c \in Calls, CommitApplication(c)
      PROVE  /\ UNCHANGED <<inbox, shown, missed, offline, request, orphans>>
             /\ rows' = rows \cup {c} /\ reply[c] = 0
  BY <1>1 DEF CommitApplication, DbInv, RowsFollowCalls
<1>2. ASSUME NEW c \in Calls, Apply(c), ~CommitApplication(c)
      PROVE  /\ UNCHANGED <<rows, request, orphans>>
             /\ inbox \cup shown \cup missed \subseteq inbox' \cup shown' \cup missed'
             /\ offline \subseteq offline'
  BY <1>2 DEF Apply, FindRequest, CheckDuplicate, Insert, CheckOnline, Publish,
              Refresh, DbError
<1>3. ASSUME NEW d \in Deleters, Delete(d)
      PROVE  /\ UNCHANGED <<rows, inbox, shown, missed, offline>>
             /\ UNCHANGED <<request, orphans>> \/ request' = "deleted"
  BY <1>3 DEF Delete, FindForDelete, LoadApplications, DeleteRow, CommitDelete
<1>4. ASSUME Websocket \/ Crash \/ UNCHANGED vars
      PROVE  /\ UNCHANGED <<rows, request, orphans, offline>>
             /\ inbox \cup shown \cup missed \subseteq inbox' \cup shown' \cup missed'
  BY <1>4 DEF Websocket, Crash, vars, Opens, Subscribes, ClientCloses,
              ListenerSends, Unsubscribes, GoesOffline
<1>5. QED
  BY <1>1, <1>2, <1>3, <1>4 DEF Next

LEMMA RefreshStep ==
    DbInv /\ RefreshIsPublished /\ [Next]_vars => RefreshIsPublished'
<1> SUFFICES ASSUME DbInv, RefreshIsPublished, [Next]_vars,
                    NEW c \in Calls, cpc'[c] = "refresh"
             PROVE  c \in inbox' \cup shown' \cup missed'
  BY DEF RefreshIsPublished
<1> USE DEF callVars, DbInv, TypeOK, Goes, Replies
<1>1. CASE cpc[c] = "refresh"
  BY <1>1, Stays DEF RefreshIsPublished
<1>2. CASE cpc[c] # "refresh"
  <2>1. Publish(c)
    BY <1>2 DEF Next, Apply, Delete, Websocket, Crash, vars, FindRequest,
                CheckDuplicate, Insert, CommitApplication, CheckOnline, Publish,
                Refresh, DbError, FindForDelete, LoadApplications, DeleteRow,
                CommitDelete, Opens, Subscribes, ClientCloses, ListenerSends,
                Unsubscribes, GoesOffline
  <2>2. QED
    BY <2>1 DEF Publish
<1>3. QED
  BY <1>1, <1>2

(* What ReplyTruthful says of one call.                                    *)
CallTruthful(c) ==
    /\ reply[c] = 201 => c \in rows
    /\ reply[c] = 302 => c \notin rows /\ rows \cap Of(applicant[c]) # {}
    /\ reply[c] = 404 => c \notin rows
    /\ reply[c] = 500 /\ c \in rows => c \in offline \cup inbox \cup shown \cup missed

(* The replies of a call that takes a step.                                *)
LEMMA OwnReply ==
    ASSUME DbInv, RefreshIsPublished, NEW c \in Calls, Apply(c), reply'[c] # reply[c]
    PROVE  CallTruthful(c)'
<1> USE DEF CallTruthful, DbInv, TypeOK, RowsFollowCalls, dbVars, wsVars, Goes, Replies
<1>1. CASE FindRequest(c)
  BY <1>1 DEF FindRequest
<1>2. CASE CheckDuplicate(c)
  BY <1>2 DEF CheckDuplicate, Referring, Of
<1>3. CASE Insert(c)
  BY <1>3 DEF Insert
<1>4. CASE CommitApplication(c)
  BY <1>4 DEF CommitApplication
<1>5. CASE CheckOnline(c)
  BY <1>5 DEF CheckOnline
<1>6. CASE Publish(c)
  BY <1>6 DEF Publish
<1>7. CASE Refresh(c)
  BY <1>7 DEF Refresh
<1>8. CASE DbError(c)
  BY <1>8 DEF DbError, RefreshIsPublished
<1>9. QED
  BY <1>1, <1>2, <1>3, <1>4, <1>5, <1>6, <1>7, <1>8 DEF Apply

LEMMA ReplyStep ==
    DbInv /\ RefreshIsPublished /\ ReplyTruthful /\ [Next]_vars => ReplyTruthful'
<1> SUFFICES ASSUME DbInv, RefreshIsPublished, ReplyTruthful, [Next]_vars
             PROVE  ReplyTruthful'
  OBVIOUS
<1>1. ASSUME NEW c \in Calls PROVE CallTruthful(c)'
  <2>1. CASE reply'[c] = reply[c]
    <3>1. CallTruthful(c)
      BY DEF ReplyTruthful, CallTruthful
    <3>2. QED
      BY <2>1, <3>1, Stays DEF CallTruthful, Of
  <2>2. CASE reply'[c] # reply[c]
    <3>1. Apply(c)
      BY <2>2 DEF callVars, DbInv, TypeOK, Goes, Replies, Next, Apply, Delete,
                  Websocket, Crash, vars, FindRequest, CheckDuplicate, Insert,
                  CommitApplication, CheckOnline, Publish, Refresh, DbError,
                  FindForDelete, LoadApplications, DeleteRow, CommitDelete, Opens,
                  Subscribes, ClientCloses, ListenerSends, Unsubscribes, GoesOffline
    <3>2. QED
      BY <2>2, <3>1, OwnReply
  <2>3. QED
    BY <2>1, <2>2
<1>2. ASSUME NEW d \in Deleters, answer'[d] = 400
      PROVE  Referring' # {} \/ request' = "deleted"
  <2>1. CASE answer[d] = 400
    BY <2>1, Stays DEF ReplyTruthful
  <2>2. CASE answer[d] # 400
    <3>1. DeleteRow(d) /\ ~(Referring \subseteq loaded[d])
      BY <1>2, <2>2 DEF deleteVars, DbInv, TypeOK, Answers, Next, Apply, Delete,
                  Websocket, Crash, vars, FindRequest, CheckDuplicate, Insert,
                  CommitApplication, CheckOnline, Publish, Refresh, DbError,
                  FindForDelete, LoadApplications, DeleteRow, CommitDelete, Opens,
                  Subscribes, ClientCloses, ListenerSends, Unsubscribes, GoesOffline
    <3>2. QED
      BY <3>1 DEF DeleteRow, dbVars, Referring
  <2>3. QED
    BY <2>1, <2>2
<1>3. QED
  BY <1>1, <1>2 DEF ReplyTruthful, CallTruthful

----------------------------------------------------------------------------
(* The theorems.                                                           *)

LEMMA Invariant == Spec => []IInv
<1>1. Init => IInv
  BY DbInit, ReplyInit DEF IInv
<1>2. IInv /\ [Next]_vars => IInv'
  BY DbStep, RefreshStep, ReplyStep DEF IInv
<1>3. QED
  BY <1>1, <1>2, PTL DEF Spec

(* The rows, the controls, the statuses and the session keep their types;  *)
(* an orphan is a row that was committed (delete_roommate_request).        *)
THEOREM TypeCorrect == Spec => []TypeOK
<1>1. IInv => TypeOK
  BY DEF IInv, DbInv
<1>2. QED
  BY <1>1, Invariant, PTL

(* However many calls and deletions run at once, no application refers to  *)
(* a request that was deleted (rf_application.py, services.py).            *)
THEOREM NeverDangling == Spec => []NoDanglingApplication
<1>1. IInv => NoDanglingApplication
  BY DEF IInv, DbInv
<1>2. QED
  BY <1>1, Invariant, PTL

(* However often an applicant applies at once, one row is committed and    *)
(* the cached ids of the applicant count it once.                          *)
THEOREM OneApplication == Spec => []AppliedOnce
<1>1. ASSUME DbInv PROVE AppliedOnce
  <2> SUFFICES ASSUME NEW a \in Applicants
               PROVE  /\ Cardinality(rows \cap Of(a)) <= 1
                      /\ cached[a] = Cardinality(rows \cap Of(a))
    BY DEF AppliedOnce
  <2>1. NoneOrOne(a)
    BY <1>1 DEF DbInv
  <2>2. CASE rows \cap Of(a) = {} /\ cached[a] = 0
    BY <2>2, FS_EmptySet
  <2>3. ASSUME NEW c \in Calls, rows \cap Of(a) = {c}, cached[a] = 1
        PROVE  Cardinality(rows \cap Of(a)) = 1 /\ cached[a] = 1
    BY <2>3, FS_Singleton
  <2>4. QED
    BY <2>1, <2>2, <2>3 DEF NoneOrOne
<1>2. IInv => AppliedOnce
  BY <1>1 DEF IInv
<1>3. QED
  BY <1>2, Invariant, PTL

(* The status of a call or of a deletion tells what was committed, for any *)
(* order of the calls, errors and crashes.                                 *)
THEOREM RepliesTruthful == Spec => []ReplyTruthful
<1>1. IInv => ReplyTruthful
  BY DEF IInv
<1>2. QED
  BY <1>1, Invariant, PTL

----------------------------------------------------------------------------
(* The refinement.                                                         *)

(* A step that changes neither the request nor who refers to it.           *)
LEMMA BoardStutter ==
    ASSUME request' = request, Referring' = Referring
    PROVE  UNCHANGED <<request = "posted", [a \in Applicants |-> Referring \cap Of(a)]>>
BY DEF Of

(* The commit of an application is the atomic one of its applicant.        *)
LEMMA CommitJoins ==
    ASSUME DbInv, NEW c \in Calls, CommitApplication(c)
    PROVE  Board!Join(applicant[c])
<1> DEFINE a == applicant[c]
           entries == [b \in Applicants |-> Referring \cap Of(b)]
<1>1. a \in Applicants /\ c \in Of(a)
  BY ApplicantAssumption DEF Of
<1>2. request = "posted" /\ request' = request
  BY DEF DbInv, InsertExcludes, CommitApplication
<1>3. rows \cap Of(a) = {} /\ orphans = {} /\ orphans' = orphans /\ rows' = rows \cup {c}
  BY <1>2 DEF DbInv, InsertExcludes, PostedHasNoOrphan, CommitApplication
<1>4. Referring = rows /\ Referring' = rows \cup {c}
  BY <1>3 DEF Referring
<1>5. \A b \in Applicants : entries'[b] = IF b = a THEN {c} ELSE entries[b]
  <2> SUFFICES ASSUME NEW b \in Applicants
               PROVE  (rows \cup {c}) \cap Of(b) = IF b = a THEN {c} ELSE rows \cap Of(b)
    BY <1>4 DEF Of
  <2>1. CASE b = a
    BY <1>1, <1>3, <2>1
  <2>2. CASE b # a
    BY <1>1, <2>2 DEF Of
  <2>3. QED
    BY <2>1, <2>2
<1>6. entries' = [entries EXCEPT ![a] = {c}]
  BY <1>1, <1>5
<1>7. entries[a] = {}
  BY <1>1, <1>3, <1>4
<1>8. QED
  BY <1>1, <1>2, <1>6, <1>7 DEF Board!Join

(* The commit of a deletion withdraws the request, or finds that another   *)
(* deletion has.                                                           *)
LEMMA CommitWithdraws ==
    ASSUME DbInv, NEW d \in Deleters, CommitDelete(d)
    PROVE  \/ Board!Withdraw
           \/ request' = request /\ Referring' = Referring
<1>1. /\ Referring \subseteq loaded[d]
      /\ request' = "deleted" /\ rows' = rows /\ orphans' = orphans \cup loaded[d]
  BY DEF DbInv, DeleteExcludes, CommitDelete
<1>2. Referring' = {}
  BY <1>1 DEF Referring
<1>3. CASE request = "posted"
  BY <1>1, <1>2, <1>3 DEF Board!Withdraw, Of
<1>4. CASE request # "posted"
  BY <1>1, <1>2, <1>4 DEF DbInv, TypeOK, NoDanglingApplication
<1>5. QED
  BY <1>3, <1>4

LEMMA BoardStep ==
    ASSUME DbInv, [Next]_vars
    PROVE  [Board!BoardNext]_Board!boardVars
<1>1. ASSUME NEW c \in Calls, CommitApplication(c) PROVE Board!BoardNext
  BY <1>1, CommitJoins, ApplicantAssumption DEF Board!BoardNext
<1>2. ASSUME NEW d \in Deleters, CommitDelete(d)
      PROVE  [Board!BoardNext]_Board!boardVars
  BY <1>2, CommitWithdraws, BoardStutter DEF Board!BoardNext, Board!boardVars
<1>3. ASSUME UNCHANGED <<request, rows, orphans>>
      PROVE  UNCHANGED Board!boardVars
  BY <1>3, BoardStutter DEF Board!boardVars, Referring
<1>4. ASSUME NEW c \in Calls, Apply(c), ~CommitApplication(c)
      PROVE  UNCHANGED <<request, rows, orphans>>
  BY <1>4 DEF Apply, FindRequest, CheckDuplicate, Insert, CheckOnline, Publish,
              Refresh, DbError, dbVars
<1>5. ASSUME NEW d \in Deleters, Delete(d), ~CommitDelete(d)
      PROVE  UNCHANGED <<request, rows, orphans>>
  BY <1>5 DEF Delete, FindForDelete, LoadApplications, DeleteRow, dbVars
<1>6. ASSUME Websocket \/ Crash PROVE UNCHANGED <<request, rows, orphans>>
  BY <1>6 DEF Websocket, Opens, Subscribes, ClientCloses, ListenerSends,
              Unsubscribes, GoesOffline, Crash, dbVars
<1>7. CASE UNCHANGED vars
  BY <1>3, <1>7 DEF vars, dbVars
<1>8. QED
  BY <1>1, <1>2, <1>3, <1>4, <1>5, <1>6, <1>7 DEF Next

(* For any applicants, calls, deletions, errors and crashes, what becomes  *)
(* of one roommate request and of its applications (rf_application.py,     *)
(* services.py) is what becomes of a board with atomic operations.         *)
THEOREM ImplementsBoard == Spec => BoardImplemented
<1>1. Init => Board!BoardInit
  BY DEF Init, Board!BoardInit, Referring, Of
<1>2. IInv /\ [Next]_vars => [Board!BoardNext]_Board!boardVars
  BY BoardStep DEF IInv
<1>3. QED
  BY <1>1, <1>2, Invariant, PTL DEF Spec, BoardImplemented, Board!BoardSpec

============================================================================
