--------------------------- MODULE Services_proofs ---------------------------
(***************************************************************************)
(* Proofs about the smaller services, each for any calls, clients and data *)
(* of its module.  They share no variable, and no proof of one uses        *)
(* anything of another.                                                    *)
(***************************************************************************)
EXTENDS Sessions, Startup, Resolution, Stream, Cart, Relations, Ratings, FiniteSetTheorems, TLAPS

----------------------------------------------------------------------------
(***************************************************************************)
(* The refresh sessions, for any number of sessions and eras.              *)
(***************************************************************************)

(* The invariant.                                                          *)

(* A refresh has found its session, and its new token is of an era that    *)
(* has begun.                                                              *)
RefreshInv ==
    \A c \in SessionCalls :
        /\ spc[c] \in {"renew", "burn"} => sid[c] \in opened
        /\ stok[c] <= era

(* A call has sessions to update from its load on, and not before.         *)
LoadInv ==
    \A c \in SessionCalls :
        spc[c] \notin {"update", "log", "end"} => sload[c] = {}

RevokeInv == SessionTypeOK /\ RefreshInv /\ LoadInv /\ RevocationHolds

(* The ids of the sessions are consecutive: the next one is new.           *)
OpenedInv == \E n \in Nat : opened = 1..n

(* A token is handed out for a session that is there, in an era that has   *)
(* begun.  A refresh that runs alone is about to hand out the latest.      *)
GrantInv ==
    /\ \A g \in granted : g[1] \in opened /\ g[2] <= era
    /\ \A c, d \in SessionCalls :
          c # d /\ spc[c] = "renew" /\ spc[d] = "renew" /\ sid[c] = sid[d] => sid[c] \in raced
    /\ \A c \in SessionCalls, g \in granted :
          spc[c] = "renew" /\ sid[c] \notin raced /\ g[1] = sid[c] => g[2] <= stok[c]

SessionInv == RevokeInv /\ OpenedInv /\ GrantInv /\ LatestGrantServes

----------------------------------------------------------------------------
(* Types, and what a revocation was answered for.                          *)

LEMMA RevokeInit == SessionInit => RevokeInv
BY SessionsAssumption
   DEF SessionInit, RevokeInv, SessionTypeOK, RefreshInv, LoadInv, RevocationHolds,
       RefreshSessions, ActivityLogs, Eras, Inside, Requested, NoCookie, SessionIds

(* The types hold after a step of a call.                                  *)
LEMMA TypeStep ==
    ASSUME SessionTypeOK, RefreshInv, NEW c \in SessionCalls, SessionStep(c)
    PROVE  SessionTypeOK'
<1> USE SessionsAssumption
    DEF SessionTypeOK, RefreshSessions, ActivityLogs, tableVars, Inside, Requested, NoCookie,
        SessionGoes, SessionReplies, RequestReplies, Updates, SessionStep, Authenticate, Issue,
        RefreshLoads, Renews, Burns, Decode, Reads, LogoutLoads, RevokeLoads, RevokeAllLoads,
        Revokes, DeletesAccount, SessionDbError, Logs
<1>1. spc' \in [SessionCalls -> Inside \cup {"new", "done", "log", "end"}]
  OBVIOUS
<1>2. scode' \in [SessionCalls -> {0, 200, 204, 401, 404, 500}]
  OBVIOUS
<1>3. (member \in BOOLEAN)'
  OBVIOUS
<1>4. ActivityLogs'
  OBVIOUS
<1>5. era' \in Eras
  OBVIOUS
<1>6. sid' \in [SessionCalls -> SessionIds \cup {NoCookie}]
  OBVIOUS
<1>7. stok' \in [SessionCalls -> Eras]
  OBVIOUS
<1>8. sload' \in [SessionCalls -> SUBSET SessionIds]
  OBVIOUS
<1>9. opened' \subseteq SessionIds /\ lapsed' = lapsed
  OBVIOUS
<1>10. revoked' \subseteq SessionIds
  <2>1. spc[c] = "burn" => sid[c] \in SessionIds
    BY DEF RefreshInv
  <2>2. \/ revoked' \in {revoked, revoked \cup sload[c]}
        \/ spc[c] = "burn" /\ revoked' = revoked \cup {sid[c]}
    OBVIOUS
  <2>3. QED
    BY <2>1, <2>2
<1>11. (accessHash \in [SessionIds -> Eras] /\ tokenHash \in [SessionIds -> Eras])'
  OBVIOUS
<1>12. (granted \subseteq SessionIds \X Eras)'
  <2>1. spc[c] = "renew" => sid[c] \in SessionIds
    BY DEF RefreshInv
  <2>2. \/ granted' = granted
        \/ \E s \in SessionIds : granted' = granted \cup {<<s, stok[c]>>}
    BY <2>1
  <2>3. QED
    BY <2>2
<1>13. raced' \subseteq SessionIds
  OBVIOUS
<1>14. QED
  BY <1>1, <1>2, <1>3, <1>4, <1>5, <1>6, <1>7, <1>8, <1>9, <1>10, <1>11, <1>12, <1>13

LEMMA RevokeStep ==
    ASSUME RevokeInv, NEW c \in SessionCalls, SessionStep(c)
    PROVE  RevokeInv'
<1> USE SessionsAssumption DEF RevokeInv
<1>1. SessionTypeOK'
  BY TypeStep
<1> USE DEF SessionTypeOK, RefreshSessions, tableVars, Inside, Requested, NoCookie,
        SessionGoes, SessionReplies, RequestReplies, Updates, SessionStep, Authenticate, Issue,
        RefreshLoads, Renews, Burns, Decode, Reads, LogoutLoads, RevokeLoads, RevokeAllLoads,
        Revokes, DeletesAccount, SessionDbError, Logs
<1>2. \A d \in SessionCalls \ {c} :
          /\ spc'[d] = spc[d] /\ sid'[d] = sid[d] /\ stok'[d] = stok[d]
          /\ sload'[d] = sload[d] /\ scode'[d] = scode[d]
  OBVIOUS
<1>3. opened \subseteq opened' /\ revoked \subseteq revoked' /\ era' = era
  OBVIOUS
<1>4. RefreshInv'
  <2>1. spc'[c] \in {"renew", "burn"} => sid'[c] \in opened'
    OBVIOUS
  <2>2. stok'[c] \in {stok[c], era}
    OBVIOUS
  <2>3. QED
    BY <1>2, <1>3, <2>1, <2>2 DEF RefreshInv, Eras
<1>5. LoadInv'
  <2>1. spc'[c] \notin {"update", "log", "end"} => sload'[c] = {}
    BY DEF LoadInv
  <2>2. QED
    BY <1>2, <2>1 DEF LoadInv
<1>6. RevocationHolds'
  <2>1. spc'[c] \in {"log", "end"} /\ scode'[c] = 200 => sload'[c] \subseteq revoked'
    BY DEF LoadInv, RevocationHolds
  <2>2. QED
    BY <1>2, <1>3, <2>1 DEF RevocationHolds
<1>7. QED
  BY <1>1, <1>4, <1>5, <1>6

LEMMA RevokeNext == RevokeInv /\ [SessionNext]_sessionVars => RevokeInv'
<1> SUFFICES ASSUME RevokeInv, [SessionNext]_sessionVars
             PROVE  RevokeInv'
  OBVIOUS
<1> USE SessionsAssumption DEF RevokeInv, SessionTypeOK, RefreshSessions, ActivityLogs, tableVars,
        RefreshInv, LoadInv, RevocationHolds
<1>1. CASE \E c \in SessionCalls : SessionStep(c)
  BY <1>1, RevokeStep
<1>2. CASE \E s \in SessionIds : Lapses(s)
  BY <1>2 DEF Lapses
<1>3. CASE NextEra
  BY <1>3 DEF NextEra, Eras
<1>4. CASE UNCHANGED sessionVars
  BY <1>4 DEF sessionVars
<1>5. QED
  BY <1>1, <1>2, <1>3, <1>4 DEF SessionNext

(* Every value that the calls and the tables take is one the models of the *)
(* database allow.                                                         *)
THEOREM SessionTypeCorrect == SessionSpec => []SessionTypeOK
<1>1. RevokeInv => SessionTypeOK
  BY DEF RevokeInv
<1>2. QED
  BY RevokeInit, RevokeNext, <1>1, PTL DEF SessionSpec

(* What a logout or a revocation was answered for stays revoked, whatever  *)
(* stale refreshes of the same sessions are written after it.              *)
THEOREM RevokedForGood == SessionSpec => []RevocationHolds
<1>1. RevokeInv => RevocationHolds
  BY DEF RevokeInv
<1>2. QED
  BY RevokeInit, RevokeNext, <1>1, PTL DEF SessionSpec

----------------------------------------------------------------------------
(* The token that was handed out last.                                     *)

LEMMA SessionInvInit == SessionInit => SessionInv
<1> SUFFICES ASSUME SessionInit
             PROVE  SessionInv
  OBVIOUS
<1>1. OpenedInv
  <2>1. 0 \in Nat /\ opened = 1..0
    BY DEF SessionInit
  <2>2. QED
    BY <2>1 DEF OpenedInv
<1>2. GrantInv /\ LatestGrantServes
  BY DEF SessionInit, GrantInv, LatestGrantServes
<1>3. QED
  BY RevokeInit, <1>1, <1>2 DEF SessionInv

(* A new session has the number after the last.                            *)
LEMMA IssuedId ==
    ASSUME NEW n \in Nat, opened = 1..n
    PROVE  Cardinality(opened) = n
BY FS_Interval

(* What the steps that touch none of it leave alone.                       *)
LEMMA GrantFrame ==
    ASSUME SessionInv, RevokeInv',
           opened' = opened, granted' = granted, accessHash' = accessHash,
           era' = era \/ (era' = era + 1), raced \subseteq raced',
           \A c \in SessionCalls :
              spc'[c] = "renew" => spc[c] = "renew" /\ sid'[c] = sid[c] /\ stok'[c] = stok[c]
    PROVE  SessionInv'
<1> USE DEF SessionInv, RevokeInv, SessionTypeOK, RefreshSessions
<1>1. OpenedInv'
  BY DEF OpenedInv
<1>2. (\A g \in granted : g[1] \in opened /\ g[2] <= era)'
  BY DEF GrantInv, Eras
<1>3. GrantInv'
  BY <1>2 DEF GrantInv
<1>4. LatestGrantServes'
  BY DEF LatestGrantServes
<1>5. QED
  BY <1>1, <1>3, <1>4

LEMMA IssueStep ==
    ASSUME SessionInv, RevokeInv', NEW c \in SessionCalls, Issue(c)
    PROVE  SessionInv'
<1> DEFINE s == Cardinality(opened) + 1
<1> USE DEF SessionInv, RevokeInv, SessionTypeOK, RefreshSessions
<1>1. CASE ~member
  <2>1. \A d \in SessionCalls : spc'[d] = "renew" => spc[d] = "renew"
    BY <1>1 DEF Issue, SessionReplies
  <2>2. QED
    BY <1>1, <2>1, GrantFrame DEF Issue, SessionReplies
<1>2. CASE member
  <2>1. PICK n \in Nat : opened = 1..n
    BY DEF OpenedInv
  <2>2. s = n + 1
    BY <2>1, IssuedId
  <2>3. s \notin opened /\ s \in SessionIds
    BY <2>1, <2>2 DEF Issue
  <2>4. /\ opened' = opened \cup {s} /\ granted' = granted \cup {<<s, stok[c]>>}
        /\ accessHash' = [accessHash EXCEPT ![s] = stok[c]]
        /\ UNCHANGED <<era, sid, stok, raced>>
        /\ \A d \in SessionCalls : spc'[d] = "renew" => spc[d] = "renew"
    BY <1>2 DEF Issue, SessionReplies
  <2> HIDE DEF s
  <2>5. OpenedInv'
    <3>1. opened' = 1..(n + 1) /\ n + 1 \in Nat
      BY <2>1, <2>2, <2>4
    <3>2. QED
      BY <3>1 DEF OpenedInv
  <2>6. \A g \in granted : g[1] # s
    BY <2>3 DEF GrantInv
  <2>7. GrantInv'
    <3>1. (\A g \in granted : g[1] \in opened /\ g[2] <= era)'
      BY <2>4 DEF GrantInv, RefreshInv
    <3>2. \A d \in SessionCalls : spc[d] = "renew" => sid[d] # s
      BY <2>3 DEF RefreshInv
    <3>3. QED
      BY <2>4, <3>1, <3>2 DEF GrantInv
  <2>8. LatestGrantServes'
    <3>1. stok[c] \in Nat
      BY DEF Eras
    <3>2. ASSUME NEW t \in opened', t # s
          PROVE  /\ <<t, accessHash'[t]>> \in granted'
                 /\ t \notin raced' => \A g \in granted' : g[1] = t => g[2] <= accessHash'[t]
      BY <2>4, <3>2 DEF LatestGrantServes
    <3>3. /\ <<s, accessHash'[s]>> \in granted'
          /\ \A g \in granted' : g[1] = s => g[2] <= accessHash'[s]
      BY <2>3, <2>4, <2>6, <3>1
    <3>4. QED
      BY <3>2, <3>3 DEF LatestGrantServes
  <2>9. QED
    BY <2>5, <2>7, <2>8
<1>3. QED
  BY <1>1, <1>2

LEMMA RefreshStep ==
    ASSUME SessionInv, RevokeInv', NEW c \in SessionCalls,
           NEW s \in SessionIds, NEW t \in Eras, RefreshLoads(c, s, t)
    PROVE  SessionInv'
<1> USE DEF SessionInv, RevokeInv, SessionTypeOK, RefreshSessions
<1>1. /\ UNCHANGED <<opened, granted, accessHash, era>>
      /\ raced' = IF Renewing(s) # {} THEN raced \cup {s} ELSE raced
      /\ sid' = [sid EXCEPT ![c] = s] /\ stok' = [stok EXCEPT ![c] = era]
      /\ \A d \in SessionCalls \ {c} : spc'[d] = spc[d]
      /\ spc[c] = "new"
  BY DEF RefreshLoads, tableVars, SessionGoes, SessionReplies
<1>2. OpenedInv' /\ LatestGrantServes'
  BY <1>1 DEF OpenedInv, LatestGrantServes
<1>3. (\A g \in granted : g[1] \in opened /\ g[2] <= era)'
  BY <1>1 DEF GrantInv
<1>4. ASSUME NEW d \in SessionCalls, d # c, spc'[d] = "renew", sid'[d] = s
      PROVE  s \in raced'
  BY <1>1, <1>4 DEF Renewing
<1>5. (\A d, e \in SessionCalls :
          d # e /\ spc[d] = "renew" /\ spc[e] = "renew" /\ sid[d] = sid[e] => sid[d] \in raced)'
  BY <1>1, <1>4 DEF GrantInv
<1>6. (\A d \in SessionCalls, g \in granted :
          spc[d] = "renew" /\ sid[d] \notin raced /\ g[1] = sid[d] => g[2] <= stok[d])'
  BY <1>1 DEF GrantInv
<1>7. QED
  BY <1>2, <1>3, <1>5, <1>6 DEF GrantInv

LEMMA RenewStep ==
    ASSUME SessionInv, RevokeInv', NEW c \in SessionCalls, Renews(c)
    PROVE  SessionInv'
<1> USE DEF SessionInv, RevokeInv, SessionTypeOK, RefreshSessions
<1>1. CASE ~member
  <2>1. \A d \in SessionCalls : spc'[d] = "renew" => spc[d] = "renew"
    BY <1>1 DEF Renews, SessionReplies
  <2>2. QED
    BY <1>1, <2>1, GrantFrame DEF Renews, SessionReplies
<1>2. CASE member
  <2> DEFINE s == sid[c]
  <2>1. /\ granted' = granted \cup {<<s, stok[c]>>}
        /\ accessHash' = [accessHash EXCEPT ![s] = stok[c]]
        /\ UNCHANGED <<opened, era, sid, stok, raced>>
        /\ \A d \in SessionCalls : spc'[d] = "renew" => spc[d] = "renew" /\ d # c
        /\ spc[c] = "renew"
    BY <1>2 DEF Renews, SessionReplies
  <2>2. s \in opened /\ s \in SessionIds /\ stok[c] \in Nat /\ stok[c] <= era
    BY <2>1 DEF RefreshInv, Eras
  <2>3. OpenedInv'
    BY <2>1 DEF OpenedInv
  <2>4. (\A g \in granted : g[1] \in opened /\ g[2] <= era)'
    BY <2>1, <2>2 DEF GrantInv
  <2>5. \A d \in SessionCalls : spc'[d] = "renew" /\ sid[d] = s => s \in raced
    BY <2>1 DEF GrantInv
  <2>6. GrantInv'
    BY <2>1, <2>4, <2>5 DEF GrantInv
  <2>7. LatestGrantServes'
    <3>1. ASSUME NEW t \in opened', t # s
          PROVE  /\ <<t, accessHash'[t]>> \in granted'
                 /\ t \notin raced' => \A g \in granted' : g[1] = t => g[2] <= accessHash'[t]
      BY <2>1, <3>1 DEF LatestGrantServes
    <3>2. <<s, accessHash'[s]>> \in granted' /\ accessHash'[s] = stok[c]
      BY <2>1, <2>2
    <3>3. s \notin raced => \A g \in granted' : g[1] = s => g[2] <= stok[c]
      BY <2>1, <2>2 DEF GrantInv
    <3>4. QED
      BY <2>1, <3>1, <3>2, <3>3 DEF LatestGrantServes
  <2>8. QED
    BY <2>3, <2>6, <2>7
<1>3. QED
  BY <1>1, <1>2

LEMMA SessionInvNext == SessionInv /\ [SessionNext]_sessionVars => SessionInv'
<1> SUFFICES ASSUME SessionInv, [SessionNext]_sessionVars
             PROVE  SessionInv'
  OBVIOUS
<1>1. RevokeInv'
  BY RevokeNext DEF SessionInv
<1> USE DEF tableVars, SessionGoes, SessionReplies, RequestReplies
<1>2. ASSUME NEW c \in SessionCalls, SessionStep(c)
      PROVE  SessionInv'
  <2>1. CASE Issue(c)
    BY <1>1, <2>1, IssueStep
  <2>2. CASE \E s \in SessionIds, t \in Eras : RefreshLoads(c, s, t)
    BY <1>1, <2>2, RefreshStep
  <2>3. CASE Renews(c)
    BY <1>1, <2>3, RenewStep
  <2>4. CASE ~Issue(c) /\ ~(\E s \in SessionIds, t \in Eras : RefreshLoads(c, s, t)) /\ ~Renews(c)
    <3> USE <1>2, <2>4 DEF SessionStep, Authenticate, Burns, Decode, Reads, LogoutLoads, Updates,
            RevokeLoads, RevokeAllLoads, Revokes, DeletesAccount, SessionDbError, Logs
    <3>1. /\ opened' = opened /\ granted' = granted /\ accessHash' = accessHash
          /\ era' = era /\ raced' = raced
      OBVIOUS
    <3>2. \A d \in SessionCalls : spc'[d] = "renew" =>
              spc[d] = "renew" /\ sid'[d] = sid[d] /\ stok'[d] = stok[d]
      BY DEF SessionInv, RevokeInv, SessionTypeOK, Requested, NoCookie
    <3>3. QED
      BY <1>1, <3>1, <3>2, GrantFrame
  <2>5. QED
    BY <2>1, <2>2, <2>3, <2>4
<1>3. CASE \E s \in SessionIds : Lapses(s)
  BY <1>1, <1>3, GrantFrame DEF Lapses
<1>4. CASE NextEra
  BY <1>1, <1>4, GrantFrame DEF NextEra
<1>5. CASE UNCHANGED sessionVars
  BY <1>1, <1>5, GrantFrame DEF sessionVars
<1>6. QED
  BY <1>2, <1>3, <1>4, <1>5 DEF SessionNext

(* The hash of a session is that of an access token somebody was given,    *)
(* and of the latest, unless two refreshes of the session ran at once.     *)
THEOREM LatestTokenServes == SessionSpec => []LatestGrantServes
<1>1. SessionInv => LatestGrantServes
  BY DEF SessionInv
<1>2. QED
  BY SessionInvInit, SessionInvNext, <1>1, PTL DEF SessionSpec

----------------------------------------------------------------------------
(***************************************************************************)
(* The start of the servers, for any servers and addresses.                *)
(***************************************************************************)

(* An administrator has the address of some server, and shares it with     *)
(* nobody; addresses that the servers agree on leave room for one.         *)
AdminInv ==
    /\ \A w \in Rows : \E v \in Servers : admin[w] = emailOf[v]
    /\ \A w \in Rows : admin[w] \notin usersOf
    /\ \A v, w \in Rows : admin[v] = admin[w] => v = w
StartupInv == StartupTypeOK /\ AdminInv

LEMMA StartupInvInit == StartupInit => StartupInv
<1> SUFFICES ASSUME StartupInit
             PROVE  StartupInv
  OBVIOUS
<1>1. Rows = {}
  BY DEF StartupInit, Rows
<1>2. admin \in [Rows -> Emails]
  BY <1>1 DEF StartupInit, Rows
<1>3. StartupTypeOK
  <2>1. leftover \in BOOLEAN /\ indicator \in BOOLEAN
    BY DEF StartupInit
  <2>2. boots \in 0..MaxBoots
    BY StartupAssumption DEF StartupInit
  <2>3. /\ bpc \in [Servers -> {"down", "admin", "flush", "commit", "update", "singleton",
                                "create", "clear", "flag", "listen", "up"}]
        /\ action \in [Servers -> Singletons] /\ singleton \in Singletons
        /\ row \in [Servers -> Servers]
    BY DEF StartupInit, Singletons
  <2>4. QED
    BY <1>1, <1>2, <2>1, <2>2, <2>3 DEF StartupInit, StartupTypeOK
<1>4. QED
  BY <1>1, <1>3 DEF StartupInv, AdminInv

(* The table after an insertion or an update with an address that is free, *)
(* or is the row's own.                                                    *)
LEMMA AddressTaken ==
    ASSUME StartupInv, NEW v \in Servers, NEW e \in Servers,
           (v \in Rows /\ admin[v] = emailOf[e]) \/ Free(emailOf[e]),
           admin' = With(v, emailOf[e]), usersOf' = usersOf, emailOf' = emailOf
    PROVE  AdminInv' /\ (Rows \subseteq Servers /\ admin \in [Rows -> Emails])'
<1> USE DEF StartupInv, StartupTypeOK
<1>1. Rows' = Rows \cup {v}
  BY DEF With, Rows
<1>2. \A w \in Rows' : admin'[w] = IF w = v THEN emailOf[e] ELSE admin[w]
  BY <1>1 DEF With
<1>3. (Rows \subseteq Servers /\ admin \in [Rows -> Emails])'
  <2>1. admin' = [w \in Rows' |-> IF w = v THEN emailOf[e] ELSE admin[w]]
    BY <1>1 DEF With
  <2>2. QED
    BY <1>1, <2>1
<1>4. emailOf[e] \notin usersOf /\ \A w \in Rows \ {v} : admin[w] # emailOf[e]
  BY DEF AdminInv, Free
<1>5. AdminInv'
  BY <1>1, <1>2, <1>4 DEF AdminInv
<1>6. QED
  BY <1>3, <1>5

LEMMA StartupInvNext == StartupInv /\ [StartupNext]_startupVars => StartupInv'
<1> SUFFICES ASSUME StartupInv, [StartupNext]_startupVars
             PROVE  StartupInv'
  OBVIOUS
<1> USE StartupAssumption DEF StartupInv, noStart, BootGoes, BootFails
<1>1. ASSUME admin' = admin, usersOf' = usersOf, emailOf' = emailOf
      PROVE  AdminInv'
  BY <1>1 DEF AdminInv, Rows
<1>2. ASSUME NEW v \in Servers, Boot(v)
      PROVE  StartupInv'
  BY <1>1, <1>2 DEF Boot, StartupTypeOK, Rows
<1>3. ASSUME NEW v \in Servers, LooksForAdmin(v)
      PROVE  StartupInv'
  <2>1. row' = row \/ \E w \in Rows : row' = [row EXCEPT ![v] = w]
    BY <1>3 DEF LooksForAdmin
  <2>2. (row \in [Servers -> Servers])'
    BY <2>1 DEF StartupTypeOK
  <2>3. QED
    BY <1>1, <1>3, <2>2 DEF LooksForAdmin, StartupTypeOK, Rows
<1>4. ASSUME NEW v \in Servers, FlushesAdmin(v)
      PROVE  StartupInv'
  BY <1>1, <1>4 DEF FlushesAdmin, StartupTypeOK, Rows
<1>5. ASSUME NEW v \in Servers, CommitsAdmin(v)
      PROVE  StartupInv'
  <2>1. CASE Free(emailOf[v])
    <3>1. AdminInv' /\ (Rows \subseteq Servers /\ admin \in [Rows -> Emails])'
      BY <1>5, <2>1, AddressTaken DEF CommitsAdmin
    <3>2. QED
      BY <1>5, <2>1, <3>1 DEF CommitsAdmin, StartupTypeOK
  <2>2. CASE ~Free(emailOf[v])
    BY <1>1, <1>5, <2>2 DEF CommitsAdmin, StartupTypeOK, Rows
  <2>3. QED
    BY <2>1, <2>2
<1>6. ASSUME NEW v \in Servers, UpdatesAdmin(v)
      PROVE  StartupInv'
  <2> DEFINE ok == row[v] \in Rows /\ (admin[row[v]] = emailOf[v] \/ Free(emailOf[v]))
  <2>1. CASE ok
    <3>1. row[v] \in Servers
      BY DEF StartupTypeOK
    <3>2. AdminInv' /\ (Rows \subseteq Servers /\ admin \in [Rows -> Emails])'
      BY <1>6, <2>1, <3>1, AddressTaken DEF UpdatesAdmin
    <3>3. QED
      BY <1>6, <2>1, <3>2 DEF UpdatesAdmin, StartupTypeOK
  <2>2. CASE ~ok
    BY <1>1, <1>6, <2>2 DEF UpdatesAdmin, StartupTypeOK, Rows
  <2>3. QED
    BY <2>1, <2>2
<1>7. ASSUME NEW v \in Servers, ReadsSingleton(v)
      PROVE  StartupInv'
  BY <1>1, <1>7 DEF ReadsSingleton, StartupTypeOK, Rows
<1>8. ASSUME NEW v \in Servers, CreatesSingleton(v)
      PROVE  StartupInv'
  BY <1>1, <1>8 DEF CreatesSingleton, StartupTypeOK, Rows, Singletons
<1>9. ASSUME NEW v \in Servers, ClearsCache(v) \/ FlagsCleared(v)
      PROVE  StartupInv'
  BY <1>1, <1>9 DEF ClearsCache, FlagsCleared, StartupTypeOK, Rows, Singletons
<1>10. ASSUME NEW v \in Servers, StartsListener(v) \/ ListenerLoops(v)
       PROVE  StartupInv'
  BY <1>1, <1>10 DEF StartsListener, ListenerLoops, StartupTypeOK, Rows
<1>11. ASSUME NEW v \in Servers, Stops(v) \/ Crashes(v)
       PROVE  StartupInv'
  BY <1>1, <1>11 DEF Stops, Crashes, StartupTypeOK, Rows
<1>12. CASE KeyExpires
  BY <1>1, <1>12 DEF KeyExpires, StartupTypeOK, Rows
<1>13. CASE UNCHANGED startupVars
  BY <1>1, <1>13 DEF startupVars, StartupTypeOK, Rows
<1>14. QED
  BY <1>2, <1>3, <1>4, <1>5, <1>6, <1>7, <1>8, <1>9, <1>10, <1>11, <1>12, <1>13
     DEF StartupNext

LEMMA AdminInvIsOneAdmin == StartupInv => OneAdmin
<1> SUFFICES ASSUME StartupInv
             PROVE  OneAdmin
  OBVIOUS
<1>1. ASSUME \A v, w \in Servers : emailOf[v] = emailOf[w]
      PROVE  Cardinality(Rows) <= 1
  <2>1. \A v, w \in Rows : v = w
    BY <1>1 DEF StartupInv, AdminInv
  <2>2. CASE Rows = {}
    BY <2>2, FS_EmptySet
  <2>3. CASE Rows # {}
    <3>1. PICK w \in Rows : TRUE
      BY <2>3
    <3>2. Rows = {w}
      BY <2>1, <3>1
    <3>3. QED
      BY <3>2, FS_Singleton
  <2>4. QED
    BY <2>2, <2>3
<1>2. QED
  BY <1>1 DEF OneAdmin, StartupInv, AdminInv

(* A server's control, the row it has loaded and the tables have the       *)
(* values they are declared with.                                          *)
THEOREM StartupTypeCorrect == StartupSpec => []StartupTypeOK
<1>1. StartupInv => StartupTypeOK
  BY DEF StartupInv
<1>2. QED
  BY StartupInvInit, StartupInvNext, <1>1, PTL DEF StartupSpec

(* Servers that agree on the address of the administrator make one, in     *)
(* whatever order they start, stop and crash; its address is nobody        *)
(* else's.                                                                 *)
THEOREM OneAdminAlways == StartupSpec => []OneAdmin
BY StartupInvInit, StartupInvNext, AdminInvIsOneAdmin, PTL DEF StartupSpec

----------------------------------------------------------------------------
(***************************************************************************)
(* The resolution of requests, for any users, requests and properties.     *)
(***************************************************************************)

(* The calls that were answered.                                           *)
Answered == {c \in ResolveCalls : resPc[c] = "200"}

(* What a call has found out before it links.                              *)
Learned(c) ==
    /\ chosen[c] \in 1..last
    /\ already[c] => Link(c) \in joins \cup gone
    /\ ask[c].data \/ owner[chosen[c]] # ask[c].who

(* An id is never given twice: what is known of a property stays true.     *)
LinkInv ==
    /\ built \subseteq 1..last
    /\ \A j \in joins : j[2] <= last
    /\ \A c \in ResolveCalls :
          /\ resPc[c] = "create" => ask[c].data
          /\ resPc[c] = "link" => Learned(c)
    /\ \A c \in Answered :
          /\ Link(c) \in joins \cup gone
          /\ chosen[c] \in 1..last
    /\ \A j \in joins : \E c \in Answered :
          Link(c) = j /\ (ask[c].data \/ owner[j[2]] # ask[c].who)
ResolutionInv == ResolutionTypeOK /\ LinkInv

LEMMA ResolutionInvInit == ResolutionInit => ResolutionInv
BY ResolutionAssumption
   DEF ResolutionInit, ResolutionInv, ResolutionTypeOK, LinkInv, Answered, Builds, None, Joins

LEMMA ResolutionTypeNext ==
    ASSUME ResolutionInv, [ResolutionNext]_resolutionVars
    PROVE  ResolutionTypeOK'
<1> USE ResolutionAssumption DEF ResolutionInv, ResolutionTypeOK, ResolveGoes, Joins, Builds, None
<1>1. ASSUME NEW c \in ResolveCalls, ResolveLoads(c)
      PROVE  ResolutionTypeOK'
  <2>1. ask[c].id \in Builds \cup {None}
    BY DEF Asks
  <2> DEFINE linked == <<ask[c].wish, ask[c].id>> \in joins
  <2>2. already' = already \/ already' = [already EXCEPT ![c] = linked]
    BY <1>1 DEF ResolveLoads
  <2>3. linked \in BOOLEAN
    OBVIOUS
  <2> HIDE DEF linked
  <2>4. (already \in [ResolveCalls -> BOOLEAN])'
    BY <2>2, <2>3
  <2>5. /\ (chosen \in [ResolveCalls -> Builds \cup {None}])'
        /\ (resPc \in [ResolveCalls -> {"new", "create", "link", "200", "500"}])'
        /\ UNCHANGED <<open, built, last, owner, joins, gone, ask>>
    BY <1>1, <2>1 DEF ResolveLoads
  <2>6. QED
    BY <2>4, <2>5
<1>2. ASSUME NEW c \in ResolveCalls, ResolveCreates(c)
      PROVE  ResolutionTypeOK'
  <2>1. ask[c].who \in Resolvers
    BY DEF Asks
  <2>2. QED
    BY <1>2, <2>1 DEF ResolveCreates
<1>3. ASSUME NEW c \in ResolveCalls, ResolveLinks(c)
      PROVE  ResolutionTypeOK'
  <2>1. ask[c].wish \in Wishes
    BY DEF Asks
  <2>2. Link(c) \notin joins => Link(c) \in Joins \/ already[c]
    BY <1>3, <2>1 DEF ResolveLinks, Link
  <2>3. QED
    BY <1>3, <2>1, <2>2 DEF ResolveLinks, Link
<1>4. ASSUME NEW c \in ResolveCalls, ResolveFails(c)
      PROVE  ResolutionTypeOK'
  BY <1>4 DEF ResolveFails
<1>5. ASSUME NEW q \in Wishes, WishGoes(q)
      PROVE  ResolutionTypeOK'
  BY <1>5 DEF WishGoes
<1>6. ASSUME NEW p \in Builds, BuildGoes(p)
      PROVE  ResolutionTypeOK'
  BY <1>6 DEF BuildGoes
<1>7. CASE PropertyCreated
  BY <1>7 DEF PropertyCreated
<1>8. CASE UNCHANGED resolutionVars
  BY <1>8 DEF resolutionVars
<1>9. QED
  BY <1>1, <1>2, <1>3, <1>4, <1>5, <1>6, <1>7, <1>8 DEF ResolutionNext

(* A call whose control, choice and question are as before, and a link     *)
(* that is there or was deleted since, is known as before.                 *)
LEMMA KnownStays ==
    ASSUME ResolutionInv, NEW c \in ResolveCalls,
           last' \in {last, last + 1}, \A p \in 1..last : owner'[p] = owner[p],
           joins \cup gone \subseteq joins' \cup gone', ask' = ask,
           chosen'[c] = chosen[c], already'[c] = already[c]
    PROVE  /\ Learned(c) => Learned(c)'
           /\ Link(c)' = Link(c)
BY DEF ResolutionInv, ResolutionTypeOK, Learned, Link

LEMMA LinkInvNext ==
    ASSUME ResolutionInv, [ResolutionNext]_resolutionVars
    PROVE  LinkInv'
<1> USE ResolutionAssumption DEF ResolutionInv, ResolutionTypeOK, ResolveGoes
<1>1. ASSUME NEW c \in ResolveCalls, ResolveLoads(c)
      PROVE  LinkInv'
  <2>1. UNCHANGED <<open, built, last, owner, joins, gone, ask>>
    BY <1>1 DEF ResolveLoads
  <2>2. \A d \in ResolveCalls \ {c} :
            resPc'[d] = resPc[d] /\ chosen'[d] = chosen[d] /\ already'[d] = already[d]
    BY <1>1 DEF ResolveLoads
  <2>3. /\ resPc[c] = "new" /\ resPc'[c] # "200"
        /\ resPc'[c] = "create" => ask[c].data
    BY <1>1 DEF ResolveLoads
  <2>4. resPc'[c] = "link" => Learned(c)'
    <3>1. ASSUME resPc'[c] = "link"
          PROVE  /\ ~ask[c].data /\ Referable(ask[c]) /\ chosen'[c] = ask[c].id
                 /\ already'[c] <=> <<ask[c].wish, ask[c].id>> \in joins
      <4>1. ask[c].id # None \/ ask[c].data
        BY DEF Asks
      <4>2. QED
        BY <1>1, <3>1, <4>1 DEF ResolveLoads
    <3>2. QED
      BY <2>1, <3>1 DEF Learned, Link, Referable, LinkInv
  <2>5. \A d \in ResolveCalls \ {c} : (Learned(d) => Learned(d)') /\ Link(d)' = Link(d)
    BY <2>1, <2>2, KnownStays
  <2>6. QED
    BY <2>1, <2>2, <2>3, <2>4, <2>5 DEF LinkInv, Answered
<1>2. ASSUME NEW c \in ResolveCalls, ResolveCreates(c)
      PROVE  LinkInv'
  <2> DEFINE p == last + 1
  <2>1. /\ UNCHANGED <<open, joins, gone, ask>> /\ p \in Builds
        /\ last' = p /\ built' = built \cup {p}
        /\ owner' = [owner EXCEPT ![p] = ask[c].who]
        /\ chosen' = [chosen EXCEPT ![c] = p] /\ resPc' = [resPc EXCEPT ![c] = "link"]
        /\ resPc[c] = "create"
    BY <1>2 DEF ResolveCreates
  <2>2. \A d \in ResolveCalls \ {c} : already'[d] = already[d]
    BY <1>2 DEF ResolveCreates
  <2>3. ~already'[c]
    BY <1>2 DEF ResolveCreates
  <2>4. \A d \in ResolveCalls \ {c} : (Learned(d) => Learned(d)') /\ Link(d)' = Link(d)
    BY <2>1, <2>2, KnownStays
  <2>5. ask[c].data
    <3>1. resPc[c] = "create" => ask[c].data
      BY DEF LinkInv
    <3>2. QED
      BY <2>1, <3>1
  <2>6. Learned(c)'
    BY <2>1, <2>3, <2>5 DEF Learned, Builds
  <2>7. (built \subseteq 1..last /\ \A j \in joins : j[2] <= last)'
    BY <2>1 DEF LinkInv, Joins, Builds
  <2>8. \A j \in joins : owner'[j[2]] = owner[j[2]]
    BY <2>1 DEF LinkInv, Joins, Builds
  <2>9. Answered' = Answered
    BY <2>1 DEF Answered
  <2>10. (\A d \in ResolveCalls :
            (resPc[d] = "create" => ask[d].data) /\ (resPc[d] = "link" => Learned(d)))'
    <3>1. ASSUME NEW d \in ResolveCalls, d # c
          PROVE  /\ resPc'[d] = "create" => ask'[d].data
                 /\ resPc'[d] = "link" => Learned(d)'
      BY <2>1, <2>4, <3>1 DEF LinkInv
    <3>2. resPc'[c] = "link"
      BY <2>1
    <3>3. QED
      BY <2>6, <3>1, <3>2
  <2>11. ASSUME NEW d \in Answered
         PROVE  /\ d \in ResolveCalls \ {c} /\ Link(d)' = Link(d) /\ ask' = ask
                /\ Link(d) \in (joins \cup gone)' /\ chosen'[d] \in 1..last'
    <3>1. d \in ResolveCalls \ {c}
      BY <2>1 DEF Answered
    <3>2. Link(d) \in joins \cup gone /\ chosen[d] \in 1..last
      BY DEF LinkInv
    <3>3. QED
      BY <2>1, <2>4, <3>1, <3>2
  <2>12. ASSUME NEW j \in joins
         PROVE  \E d \in Answered :
                    Link(d)' = j /\ (ask'[d].data \/ owner'[j[2]] # ask'[d].who)
    <3>1. PICK d \in Answered : Link(d) = j /\ (ask[d].data \/ owner[j[2]] # ask[d].who)
      BY DEF LinkInv
    <3>2. QED
      BY <2>8, <2>11, <3>1
  <2>13. QED
    BY <2>1, <2>7, <2>9, <2>10, <2>11, <2>12 DEF LinkInv
<1>3. ASSUME NEW c \in ResolveCalls, ResolveLinks(c)
      PROVE  LinkInv'
  <2>1. /\ UNCHANGED <<open, built, last, owner, gone, ask, chosen, already>>
        /\ resPc' = [resPc EXCEPT ![c] = "200"] /\ resPc[c] = "link"
        /\ joins' = joins \/ joins' = joins \cup {Link(c)}
        /\ already[c] \/ joins' = joins \cup {Link(c)}
    BY <1>3 DEF ResolveLinks
  <2>2. Learned(c) /\ Link(c)[2] = chosen[c]
    BY <2>1 DEF LinkInv, Link
  <2>3. \A d \in ResolveCalls : (Learned(d) => Learned(d)') /\ Link(d)' = Link(d)
    BY <2>1, KnownStays
  <2>4. Link(c) \in joins' \cup gone'
    BY <2>1, <2>2 DEF Learned
  <2>5. QED
    BY <2>1, <2>2, <2>3, <2>4 DEF LinkInv, Answered, Learned
<1>4. ASSUME NEW c \in ResolveCalls, ResolveFails(c)
      PROVE  LinkInv'
  <2>1. /\ UNCHANGED <<open, built, last, owner, joins, gone, ask, chosen, already>>
        /\ resPc' = [resPc EXCEPT ![c] = "500"] /\ resPc[c] \in {"create", "link"}
    BY <1>4 DEF ResolveFails
  <2>2. \A d \in ResolveCalls : (Learned(d) => Learned(d)') /\ Link(d)' = Link(d)
    BY <2>1, KnownStays
  <2>3. QED
    BY <2>1, <2>2 DEF LinkInv, Answered
<1>5. ASSUME \/ \E q \in Wishes : WishGoes(q)
             \/ \E p \in Builds : BuildGoes(p)
             \/ PropertyCreated
             \/ UNCHANGED resolutionVars
      PROVE  LinkInv'
  <2> DEFINE SideStep ==
                /\ UNCHANGED <<owner, resPc, ask, chosen, already>>
                /\ last' \in {last, last + 1} /\ built' \subseteq 1..last'
                /\ joins' \subseteq joins /\ joins \cup gone \subseteq joins' \cup gone'
  <2>1. SideStep
    <3>1. ASSUME NEW q \in Wishes, WishGoes(q)
          PROVE  SideStep
      BY <3>1 DEF WishGoes, LinkInv
    <3>2. ASSUME NEW p \in Builds, BuildGoes(p)
          PROVE  SideStep
      BY <3>2 DEF BuildGoes, LinkInv
    <3>3. CASE PropertyCreated
      BY <3>3 DEF PropertyCreated, LinkInv
    <3>4. CASE UNCHANGED resolutionVars
      BY <3>4 DEF resolutionVars, LinkInv
    <3>5. QED
      BY <1>5, <3>1, <3>2, <3>3, <3>4
  <2>2. \A d \in ResolveCalls : (Learned(d) => Learned(d)') /\ Link(d)' = Link(d)
    BY <2>1, KnownStays
  <2>3. /\ (\A j \in joins : j[2] <= last)'
        /\ (built \subseteq 1..last)'
    BY <2>1 DEF LinkInv, Joins, Builds
  <2>4. (\A d \in ResolveCalls : (resPc[d] = "create" => ask[d].data) /\ (resPc[d] = "link" => Learned(d)))'
    BY <2>1, <2>2 DEF LinkInv
  <2>5. (\A d \in Answered : Link(d) \in joins \cup gone /\ chosen[d] \in 1..last)'
    BY <2>1, <2>2 DEF LinkInv, Answered
  <2>6. (\A j \in joins : \E d \in Answered :
            Link(d) = j /\ (ask[d].data \/ owner[j[2]] # ask[d].who))'
    BY <2>1, <2>2 DEF LinkInv, Answered
  <2>7. QED
    BY <2>3, <2>4, <2>5, <2>6 DEF LinkInv
<1>6. QED
  BY <1>1, <1>2, <1>3, <1>4, <1>5 DEF ResolutionNext

LEMMA ResolutionInvNext == ResolutionInv /\ [ResolutionNext]_resolutionVars => ResolutionInv'
BY ResolutionTypeNext, LinkInvNext DEF ResolutionInv

(* What a call has loaded, and the tables it shares, have the values they  *)
(* are declared with.                                                      *)
THEOREM ResolutionTypeCorrect == ResolutionSpec => []ResolutionTypeOK
<1>1. ResolutionInv => ResolutionTypeOK
  BY DEF ResolutionInv
<1>2. QED
  BY ResolutionInvInit, ResolutionInvNext, <1>1, PTL DEF ResolutionSpec

(* Each answer to a resolution has left its link, and each link is the one *)
(* some call was answered for, to a property it created or that somebody   *)
(* else owns.                                                              *)
THEOREM LinksAreAnswered == ResolutionSpec => []LinksAreAnswers
<1>1. ResolutionInv => LinksAreAnswers
  BY DEF ResolutionInv, LinkInv, Answered, LinksAreAnswers
<1>2. QED
  BY ResolutionInvInit, ResolutionInvNext, <1>1, PTL DEF ResolutionSpec

----------------------------------------------------------------------------
(***************************************************************************)
(* The property stream, for any properties, fields and page size.  A page  *)
(* is cut off by a limit, so what is newest, how many are newer, and what  *)
(* is the oldest of a page decide what the next page can still reach.      *)
(***************************************************************************)

(* A set of naturals that is not empty has a least element, and one that   *)
(* is bounded a greatest.                                                  *)
LEMMA LeastElement ==
    ASSUME NEW S \in SUBSET Nat, S # {}
    PROVE  \E r \in S : \A q \in S : r <= q
<1> DEFINE Below == {ss \in Nat \X Nat : ss[1] < ss[2]}
<1>1. IsWellFoundedOn(Below, Nat)
  BY NatLessThanWellFounded DEF OpToRel
<1>2. \E x \in S : \A y \in S : ~(<<y, x>> \in Below)
  BY <1>1, WFMin
<1>3. PICK r \in S : \A q \in S : ~(<<q, r>> \in Below)
  BY <1>2
<1>4. \A q \in S : ~(q < r)
  BY <1>3
<1>5. r \in Nat /\ \A q \in S : q \in Nat
  OBVIOUS
<1>6. \A q \in S : r <= q
  BY <1>4, <1>5
<1>. QED  BY <1>6

LEMMA GreatestElement ==
    ASSUME NEW n \in Nat, NEW S \in SUBSET (0..n), S # {}
    PROVE  \E r \in S : \A q \in S : q <= r
<1> DEFINE T == {n - r : r \in S}
<1>1. T \in SUBSET Nat /\ T # {}
  <2>1. \A r \in S : r \in 0..n /\ n - r \in Nat
    OBVIOUS
  <2>2. T \in SUBSET Nat
    BY <2>1
  <2>. QED  BY <2>2
<1>2. PICK t \in T : \A u \in T : t <= u
  BY <1>1, LeastElement
<1>3. PICK r \in S : t = n - r
  BY <1>2
<1>4. \A q \in S : n - q \in T
  OBVIOUS
<1>5. \A q \in S : n - r <= n - q
  BY <1>2, <1>3, <1>4
<1>6. \A q \in S : q <= r
  BY <1>5
<1>. QED  BY <1>6

LEMMA OldestIs ==
    ASSUME NEW S \in SUBSET Nat, S # {}, NEW otherwise
    PROVE  /\ Oldest(S, otherwise) \in S
           /\ \A q \in S : Oldest(S, otherwise) <= q
BY LeastElement DEF Oldest

LEMMA IdsAreFinite ==
    ASSUME StreamAssumption
    PROVE  \A S \in SUBSET Ids : IsFiniteSet(S)
<1>1. IsFiniteSet(1..MaxProperty)
  BY FS_Interval DEF StreamAssumption
<1>. QED  BY <1>1, FS_Subset DEF Ids

(* The newest of a set are the top of it: if any is left out, the newest   *)
(* are not none, and what is left out is older than they.                  *)
LEMMA NewestIsTop ==
    ASSUME StreamAssumption, NEW S \in SUBSET Ids, NEW n \in Int, n > 0, NEW r \in S, r \notin Newest(S, n)
    PROVE  Newest(S, n) # {} /\ \A q \in Newest(S, n) : r < q
<1> DEFINE Above(q) == {x \in S : x > q}
<1>1. IsFiniteSet(S) /\ S \in SUBSET (0..MaxProperty) /\ MaxProperty \in Nat
  BY IdsAreFinite DEF Ids, StreamAssumption
<1>2. \A x \in S : x \in Nat
  BY <1>1
<1>3. \A q \in S : Above(q) \in SUBSET S /\ IsFiniteSet(Above(q)) /\ Cardinality(Above(q)) \in Nat
  BY <1>1, FS_Subset, FS_CardinalityType
<1>4. PICK top \in S : \A q \in S : q <= top
  BY <1>1, GreatestElement
<1>5. Above(top) = {}
  <2>1. \A x \in S : ~(x > top)
    BY <1>2, <1>4
  <2>. QED  BY <2>1
<1>6. top \in Newest(S, n)
  BY <1>5, FS_EmptySet DEF Newest
<1>7. ASSUME NEW q \in Newest(S, n), ~(r < q)
      PROVE  FALSE
  <2>1. q \in S /\ Cardinality(Above(q)) < n
    BY <1>7 DEF Newest
  <2>2. Above(r) \subseteq Above(q)
    <3>1. \A x \in S : x > r => x > q
      BY <1>2, <1>7, <2>1
    <3>. QED  BY <3>1
  <2>3. Cardinality(Above(r)) <= Cardinality(Above(q))
    BY <1>3, <2>1, <2>2, FS_Subset
  <2>4. Cardinality(Above(r)) < n
    BY <1>3, <2>1, <2>3
  <2>. QED  BY <2>4 DEF Newest
<1>. QED  BY <1>6, <1>7

(* What the cursor of the database has not passed over.                    *)
Ahead(r) == r \in seenIds \/ r < dbCursor

(* A page answers what was not seen before, and the cursor moves over what *)
(* it does not answer only when the page was full before the third source. *)
PageEffect(new) ==
    /\ new \subseteq Ids /\ new \cap seenIds = {}
    /\ answers' = Append(answers, new) /\ seenIds' = seenIds \cup new
    /\ {score', dbCursor', autoCursor'} \subseteq 1..NoCursor
    /\ leapt' \in BOOLEAN
    /\ ~leapt' => ~leapt /\ \A r \in checked : Ahead(r) => Ahead(r)'
    /\ UNCHANGED <<listed, checked, tracked, known, firstly, edits>>

LEMMA PageStep ==
    ASSUME StreamAssumption, StreamTypeOK, StreamPage
    PROVE  \E new : PageEffect(new)
<1>1. PICK quota \in [Fields -> ByPreference] :
        LET preferred == UNION {quota[f] : f \in Fields}
            many      == Cardinality(UNION {{f} \X quota[f] : f \in Fields})
            seen1     == seenIds \cup preferred
            ids       == IF many < PageSize
                         THEN Reached(CategoryCursor, seen1, PageSize - many)
                         ELSE {}
            auto      == Loaded(ids)
            seen2     == seen1 \cup auto
            need      == PageSize - AtMost(PageSize, many + Cardinality(auto))
            fallback  == IF need > 0 THEN Fallback(seen2, dbCursor, need) ELSE {}
        IN  /\ answers' = Append(answers, preferred \cup auto \cup fallback)
            /\ seenIds' = seen2 \cup fallback
            /\ autoCursor' = Oldest(ids, NoCursor)
            /\ score' = IF known /\ ids # {} THEN Oldest(ids, NoCursor) ELSE score
            /\ dbCursor' = Oldest(IF need > 0 THEN fallback ELSE quota[LastField], dbCursor)
            /\ leapt' = (leapt \/ need = 0)
            /\ UNCHANGED <<listed, checked, tracked, known, firstly, edits>>
  BY DEF StreamPage
<1> DEFINE preferred == UNION {quota[f] : f \in Fields}
           many == Cardinality(UNION {{f} \X quota[f] : f \in Fields})
           seen1 == seenIds \cup preferred
           ids == IF many < PageSize
                  THEN Reached(CategoryCursor, seen1, PageSize - many)
                  ELSE {}
           auto == Loaded(ids)
           seen2 == seen1 \cup auto
           need == PageSize - AtMost(PageSize, many + Cardinality(auto))
           fallback == IF need > 0 THEN Fallback(seen2, dbCursor, need) ELSE {}
           new == preferred \cup auto \cup fallback
<1>2. /\ answers' = Append(answers, new)
      /\ seenIds' = seen2 \cup fallback
      /\ autoCursor' = Oldest(ids, NoCursor)
      /\ score' = IF known /\ ids # {} THEN Oldest(ids, NoCursor) ELSE score
      /\ dbCursor' = Oldest(IF need > 0 THEN fallback ELSE quota[LastField], dbCursor)
      /\ leapt' = (leapt \/ need = 0)
      /\ UNCHANGED <<listed, checked, tracked, known, firstly, edits>>
  BY <1>1
<1>3. /\ MaxProperty \in Nat /\ PageSize \in Nat /\ IsFiniteSet(Fields) /\ LastField \in Fields
      /\ \A S \in SUBSET Ids : IsFiniteSet(S)
      /\ checked \subseteq Ids
  BY IdsAreFinite DEF StreamAssumption, StreamTypeOK
<1>4. \A f \in Fields : quota[f] \subseteq checked \ seenIds
  BY DEF ByPreference
<1>5. preferred \subseteq checked \ seenIds
  BY <1>4
<1>6. ids \subseteq tracked \ seen1
  BY DEF Reached, Newest
<1>7. auto \subseteq Ids \ seen1
  BY <1>6 DEF Loaded, StreamTypeOK
<1>8. fallback \subseteq checked \ seen2
  BY DEF Fallback, Newest
<1>9. many \in Nat
  <2> DEFINE Pairs == {{f} \X quota[f] : f \in Fields}
  <2>1. Pairs \subseteq SUBSET (Fields \X Ids)
    BY <1>3, <1>4
  <2>2. UNION Pairs \in SUBSET (Fields \X Ids)
    BY <2>1
  <2>3. IsFiniteSet(Fields \X Ids)
    BY <1>3, FS_Product
  <2>4. IsFiniteSet(UNION Pairs)
    BY <2>2, <2>3, FS_Subset
  <2>. QED  BY <2>4, FS_CardinalityType
<1>10. Cardinality(auto) \in Nat
  BY <1>3, <1>7, FS_CardinalityType
<1>11. need \in Nat
  BY <1>3, <1>9, <1>10 DEF AtMost
<1>12. new \subseteq Ids /\ new \cap seenIds = {} /\ seenIds' = seenIds \cup new
  BY <1>2, <1>3, <1>5, <1>7, <1>8
<1>13. \A S \in SUBSET Ids, c \in 1..NoCursor : Oldest(S, c) \in 1..NoCursor
  <2>1. SUFFICES ASSUME NEW S \in SUBSET Ids, NEW c \in 1..NoCursor
                 PROVE  Oldest(S, c) \in 1..NoCursor
    OBVIOUS
  <2>2. CASE S = {}
    BY <2>2 DEF Oldest
  <2>3. CASE S # {}
    <3>1. S \in SUBSET Nat
      BY <1>3 DEF Ids
    <3>2. Oldest(S, c) \in Ids
      BY <2>3, <3>1, OldestIs
    <3>. QED  BY <1>3, <3>2 DEF Ids, NoCursor
  <2>. QED  BY <2>2, <2>3
<1>14. {score', dbCursor', autoCursor'} \subseteq 1..NoCursor
  <2>1. NoCursor \in 1..NoCursor /\ score \in 1..NoCursor /\ dbCursor \in 1..NoCursor
    BY <1>3 DEF NoCursor, StreamTypeOK
  <2>2. ids \in SUBSET Ids /\ fallback \in SUBSET Ids /\ quota[LastField] \in SUBSET Ids
    BY <1>3, <1>4, <1>6, <1>8 DEF StreamTypeOK
  <2> HIDE DEF ids, fallback, need
  <2>. QED  BY <1>2, <1>13, <2>1, <2>2
<1>15. leapt' \in BOOLEAN
  BY <1>2 DEF StreamTypeOK
<1>16. ASSUME ~leapt', NEW r \in checked, Ahead(r)
       PROVE  Ahead(r)'
  <2>1. need > 0
    <3> HIDE DEF need
    <3>1. need # 0
      BY <1>2, <1>16
    <3>. QED  BY <1>11, <3>1
  <2> DEFINE S == {q \in checked \ seen2 : q < dbCursor}
  <2>2. fallback = Newest(S, need) /\ dbCursor' = Oldest(fallback, dbCursor)
    BY <1>2, <2>1 DEF Fallback
  <2>3. CASE r \in seen2 \cup fallback
    BY <1>2, <2>3 DEF Ahead
  <2>4. CASE r \notin seen2 \cup fallback
    <3>1. r \in S /\ r \notin Newest(S, need)
      BY <1>16, <2>2, <2>4 DEF Ahead
    <3>2. S \in SUBSET Ids
      BY <1>3
    <3>3. fallback # {} /\ \A q \in fallback : r < q
      <4> HIDE DEF need, fallback, S
      <4>. QED  BY <1>11, <2>1, <2>2, <3>1, <3>2, NewestIsTop
    <3>4. fallback \in SUBSET Nat
      <4> HIDE DEF fallback
      <4>1. fallback \subseteq Ids
        BY <1>3, <1>8
      <4>. QED  BY <1>3, <4>1 DEF Ids
    <3>5. dbCursor' \in fallback
      BY <2>2, <3>3, <3>4, OldestIs
    <3>. QED  BY <3>3, <3>5 DEF Ahead
  <2>. QED  BY <2>3, <2>4
<1>17. PageEffect(new)
  <2> HIDE DEF new, need
  <2>. QED  BY <1>2, <1>12, <1>14, <1>15, <1>16 DEF PageEffect
<1>. QED  BY <1>17

(* What was on a page is among the ids the client returns.                 *)
AnswersSeen == \A i \in DOMAIN answers : answers[i] \subseteq seenIds
StreamInv == StreamTypeOK /\ AnswersSeen /\ NeverOnTwoPages /\ NothingPassedOver

LEMMA StreamStart ==
    ASSUME StreamAssumption, StreamInit
    PROVE  StreamInv
<1>1. StreamTypeOK
  <2>1. NoCursor \in 1..NoCursor /\ 0 \in 0..MaxEdits
    BY DEF StreamAssumption, NoCursor
  <2>2. <<>> \in Seq(SUBSET Ids)
    OBVIOUS
  <2>. QED  BY <2>1, <2>2 DEF StreamInit, StreamTypeOK
<1>2. NothingPassedOver
  BY DEF StreamInit, NothingPassedOver, StreamAssumption, Ids, NoCursor
<1>. QED  BY <1>1, <1>2 DEF StreamInit, StreamInv, AnswersSeen, NeverOnTwoPages

LEMMA StreamSteps ==
    ASSUME StreamAssumption, StreamInv, [StreamNext]_streamVars
    PROVE  StreamInv'
<1> USE DEF StreamInv
<1>1. CASE StreamPage
  <2>1. PICK new : PageEffect(new)
    BY <1>1, PageStep
  <2>2. StreamTypeOK'
    BY <2>1 DEF PageEffect, StreamTypeOK
  <2>3. /\ DOMAIN answers' = 1..(Len(answers) + 1)
        /\ \A i \in DOMAIN answers : answers'[i] = answers[i]
        /\ answers'[Len(answers) + 1] = new
        /\ DOMAIN answers = 1..Len(answers) /\ Len(answers) \in Nat
    BY <2>1 DEF PageEffect, StreamTypeOK
  <2>4. \A i \in DOMAIN answers' : i \in DOMAIN answers \/ i = Len(answers) + 1
    BY <2>3
  <2>5. AnswersSeen'
    BY <2>1, <2>3, <2>4 DEF PageEffect, AnswersSeen
  <2>6. NeverOnTwoPages'
    BY <2>1, <2>3, <2>4 DEF PageEffect, AnswersSeen, NeverOnTwoPages
  <2>7. NothingPassedOver'
    BY <2>1 DEF PageEffect, Ahead, NothingPassedOver, StreamTypeOK
  <2>. QED  BY <2>2, <2>5, <2>6, <2>7
<1>2. CASE ScoreExpires
  BY <1>2 DEF ScoreExpires, Edited, StreamTypeOK, AnswersSeen, NeverOnTwoPages,
              NothingPassedOver, StreamAssumption, NoCursor
<1>3. ASSUME NEW r \in Ids, Checks(r) \/ Unchecks(r) \/ Unlists(r) \/ Tracks(r)
      PROVE  StreamInv'
  <2>1. StreamTypeOK'
    BY <1>3 DEF Checks, Unchecks, Unlists, Tracks, Edited, StreamRest, StreamTypeOK, StreamAssumption
  <2>2. firstly' \subseteq firstly /\ StreamRest
    BY <1>3 DEF Checks, Unchecks, Unlists, Tracks
  <2>. QED  BY <2>1, <2>2 DEF StreamRest, AnswersSeen, NeverOnTwoPages, NothingPassedOver
<1>4. CASE UNCHANGED streamVars
  BY <1>4 DEF streamVars, StreamTypeOK, AnswersSeen, NeverOnTwoPages, NothingPassedOver
<1>. QED  BY <1>1, <1>2, <1>3, <1>4 DEF StreamNext

LEMMA StreamInvariant == StreamSpec => []StreamInv
BY StreamAssumption, StreamStart, StreamSteps, PTL DEF StreamSpec

(* The variables of the stream keep their types.                           *)
THEOREM StreamTypeCorrect == StreamSpec => []StreamTypeOK
BY StreamInvariant, PTL DEF StreamInv

(* No property is on two pages of a client that returns its seen_ids: what *)
(* a page answers is in them, and each source leaves them out.             *)
THEOREM NothingTwice == StreamSpec => []NeverOnTwoPages
BY StreamInvariant, PTL DEF StreamInv

(* A property that was verified all along is not passed over unless a page *)
(* was full before the third source.                                       *)
THEOREM NonePassedOver == StreamSpec => []NothingPassedOver
BY StreamInvariant, PTL DEF StreamInv

----------------------------------------------------------------------------
(***************************************************************************)
(* The cart, for any items and any number of calls.  The invariant is      *)
(* about an item none of whose calls ran beside another: its own calls are *)
(* alone, and the calls of other items, which write whole sets, write it   *)
(* back as it is.                                                          *)
(***************************************************************************)

(* Calls that run at once have crossed.                                    *)
Apart ==
    \A c, d \in CartCalls : c # d /\ Busy(c) /\ Busy(d) =>
        /\ {item[c], item[d]} \subseteq crossed
        /\ Clearing(c) => CartItems \subseteq crossed

(* From its read of a key to its last write of it, what a call has read of *)
(* the item is so, but for the expiry of the cart.                         *)
HasPending ==
    {"add.offload", "remove.pending", "remove.cart", "remove.none", "remove.take", "clear.cart",
     "clear.pending"}
HasCart ==
    {"add.deletion", "add.undelete", "add.put", "add.pending", "add.offload", "remove.none",
     "remove.take", "clear.pending", "clear.delete"}
Own(c, k) == Busy(c) /\ (item[c] = k \/ Clearing(c))
Synced(c, k) ==
    /\ cpc[c] \in HasPending => (k \in saw[c]["pre_offload"] <=> k \in store["pre_offload"])
    /\ cpc[c] \in HasCart =>
          /\ k \in saw[c]["cart"] => k \in wanted \cup doubled /\ k \in store["cart"] \cup faded
          /\ k \in store["cart"] => k \in saw[c]["cart"] \/ (~Own(c, k) /\ k \in faded)

(* What a removal has found and done, by where it is.                      *)
NotPending ==
    {"remove.cart", "remove.none", "remove.take", "remove.deletion", "remove.mark",
     "clear.delete", "clear.deletion", "clear.mark"}
NotInCart == {"remove.deletion", "remove.mark", "clear.deletion", "clear.mark"}
Done(c, k) ==
    Own(c, k) =>
        /\ cpc[c] = "remove.pending" => k \in saw[c]["pre_offload"]
        /\ cpc[c] = "remove.none" => k \notin saw[c]["cart"]
        /\ cpc[c] \in NotPending => k \notin store["pre_offload"]
        /\ cpc[c] \in NotInCart => k \notin store["cart"]

Leaving(c, k) == Own(c, k) /\ cpc[c] \in NotInCart \cup {"clear.delete"}
Due(k) == k \in wanted => k \in faded \cup Visible \/ \E c \in CartCalls : Leaving(c, k)
Meant(k) == k \in Visible => k \in wanted \cup doubled
CartItemInv(k) == Due(k) /\ Meant(k) /\ \A c \in CartCalls : Synced(c, k) /\ Done(c, k)

BothDoubled == store["cart"] \cap store["pre_offload"] \subseteq doubled
CartInv ==
    CartTypeOK /\ Apart /\ BothDoubled /\ \A k \in CartItems \ crossed : CartItemInv(k)

(* What a step of a call leaves to the others, and to the items that are   *)
(* not its own.                                                            *)
Continues(c) ==
    /\ Busy(c) /\ UNCHANGED <<item, faded, crossed>> /\ doubled \subseteq doubled'
    /\ cpc'[c] = "new" \/ (cpc'[c] \in ClearPcs <=> Clearing(c))
    /\ \A d \in CartCalls \ {c} : cpc'[d] = cpc[d] /\ saw'[d] = saw[d]
Spared(k) ==
    /\ k \in wanted' <=> k \in wanted
    /\ k \in store'["pre_offload"] <=> k \in store["pre_offload"]
    /\ k \notin faded => (k \in store'["cart"] <=> k \in store["cart"])
    /\ k \in store'["cart"] => k \in wanted \cup doubled
ItemStep(c, k) ==
    /\ ~Own(c, k) => Spared(k)
    /\ Own(c, k) => Due(k)' /\ Meant(k)'
    /\ Synced(c, k)' /\ Done(c, k)'

LEMMA StepKeeps ==
    ASSUME CartInv, NEW c \in CartCalls, Continues(c), CartTypeOK', BothDoubled',
           \A k \in CartItems \ crossed : ItemStep(c, k)
    PROVE  CartInv'
<1>1. Apart'
  BY DEF CartInv, Continues, Apart, Busy, Clearing, ClearPcs
<1>2. ASSUME NEW k \in CartItems \ crossed
      PROVE  CartItemInv(k)'
  <2>1. CartItemInv(k) /\ ItemStep(c, k)
    BY <1>2 DEF CartInv
  <2>2. ASSUME NEW d \in CartCalls, d # c, Busy(d)
        PROVE  ~Own(c, k) /\ ~Own(d, k)
    BY <1>2, <2>2 DEF CartInv, Apart, Continues, Own
  <2>3. ASSUME NEW d \in CartCalls, d # c
        PROVE  Synced(d, k)' /\ Done(d, k)'
    <3>1. CASE Busy(d)
      <4>1. Spared(k) /\ ~Own(d, k) /\ Own(d, k)' = Own(d, k)
        BY <2>1, <2>2, <2>3, <3>1 DEF ItemStep, Continues, Own, Busy, Clearing
      <4>2. Synced(d, k)
        BY <2>1 DEF CartItemInv
      <4>. QED  BY <2>3, <4>1, <4>2 DEF Synced, Done, Spared, Continues
    <3>2. CASE ~Busy(d)
      BY <2>3, <3>2 DEF Synced, Done, Own, Busy, HasPending, HasCart, Continues
    <3>. QED  BY <3>1, <3>2
  <2>4. Due(k)' /\ Meant(k)'
    <3>1. CASE Own(c, k)
      BY <2>1, <3>1 DEF ItemStep
    <3>2. CASE ~Own(c, k)
      <4>1. Spared(k) /\ Due(k) /\ Meant(k)
        BY <2>1, <3>2 DEF ItemStep, CartItemInv
      <4>2. \A d \in CartCalls : Leaving(d, k) => Leaving(d, k)'
        BY <3>2 DEF Leaving, Own, Continues, Busy, Clearing
      <4>. QED  BY <4>1, <4>2 DEF Due, Meant, Spared, Visible, Continues
    <3>. QED  BY <3>1, <3>2
  <2>. QED  BY <2>1, <2>3, <2>4 DEF ItemStep, CartItemInv
<1>. QED  BY <1>1, <1>2 DEF CartInv, Continues

LEMMA ReadSteps ==
    ASSUME CartInv, NEW c \in CartCalls,
           \/ AddReadsCart(c) \/ AddReadsDeletion(c) \/ AddReadsPending(c) \/ RemoveReads(c)
           \/ RemoveReadsCart(c) \/ RemoveReadsDeletion(c) \/ ClearReads(c) \/ ClearReadsCart(c)
           \/ ClearReadsDeletion(c)
    PROVE  CartInv'
<1>. USE DEF Keys
<1>1. Continues(c)
  BY DEF CartInv, CartTypeOK, Continues, AddReadsCart, AddReadsDeletion, AddReadsPending,
        RemoveReads, RemoveReadsCart, RemoveReadsDeletion, ClearReads, ClearReadsCart,
        ClearReadsDeletion, Read, Busy, Clearing, ClearPcs
<1>2. CartTypeOK'
  <2>1. CartTypeOK
    BY DEF CartInv
  <2>2. saw' \in [CartCalls -> [Keys -> SUBSET CartItems]]
    BY <2>1 DEF CartTypeOK, AddReadsCart, AddReadsDeletion, AddReadsPending, RemoveReads,
          RemoveReadsCart, RemoveReadsDeletion, ClearReads, ClearReadsCart, ClearReadsDeletion,
          Read
  <2>3. cpc' \in [CartCalls -> {"new"} \cup Adding \cup Removing \cup ClearPcs]
    BY <2>1 DEF CartTypeOK, AddReadsCart, AddReadsDeletion, AddReadsPending, RemoveReads,
          RemoveReadsCart, RemoveReadsDeletion, ClearReads, ClearReadsCart, ClearReadsDeletion,
          Read, Adding, Removing, ClearPcs
  <2>4. store' \in [Keys -> SUBSET CartItems]
    BY <2>1 DEF CartTypeOK, AddReadsCart, AddReadsDeletion, AddReadsPending, RemoveReads,
          RemoveReadsCart, RemoveReadsDeletion, ClearReads, ClearReadsCart, ClearReadsDeletion,
          Read
  <2>5. {wanted', doubled'} \subseteq SUBSET CartItems
    BY <2>1, <2>4 DEF CartTypeOK, AddReadsCart, AddReadsDeletion, AddReadsPending, RemoveReads,
          RemoveReadsCart, RemoveReadsDeletion, ClearReads, ClearReadsCart, ClearReadsDeletion,
          Read
  <2>6. UNCHANGED <<offloadLock, item, faded, crossed, calls>>
    BY DEF AddReadsCart, AddReadsDeletion, AddReadsPending, RemoveReads, RemoveReadsCart,
          RemoveReadsDeletion, ClearReads, ClearReadsCart, ClearReadsDeletion, Read
  <2>. QED  BY <2>1, <2>2, <2>3, <2>4, <2>5, <2>6 DEF CartTypeOK
<1>3. BothDoubled'
  BY DEF CartInv, CartTypeOK, BothDoubled, AddReadsCart, AddReadsDeletion, AddReadsPending,
        RemoveReads, RemoveReadsCart, RemoveReadsDeletion, ClearReads, ClearReadsCart,
        ClearReadsDeletion, Read
<1>4. ASSUME NEW k \in CartItems \ crossed
      PROVE  ItemStep(c, k)
  <2>1. CartTypeOK /\ Due(k) /\ Meant(k) /\ Synced(c, k) /\ Done(c, k) /\ BothDoubled
    BY <1>4 DEF CartInv, CartItemInv
  <2>2. Synced(c, k)' /\ Done(c, k)'
    BY <2>1 DEF CartTypeOK, AddReadsCart, AddReadsDeletion, AddReadsPending, RemoveReads,
          RemoveReadsCart, RemoveReadsDeletion, ClearReads, ClearReadsCart, ClearReadsDeletion,
          Read, Synced, Done, Own, Busy, Clearing, ClearPcs, HasPending, HasCart, NotPending,
          NotInCart, Meant, Visible
  <2>3. ~Own(c, k) => Spared(k)
    BY <2>1 DEF CartTypeOK, AddReadsCart, AddReadsDeletion, AddReadsPending, RemoveReads,
          RemoveReadsCart, RemoveReadsDeletion, ClearReads, ClearReadsCart, ClearReadsDeletion,
          Read, Spared, Synced, Own, Busy, Clearing, ClearPcs, HasPending, HasCart, Meant,
          Visible
  <2>4. Own(c, k) => Due(k)' /\ Meant(k)'
    BY <2>1 DEF CartTypeOK, AddReadsCart, AddReadsDeletion, AddReadsPending, RemoveReads,
          RemoveReadsCart, RemoveReadsDeletion, ClearReads, ClearReadsCart, ClearReadsDeletion,
          Read, Due, Meant, Visible, Leaving, Synced, Done, Own, Busy, Clearing, ClearPcs,
          HasPending, HasCart, NotPending, NotInCart, BothDoubled
  <2>. QED  BY <2>2, <2>3, <2>4 DEF ItemStep
<1>. QED  BY <1>1, <1>2, <1>3, <1>4, StepKeeps

LEMMA WriteSteps ==
    ASSUME CartInv, NEW c \in CartCalls,
           \/ AddUndeletes(c) \/ AddPuts(c) \/ AddOffloads(c) \/ RemovePending(c)
           \/ RemoveNothing(c) \/ RemoveTakes(c) \/ RemoveMarks(c) \/ ClearPending(c)
           \/ ClearDeletes(c) \/ ClearMarks(c)
    PROVE  CartInv'
<1>. USE DEF Keys
<1>1. Continues(c)
  BY DEF CartInv, CartTypeOK, Continues, AddUndeletes, AddPuts, AddOffloads, RemovePending,
        RemoveNothing, RemoveTakes, RemoveMarks, ClearPending, ClearDeletes, ClearMarks, Write,
        Unread, Adds, Removes, Joint, Busy, Clearing, ClearPcs
<1>2. CartTypeOK'
  <2>1. CartTypeOK
    BY DEF CartInv
  <2>2. saw' \in [CartCalls -> [Keys -> SUBSET CartItems]]
    BY <2>1 DEF CartTypeOK, AddUndeletes, AddPuts, AddOffloads, RemovePending, RemoveNothing,
          RemoveTakes, RemoveMarks, ClearPending, ClearDeletes, ClearMarks, Write, Unread, Adds,
          Removes, Joint
  <2>3. cpc' \in [CartCalls -> {"new"} \cup Adding \cup Removing \cup ClearPcs]
    BY <2>1 DEF CartTypeOK, AddUndeletes, AddPuts, AddOffloads, RemovePending, RemoveNothing,
          RemoveTakes, RemoveMarks, ClearPending, ClearDeletes, ClearMarks, Write, Unread, Adds,
          Removes, Joint, Adding, Removing, ClearPcs
  <2>4. store' \in [Keys -> SUBSET CartItems]
    BY <2>1 DEF CartTypeOK, AddUndeletes, AddPuts, AddOffloads, RemovePending, RemoveNothing,
          RemoveTakes, RemoveMarks, ClearPending, ClearDeletes, ClearMarks, Write, Unread, Adds,
          Removes, Joint
  <2>5. {wanted', doubled'} \subseteq SUBSET CartItems
    BY <2>1, <2>4 DEF CartTypeOK, AddUndeletes, AddPuts, AddOffloads, RemovePending,
          RemoveNothing, RemoveTakes, RemoveMarks, ClearPending, ClearDeletes, ClearMarks,
          Write, Unread, Adds, Removes, Joint
  <2>6. UNCHANGED <<offloadLock, item, faded, crossed, calls>>
    BY DEF AddUndeletes, AddPuts, AddOffloads, RemovePending, RemoveNothing, RemoveTakes,
          RemoveMarks, ClearPending, ClearDeletes, ClearMarks, Write, Unread, Adds, Removes,
          Joint
  <2>. QED  BY <2>1, <2>2, <2>3, <2>4, <2>5, <2>6 DEF CartTypeOK
<1>3. BothDoubled'
  BY DEF CartInv, CartTypeOK, BothDoubled, AddUndeletes, AddPuts, AddOffloads, RemovePending,
        RemoveNothing, RemoveTakes, RemoveMarks, ClearPending, ClearDeletes, ClearMarks, Write,
        Unread, Adds, Removes, Joint
<1>4. ASSUME NEW k \in CartItems \ crossed
      PROVE  ItemStep(c, k)
  <2>1. CartTypeOK /\ Due(k) /\ Meant(k) /\ Synced(c, k) /\ Done(c, k) /\ BothDoubled
    BY <1>4 DEF CartInv, CartItemInv
  <2>2. Synced(c, k)' /\ Done(c, k)'
    BY <2>1 DEF CartTypeOK, AddUndeletes, AddPuts, AddOffloads, RemovePending, RemoveNothing,
          RemoveTakes, RemoveMarks, ClearPending, ClearDeletes, ClearMarks, Write, Unread, Adds,
          Removes, Joint, Synced, Done, Own, Busy, Clearing, ClearPcs, HasPending, HasCart,
          NotPending, NotInCart, Meant, Visible
  <2>3. ~Own(c, k) => Spared(k)
    BY <2>1 DEF CartTypeOK, AddUndeletes, AddPuts, AddOffloads, RemovePending, RemoveNothing,
          RemoveTakes, RemoveMarks, ClearPending, ClearDeletes, ClearMarks, Write, Unread, Adds,
          Removes, Joint, Spared, Synced, Own, Busy, Clearing, ClearPcs, HasPending, HasCart,
          Meant, Visible
  <2>4. Own(c, k) => Due(k)' /\ Meant(k)'
    BY <2>1 DEF CartTypeOK, AddUndeletes, AddPuts, AddOffloads, RemovePending, RemoveNothing,
          RemoveTakes, RemoveMarks, ClearPending, ClearDeletes, ClearMarks, Write, Unread, Adds,
          Removes, Joint, Due, Meant, Visible, Leaving, Synced, Done, Own, Busy, Clearing,
          ClearPcs, HasPending, HasCart, NotPending, NotInCart, BothDoubled
  <2>. QED  BY <2>2, <2>3, <2>4 DEF ItemStep
<1>. QED  BY <1>1, <1>2, <1>3, <1>4, StepKeeps

LEMMA CallStarts ==
    ASSUME CartInv, NEW c \in CartCalls, NEW first \in {"add", "remove", "clear"},
           NEW i \in CartItems, CartCall(c, first, i)
    PROVE  CartInv'
<1> DEFINE others == {d \in CartCalls : Busy(d)}
<1>1. /\ cpc[c] = "new" /\ cpc' = [cpc EXCEPT ![c] = first] /\ item' = [item EXCEPT ![c] = i]
      /\ crossed' = crossed \cup
            (CASE others = {} -> {}
               [] first = "clear" \/ (\E d \in others : Clearing(d)) -> CartItems
               [] OTHER -> {i} \cup {item[d] : d \in others})
      /\ UNCHANGED <<store, offloadLock, saw, wanted, faded, doubled>>
      /\ calls' = calls + 1 /\ calls < MaxCartCalls
  BY DEF CartCall
<1>2. CartTypeOK
  BY DEF CartInv
<1>3. crossed \subseteq crossed' /\ crossed' \subseteq CartItems
  BY <1>1, <1>2 DEF CartTypeOK
<1>4. CartTypeOK'
  BY <1>1, <1>2, <1>3, CartAssumption DEF CartTypeOK, Adding, Removing, ClearPcs
<1>5. ASSUME NEW d \in CartCalls, d # c
      PROVE  /\ Busy(d)' = Busy(d) /\ Clearing(d)' = Clearing(d)
             /\ item'[d] = item[d] /\ saw'[d] = saw[d] /\ cpc'[d] = cpc[d]
  BY <1>1, <1>2, <1>5 DEF CartTypeOK, Busy, Clearing
<1>6. ASSUME NEW d \in CartCalls, d # c, Busy(d)
      PROVE  /\ {i, item[d]} \subseteq crossed'
             /\ first = "clear" \/ Clearing(d) => CartItems \subseteq crossed'
  <2>1. d \in others /\ others # {} /\ i \in CartItems /\ item[d] \in CartItems
    BY <1>2, <1>6 DEF CartTypeOK
  <2>2. CASE first = "clear" \/ \E e \in others : Clearing(e)
    <3>1. crossed' = crossed \cup CartItems
      BY <1>1, <2>1, <2>2
    <3>. QED  BY <2>1, <3>1
  <2>3. CASE ~(first = "clear" \/ \E e \in others : Clearing(e))
    <3>1. crossed' = crossed \cup ({i} \cup {item[e] : e \in others})
      BY <1>1, <2>1, <2>3
    <3>. QED  BY <2>1, <2>3, <3>1
  <2>. QED  BY <2>2, <2>3
<1>7. item'[c] = i /\ cpc'[c] = first /\ (Clearing(c)' => first = "clear")
  <2>1. item'[c] = i /\ cpc'[c] = first
    BY <1>1, <1>2 DEF CartTypeOK
  <2>. QED  BY <2>1 DEF Clearing, ClearPcs
<1>8. Apart'
  <2>1. SUFFICES ASSUME NEW d \in CartCalls, NEW e \in CartCalls, d # e, Busy(d)', Busy(e)'
                 PROVE  /\ {item'[d], item'[e]} \subseteq crossed'
                        /\ Clearing(d)' => CartItems \subseteq crossed'
    BY DEF Apart
  <2>2. CASE d # c /\ e # c
    BY <1>3, <1>5, <2>1, <2>2 DEF CartInv, Apart
  <2>3. CASE d = c
    BY <1>5, <1>6, <1>7, <2>1, <2>3
  <2>4. CASE e = c
    BY <1>5, <1>6, <1>7, <2>1, <2>4
  <2>. QED  BY <2>2, <2>3, <2>4
<1>9. ASSUME NEW k \in CartItems \ crossed'
      PROVE  CartItemInv(k)'
  <2>1. CartItemInv(k)
    BY <1>3, <1>9 DEF CartInv
  <2>2. ASSUME NEW d \in CartCalls, d # c
        PROVE  Synced(d, k)' /\ Done(d, k)' /\ Leaving(d, k)' = Leaving(d, k)
    BY <1>1, <1>5, <2>1, <2>2 DEF CartItemInv, Synced, Done, Own, Leaving
  <2>3. Synced(c, k)' /\ Done(c, k)'
    BY <1>7 DEF Synced, Done, HasPending, HasCart, NotPending, NotInCart
  <2>4. ~Leaving(c, k)
    BY <1>1 DEF Leaving, NotInCart
  <2>. QED  BY <1>1, <2>1, <2>2, <2>3, <2>4 DEF CartItemInv, Due, Meant, Visible
<1>. QED  BY <1>1, <1>4, <1>8, <1>9 DEF CartInv, BothDoubled

LEMMA ExpirySteps ==
    ASSUME CartInv, CartExpires
    PROVE  CartInv'
<1>1. CartTypeOK /\ CartTypeOK'
  BY DEF CartInv, CartExpires, CartTypeOK, Keys
<1>2. /\ store'["cart"] = {} /\ store'["pre_offload"] = store["pre_offload"]
      /\ faded' = faded \cup store["cart"]
      /\ UNCHANGED <<cpc, item, saw, wanted, doubled, crossed>>
  BY <1>1 DEF CartExpires, CartTypeOK, Keys
<1>3. Apart' /\ BothDoubled'
  BY <1>2 DEF CartInv, Apart, BothDoubled, Busy, Clearing
<1>4. ASSUME NEW k \in CartItems \ crossed
      PROVE  CartItemInv(k)'
  <2>1. CartItemInv(k)
    BY <1>4 DEF CartInv
  <2>2. Due(k)' /\ Meant(k)'
    BY <1>2, <2>1 DEF CartItemInv, Due, Meant, Visible, Leaving, Own, Busy, Clearing
  <2>3. ASSUME NEW c \in CartCalls
        PROVE  Synced(c, k)' /\ Done(c, k)'
    BY <1>2, <2>1 DEF CartItemInv, Synced, Done, Own, Busy, Clearing
  <2>. QED  BY <2>2, <2>3 DEF CartItemInv
<1>. QED  BY <1>1, <1>2, <1>3, <1>4 DEF CartInv

LEMMA RestSteps ==
    ASSUME CartInv, offloadLock' \in BOOLEAN,
           UNCHANGED <<store, cpc, item, saw, wanted, faded, doubled, crossed, calls>>
    PROVE  CartInv'
BY DEF CartInv, CartTypeOK, Apart, BothDoubled, CartItemInv, Due, Meant, Visible, Leaving, Synced,
       Done, Own, Busy, Clearing

LEMMA CartStart ==
    ASSUME CartInit
    PROVE  CartInv
<1>1. CartTypeOK
  <2>1. (CHOOSE i \in CartItems : TRUE) \in CartItems
    BY CartAssumption
  <2>2. item \in [CartCalls -> CartItems]
    BY <2>1 DEF CartInit
  <2>3. saw \in [CartCalls -> [Keys -> SUBSET CartItems]] /\ store \in [Keys -> SUBSET CartItems]
    BY DEF CartInit, Unread
  <2>4. cpc \in [CartCalls -> {"new"} \cup Adding \cup Removing \cup ClearPcs]
    BY DEF CartInit
  <2>5. calls \in 0..MaxCartCalls
    BY CartAssumption DEF CartInit
  <2>6. offloadLock \in BOOLEAN /\ {wanted, faded, doubled, crossed} \subseteq SUBSET CartItems
    BY DEF CartInit
  <2>. QED  BY <2>2, <2>3, <2>4, <2>5, <2>6 DEF CartTypeOK
<1>2. Apart /\ BothDoubled
  BY DEF CartInit, Apart, BothDoubled, Busy, Keys
<1>3. \A k \in CartItems : CartItemInv(k)
  BY DEF CartInit, CartItemInv, Due, Meant, Visible, Synced, Done, Own, Busy, HasPending, HasCart,
         Keys
<1>. QED  BY <1>1, <1>2, <1>3 DEF CartInv

LEMMA CartSteps ==
    ASSUME CartInv, [CartNext]_cartVars
    PROVE  CartInv'
<1>1. ASSUME NEW c \in CartCalls, CartStep(c)
      PROVE  CartInv'
  BY <1>1, CallStarts, ReadSteps, WriteSteps DEF CartStep
<1>2. CASE CartExpires
  BY <1>2, ExpirySteps
<1>3. CASE OffloadStarts \/ OffloadGivesUp
  BY <1>3, RestSteps DEF OffloadStarts, OffloadGivesUp
<1>4. CASE UNCHANGED cartVars
  BY <1>4, RestSteps DEF cartVars, CartInv, CartTypeOK
<1>. QED  BY <1>1, <1>2, <1>3, <1>4 DEF CartNext

LEMMA CartInvariant == CartSpec => []CartInv
BY CartStart, CartSteps, PTL DEF CartSpec

(* The variables of the cart keep their types.                             *)
THEOREM CartTypeCorrect == CartSpec => []CartTypeOK
<1>1. CartInv => CartTypeOK
  BY DEF CartInv
<1>. QED  BY <1>1, CartInvariant, PTL

(* Between calls the cart shows what was added and not removed, for the    *)
(* items whose calls were alone, whatever calls of other items wrote whole *)
(* sets at the same time.                                                  *)
THEOREM ShowsWanted == CartSpec => []CartShowsWanted
<1>1. CartInv => CartShowsWanted
  <2>1. SUFFICES ASSUME CartInv, \A c \in CartCalls : ~Busy(c)
                 PROVE  /\ wanted \ (faded \cup crossed) \subseteq Visible
                        /\ Visible \ (wanted \cup crossed) \subseteq doubled
    BY DEF CartShowsWanted
  <2>2. wanted \subseteq CartItems /\ Visible \subseteq CartItems
    BY <2>1 DEF CartInv, CartTypeOK, Visible, Keys
  <2>3. \A k \in CartItems \ crossed : Due(k) /\ Meant(k) /\ \A c \in CartCalls : ~Leaving(c, k)
    BY <2>1 DEF CartInv, CartItemInv, Leaving, Own
  <2>. QED  BY <2>2, <2>3 DEF Due, Meant
<1>. QED  BY <1>1, CartInvariant, PTL

----------------------------------------------------------------------------
(***************************************************************************)
(* The merge of tags and features, for any properties, names and updates.  *)
(***************************************************************************)

(* A call before its commit has made none, and none is of the future.      *)
ClockInv ==
    \A c \in MergeCalls :
        /\ when[c] <= clock /\ sawAt[c] <= clock
        /\ mergePc[c] \in {"new", "load", "find", "commit"} => when[c] = 0

(* What an item is about: a feature that is not new was there when the     *)
(* call began, which is after the call that brought it.                    *)
ItemInv(c) ==
    LET w == want[c]
    IN  /\ w.of \in Flats /\ w.kind # "none"
        /\ w.kind \in OfTag => w.name \in TagNames
        /\ w.kind = "retag" => w.tag \in TagIds /\ nameOf[w.tag] # NoTag
        /\ w.kind = "untag" => w.tag \in TagIds
        /\ w.kind = "feature" => w.feature = c
        /\ w.kind \in OfFeature => w.feature \in Features /\ Home(w.feature) = w.of
        /\ w.kind \in {"retitle", "unfeature"} /\ w.feature \in MergeCalls =>
              w.feature # c /\ when[w.feature] > 0
WantInv ==
    /\ \A c \in MergeCalls : mergePc[c] # "new" => ItemInv(c)
    /\ \A f \in MergeCalls : titleOf[f] # Deleted => when[f] > 0
NamesInv == \A s, t \in TagIds : nameOf[s] = nameOf[t] /\ nameOf[s] # NoTag => s = t

(* What a call has found.                                                  *)
Sighted(c) == mergePc[c] \in {"find", "commit"}
FoundInv ==
    \A c \in MergeCalls : mergePc[c] = "commit" \/ when[c] > 0 =>
        /\ want[c].kind # "tag" => found[c] = want[c].tag
        /\ mergePc[c] = "commit" /\ want[c].kind \in OfTag /\ found[c] # NoTag =>
              sight[c].names[found[c]] # NoTag
        /\ when[c] > 0 /\ want[c].kind \in OfTag \cup {"untag"} => found[c] \in TagIds

(* What is so, or was changed by a call that was committed after another   *)
(* had loaded.                                                             *)
Taken(c, t) ==
    \E d \in MergeCalls : /\ Since(c, d) /\ want[d].kind = "untag"
                          /\ found[d] = t /\ want[d].of = want[c].of
Given(c, t) ==
    \E d \in MergeCalls : /\ Since(c, d) /\ want[d].kind \in OfTag
                          /\ found[d] = t /\ want[d].of = want[c].of
Renamed(c, t) ==
    \E d \in MergeCalls : /\ Since(c, d) /\ want[d].kind \in OfTag
                          /\ found[d] = t /\ want[d].name = nameOf[t]
Linked(c, t) == <<want[c].of, t>> \in links
StaysOn(c, t) == Linked(c, t) \/ Taken(c, t)
StaysOff(c, t) == ~Linked(c, t) \/ Given(c, t)
StaysNamed(c, t, n) == nameOf[t] = n \/ Renamed(c, t)

SightInv ==
    \A c \in MergeCalls, t \in TagIds : Sighted(c) =>
        /\ want[c].of \in standing =>
              IF t \in sight[c].tags THEN StaysOn(c, t) ELSE StaysOff(c, t)
        /\ sight[c].names[t] # NoTag => StaysNamed(c, t, sight[c].names[t])

(* StillSo with these words.                                               *)
Titled(c) ==
    LET f == want[c].feature
        Other(kind) == {d \in MergeCalls : /\ Since(c, d) /\ want[d].kind = kind
                                           /\ want[d].feature = f}
    IN  IF want[c].kind = "unfeature" THEN titleOf[f] = Deleted
        ELSE \/ titleOf[f] = c
             \/ titleOf[f] = Deleted /\ Other("unfeature") # {}
             \/ titleOf[f] \in Other("retitle")

Remains(c) ==
    /\ want[c].kind \in OfTag =>
          StaysOn(c, found[c]) /\ StaysNamed(c, found[c], want[c].name)
    /\ want[c].kind = "untag" => StaysOff(c, found[c])
    /\ want[c].kind \in OfFeature => Titled(c)

MergedInv == \A c \in MergeCalls : when[c] > 0 /\ want[c].of \in standing => Remains(c)

MergeInv ==
    RelationTypeOK /\ ClockInv /\ WantInv /\ NamesInv /\ FoundInv /\ SightInv /\ MergedInv

LEMMA StillSoIs == \A c \in MergeCalls : StillSo(c) <=> Remains(c)
<1>. SUFFICES ASSUME NEW c \in MergeCalls
              PROVE  StillSo(c) <=> Remains(c)
  OBVIOUS
<1> DEFINE w == want[c]
           t == found[c]
           Other(kinds) == {d \in MergeCalls : Since(c, d) /\ want[d].kind \in kinds}
           OnTag(kinds) == {d \in Other(kinds) : found[d] = t}
           OnFeature(kinds) == {d \in Other(kinds) : want[d].feature = w.feature}
<1>1. (\E d \in OnTag({"untag"}) : want[d].of = w.of) <=> Taken(c, t)
  BY DEF Taken
<1>2. (\E d \in OnTag(OfTag) : want[d].of = w.of) <=> Given(c, t)
  BY DEF Given
<1>3. (\E d \in OnTag(OfTag) : want[d].name = nameOf[t]) <=> Renamed(c, t)
  BY DEF Renamed
<1>4. w.kind \in OfFeature =>
        (Titled(c) <=>
            /\ w.kind \in {"feature", "retitle"} =>
                  \/ titleOf[w.feature] = c
                  \/ titleOf[w.feature] = Deleted /\ OnFeature({"unfeature"}) # {}
                  \/ titleOf[w.feature] \in OnFeature({"retitle"})
            /\ w.kind = "unfeature" => titleOf[w.feature] = Deleted)
  BY DEF Titled, OfFeature
<1>5. StillSo(c) <=>
        /\ w.kind \in OfTag =>
              /\ <<w.of, t>> \in links \/ \E d \in OnTag({"untag"}) : want[d].of = w.of
              /\ nameOf[t] = w.name \/ \E d \in OnTag(OfTag) : want[d].name = nameOf[t]
        /\ w.kind = "untag" =>
              <<w.of, t>> \notin links \/ \E d \in OnTag(OfTag) : want[d].of = w.of
        /\ w.kind \in {"feature", "retitle"} =>
              \/ titleOf[w.feature] = c
              \/ titleOf[w.feature] = Deleted /\ OnFeature({"unfeature"}) # {}
              \/ titleOf[w.feature] \in OnFeature({"retitle"})
        /\ w.kind = "unfeature" => titleOf[w.feature] = Deleted
  BY DEF StillSo
<1>. QED  BY <1>1, <1>2, <1>3, <1>4, <1>5 DEF Remains, StaysOn, StaysOff, StaysNamed, Linked, OfFeature, OfTag


(***************************************************************************)
(* Steps that commit nothing.                                              *)
(***************************************************************************)

(* Items are not changed once they are brought, nor what a committed call  *)
(* has found.                                                              *)
Frame ==
    \A d \in MergeCalls :
        /\ mergePc[d] # "new" => want'[d] = want[d] /\ mergePc'[d] # "new"
        /\ mergePc[d] \notin {"new", "load"} => sawAt'[d] = sawAt[d]
        /\ Sighted(d)' => Sighted(d) \/ mergePc[d] = "load"
        /\ when[d] > 0 => when'[d] = when[d] /\ found'[d] = found[d]

(* What holds of a call is kept by a step that leaves its property, its    *)
(* names and its feature alone.                                            *)
LEMMA StaysSo ==
    ASSUME RelationTypeOK, ClockInv, Frame, NEW c \in MergeCalls, Sighted(c) \/ when[c] > 0,
           \A d \in MergeCalls : when[d] > 0 => mergePc[d] # "new",
           nameOf' = nameOf, when' = when
    PROVE  /\ want'[c] = want[c] /\ sawAt'[c] = sawAt[c]
           /\ \A d \in MergeCalls : Since(c, d) =>
                 Since(c, d)' /\ want'[d] = want[d] /\ found'[d] = found[d]
           /\ \A t \in TagIds :
                 /\ Taken(c, t) => Taken(c, t)'
                 /\ Given(c, t) => Given(c, t)'
                 /\ Renamed(c, t) => Renamed(c, t)'
<1>1. mergePc[c] \notin {"new", "load"}
  BY DEF ClockInv, Sighted
<1>2. want'[c] = want[c] /\ sawAt'[c] = sawAt[c] /\ sawAt[c] \in Nat
  BY <1>1 DEF Frame, RelationTypeOK
<1>3. ASSUME NEW d \in MergeCalls, Since(c, d)
      PROVE  Since(c, d)' /\ want'[d] = want[d] /\ found'[d] = found[d]
  <2>1. when[d] \in Nat /\ when[d] > sawAt[c] /\ when[d] > 0
    BY <1>2, <1>3 DEF Since, RelationTypeOK
  <2>. QED  BY <1>2, <1>3, <2>1 DEF Since, Frame
<1>4. ASSUME NEW t \in TagIds
      PROVE  /\ Taken(c, t) => Taken(c, t)'
             /\ Given(c, t) => Given(c, t)'
             /\ Renamed(c, t) => Renamed(c, t)'
  BY <1>2, <1>3 DEF Taken, Given, Renamed
<1>. QED  BY <1>2, <1>3, <1>4

(* A step that commits nothing, and where calls come to sight, they see    *)
(* what is there.                                                          *)
Sees(c) ==
    \A t \in TagIds :
        /\ want[c].of \in standing => (t \in sight[c].tags <=> Linked(c, t))
        /\ sight[c].names[t] \in {NoTag, nameOf[t]}
LEMMA QuietKeeps ==
    ASSUME MergeInv, Frame, RelationTypeOK', WantInv', FoundInv', ClockInv', nameOf' = nameOf,
           when' = when, standing' \subseteq standing,
           \A c \in MergeCalls : mergePc[c] # "new" /\ want[c].of \in standing' =>
              /\ \A t \in TagIds : <<want[c].of, t>> \in links' <=> <<want[c].of, t>> \in links
              /\ want[c].kind \in OfFeature => titleOf'[want[c].feature] = titleOf[want[c].feature],
           \A c \in MergeCalls : Sighted(c)' =>
              \/ Sees(c)'
              \/ /\ Sighted(c) /\ sight'[c].tags = sight[c].tags
                 /\ \A t \in TagIds : sight'[c].names[t] \in {sight[c].names[t], nameOf[t]}
    PROVE  MergeInv'
<1>1. RelationTypeOK /\ ClockInv /\ WantInv /\ FoundInv /\ SightInv /\ MergedInv /\ NamesInv
  BY DEF MergeInv
<1>2. \A d \in MergeCalls : when[d] > 0 => mergePc[d] # "new"
  BY <1>1 DEF ClockInv
<1>3. SightInv'
  <2>1. SUFFICES ASSUME NEW c \in MergeCalls, NEW t \in TagIds, Sighted(c)'
                 PROVE  /\ want'[c].of \in standing' =>
                              IF t \in sight'[c].tags THEN StaysOn(c, t)' ELSE StaysOff(c, t)'
                        /\ sight'[c].names[t] # NoTag => StaysNamed(c, t, sight[c].names[t])'
    BY DEF SightInv, TagIds
  <2>2. CASE Sees(c)'
    BY <2>1, <2>2 DEF Sees, StaysOn, StaysOff, StaysNamed, TagIds
  <2>3. CASE /\ Sighted(c) /\ sight'[c].tags = sight[c].tags
             /\ sight'[c].names[t] \in {sight[c].names[t], nameOf[t]}
    <3>1. /\ want'[c] = want[c]
          /\ Taken(c, t) => Taken(c, t)'
          /\ Given(c, t) => Given(c, t)'
          /\ Renamed(c, t) => Renamed(c, t)'
      BY <1>1, <1>2, <2>1, <2>3, StaysSo
    <3>2. mergePc[c] # "new"
      BY <2>3 DEF Sighted
    <3>. QED  BY <1>1, <2>1, <2>3, <3>1, <3>2 DEF SightInv, StaysOn, StaysOff, StaysNamed, Linked
  <2>. QED  BY <2>1, <2>2, <2>3
<1>4. MergedInv'
  <2>1. SUFFICES ASSUME NEW c \in MergeCalls, when'[c] > 0, want'[c].of \in standing'
                 PROVE  Remains(c)'
    BY DEF MergedInv
  <2>2. when[c] > 0 /\ mergePc[c] # "new" /\ found'[c] = found[c]
    BY <1>2, <2>1 DEF Frame
  <2>3. /\ want'[c] = want[c]
        /\ \A d \in MergeCalls : Since(c, d) => Since(c, d)' /\ want'[d] = want[d]
        /\ \A t \in TagIds :
              /\ Taken(c, t) => Taken(c, t)'
              /\ Given(c, t) => Given(c, t)'
              /\ Renamed(c, t) => Renamed(c, t)'
    BY <1>1, <1>2, <2>2, StaysSo
  <2>4. Remains(c) /\ ItemInv(c)
    BY <1>1, <2>1, <2>2, <2>3 DEF MergedInv, WantInv
  <2>5. ASSUME want[c].kind \in OfTag \cup {"untag"}
        PROVE  /\ found[c] \in TagIds
               /\ StaysOn(c, found[c]) => StaysOn(c, found[c])'
               /\ StaysOff(c, found[c]) => StaysOff(c, found[c])'
               /\ StaysNamed(c, found[c], want[c].name) => StaysNamed(c, found[c], want[c].name)'
    <3>1. found[c] \in TagIds
      BY <1>1, <2>2, <2>5 DEF FoundInv
    <3>. QED  BY <2>1, <2>2, <2>3, <3>1 DEF StaysOn, StaysOff, StaysNamed, Linked
  <2>6. ASSUME want[c].kind \in OfFeature
        PROVE  Titled(c) => Titled(c)'
    <3>1. titleOf'[want[c].feature] = titleOf[want[c].feature]
      BY <2>1, <2>2, <2>3, <2>6
    <3>. QED  BY <2>3, <3>1 DEF Titled
  <2>. QED  BY <2>2, <2>3, <2>4, <2>5, <2>6 DEF Remains
<1>. QED  BY <1>1, <1>3, <1>4 DEF MergeInv, NamesInv

(* The tag a new name gets: there is one without a row as long as a name   *)
(* is not taken, since rows have different names.                          *)
LEMMA NextTagIsFree ==
    ASSUME RelationTypeOK, NamesInv, NEW n \in TagNames, Names(n) = {}
    PROVE  NextTag \in TagIds /\ nameOf[NextTag] = NoTag
<1>1. Cardinality(TagNames) \in Nat /\ IsFiniteSet(TagIds) /\ Cardinality(TagIds) = Cardinality(TagNames)
  BY RelationsAssumption, FS_CardinalityType, FS_Interval DEF TagIds
<1>2. TagIds \ Known # {}
  <2>1. SUFFICES ASSUME TagIds \subseteq Known
                 PROVE  FALSE
    OBVIOUS
  <2>2. nameOf \in [TagIds -> TagNames]
    BY <2>1 DEF RelationTypeOK, Known
  <2>3. nameOf \in Injection(TagIds, TagNames)
    BY <2>1, <2>2 DEF Injection, IsInjective, NamesInv, Known
  <2>4. nameOf \in Surjection(TagIds, TagNames)
    BY <1>1, <2>3, RelationsAssumption, FS_Injection
  <2>5. \E t \in TagIds : nameOf[t] = n
    BY <2>4 DEF Surjection
  <2>. QED  BY <2>5 DEF Names
<1>3. \E t \in TagIds \ Known : \A s \in TagIds \ Known : t <= s
  <2>1. TagIds \ Known \in SUBSET Nat
    BY DEF TagIds
  <2>. QED  BY <1>2, <2>1, LeastElement
<1>4. \E t \in TagIds : t \notin Known /\ \A s \in TagIds : s < t => s \in Known
  BY <1>1, <1>3 DEF TagIds
<1>5. NextTag \in TagIds /\ NextTag \notin Known
  BY <1>4 DEF NextTag
<1>. QED  BY <1>5 DEF Known

(* A commit of one call.  Whatever it changes of what holds of another, it *)
(* is the witness of.                                                      *)
Committed(a) ==
    /\ mergePc[a] = "commit" /\ mergePc' = [mergePc EXCEPT ![a] = "refresh"]
    /\ clock' = clock + 1 /\ when' = [when EXCEPT ![a] = clock + 1]
    /\ \A d \in MergeCalls \ {a} : found'[d] = found[d]
    /\ UNCHANGED <<standing, want, sight, sawAt>>
LinksBy(a) ==
    \A p \in Flats, t \in TagIds :
        /\ <<p, t>> \in links' \ links =>
              want[a].kind \in OfTag /\ want[a].of = p /\ found'[a] = t
        /\ <<p, t>> \in links \ links' =>
              want[a].kind = "untag" /\ want[a].of = p /\ found'[a] = t
NamesBy(a) ==
    \A t \in TagIds :
        \/ nameOf'[t] = nameOf[t]
        \/ want[a].kind \in OfTag /\ want[a].name = nameOf'[t] /\ found'[a] = t
TitlesBy(a) ==
    \A f \in Features :
        \/ titleOf'[f] = titleOf[f]
        \/ /\ want[a].feature = f /\ want[a].kind \in OfFeature
           /\ want[a].kind = "unfeature" <=> titleOf'[f] = Deleted
           /\ want[a].kind = "retitle" => titleOf[f] # Deleted /\ titleOf'[f] = a

LEMMA CommitKeeps ==
    ASSUME MergeInv, NEW a \in MergeCalls, Committed(a), LinksBy(a), NamesBy(a), TitlesBy(a),
           RelationTypeOK', NamesInv', FoundInv', want[a].of \in standing => Remains(a)'
    PROVE  MergeInv'
<1>1. /\ RelationTypeOK /\ ClockInv /\ WantInv /\ FoundInv /\ SightInv /\ MergedInv
      /\ when \in [MergeCalls -> Nat] /\ sawAt \in [MergeCalls -> Nat] /\ clock \in Nat
  BY DEF MergeInv, RelationTypeOK
<1>2. /\ when[a] = 0 /\ when'[a] = clock + 1 /\ mergePc'[a] = "refresh" /\ ItemInv(a)
      /\ \A d \in MergeCalls \ {a} : when'[d] = when[d] /\ mergePc'[d] = mergePc[d]
  BY <1>1 DEF Committed, ClockInv, WantInv, RelationTypeOK
<1>3. ClockInv'
  BY <1>1, <1>2 DEF Committed, ClockInv
<1>4. \A d \in MergeCalls : when[d] > 0 => when'[d] > 0
  BY <1>1, <1>2
<1>5. WantInv'
  <2>1. ASSUME NEW c \in MergeCalls, mergePc'[c] # "new"
        PROVE  ItemInv(c)'
    <3>1. ItemInv(c)
      BY <1>1, <1>2, <2>1 DEF WantInv, Committed
    <3>2. \A t \in TagIds : nameOf[t] # NoTag => nameOf'[t] # NoTag
      BY <1>2, RelationsAssumption DEF NamesBy, ItemInv, NoTag
    <3>. QED  BY <1>4, <3>1, <3>2 DEF ItemInv, Committed, Home
  <2>2. ASSUME NEW f \in MergeCalls, titleOf'[f] # Deleted
        PROVE  when'[f] > 0
    <3>1. CASE titleOf[f] # Deleted
      BY <1>1, <1>4, <3>1 DEF WantInv
    <3>2. CASE titleOf[f] = Deleted
      <4>1. f \in Features
        BY DEF Features
      <4>2. want[a].feature = f /\ want[a].kind = "feature"
        BY <2>2, <3>2, <4>1 DEF TitlesBy, OfFeature
      <4>. QED  BY <1>1, <1>2, <4>2 DEF ItemInv
    <3>. QED  BY <3>1, <3>2
  <2>. QED  BY <2>1, <2>2 DEF WantInv
<1>6. ASSUME NEW c \in MergeCalls \ {a}
      PROVE  /\ Since(c, a)'
             /\ \A d \in MergeCalls : Since(c, d) => Since(c, d)' /\ d # a /\ found'[d] = found[d]
  BY <1>1, <1>2 DEF Since, ClockInv, Committed
<1>7. ASSUME NEW c \in MergeCalls \ {a}, NEW t \in TagIds
      PROVE  /\ want[c].of \in Flats /\ StaysOn(c, t) => StaysOn(c, t)'
             /\ want[c].of \in Flats /\ StaysOff(c, t) => StaysOff(c, t)'
             /\ \A n : StaysNamed(c, t, n) => StaysNamed(c, t, n)'
  <2>1. UNCHANGED want
    BY DEF Committed
  <2>2. /\ Taken(c, t) => Taken(c, t)'
        /\ Given(c, t) => Given(c, t)'
        /\ nameOf'[t] = nameOf[t] /\ Renamed(c, t) => Renamed(c, t)'
    BY <1>6, <2>1 DEF Taken, Given, Renamed
  <2>3. nameOf'[t] # nameOf[t] => Renamed(c, t)'
    BY <1>6, <2>1 DEF Renamed, NamesBy
  <2>4. /\ want[c].of \in Flats /\ Linked(c, t) /\ ~Linked(c, t)' => Taken(c, t)'
        /\ want[c].of \in Flats /\ ~Linked(c, t) /\ Linked(c, t)' => Given(c, t)'
    BY <1>6, <2>1 DEF Linked, LinksBy, Taken, Given
  <2>. QED  BY <2>1, <2>2, <2>3, <2>4 DEF StaysOn, StaysOff, StaysNamed
<1>8. SightInv'
  <2>1. SUFFICES ASSUME NEW c \in MergeCalls, NEW t \in TagIds, Sighted(c)'
                 PROVE  /\ want'[c].of \in standing' =>
                              IF t \in sight'[c].tags THEN StaysOn(c, t)' ELSE StaysOff(c, t)'
                        /\ sight'[c].names[t] # NoTag => StaysNamed(c, t, sight[c].names[t])'
    BY DEF SightInv, TagIds
  <2>2. c # a /\ Sighted(c) /\ ItemInv(c)
    BY <1>1, <1>2, <2>1 DEF Sighted, WantInv
  <2>3. want[c].of \in Flats /\ UNCHANGED <<standing, want, sight>>
    BY <2>2 DEF ItemInv, Committed
  <2>. QED  BY <1>1, <1>7, <2>2, <2>3 DEF SightInv, StaysNamed
<1>9. MergedInv'
  <2>1. SUFFICES ASSUME NEW c \in MergeCalls \ {a}, when'[c] > 0, want'[c].of \in standing'
                 PROVE  Remains(c)'
    BY DEF MergedInv, Committed
  <2>2. /\ Remains(c) /\ ItemInv(c) /\ UNCHANGED <<standing, want>>
        /\ want[c].kind \in OfTag \cup {"untag"} => found[c] \in TagIds
        /\ found'[c] = found[c]
    BY <1>1, <1>2, <2>1 DEF MergedInv, WantInv, ClockInv, FoundInv, Committed
  <2>3. want[c].kind \in OfFeature => Titled(c)'
    <3>1. SUFFICES ASSUME want[c].kind \in OfFeature
                   PROVE  Titled(c)'
      OBVIOUS
    <3> DEFINE f == want[c].feature
    <3>2. Titled(c) /\ f \in Features
      BY <2>2, <3>1 DEF Remains, ItemInv
    <3>3. CASE titleOf'[f] = titleOf[f]
      BY <1>6, <2>2, <3>2, <3>3 DEF Titled
    <3>4. CASE titleOf'[f] # titleOf[f]
      <4>1. /\ want[a].feature = f /\ want[a].kind \in OfFeature
            /\ want[a].kind = "unfeature" <=> titleOf'[f] = Deleted
            /\ want[a].kind = "retitle" => titleOf[f] # Deleted /\ titleOf'[f] = a
        BY <3>2, <3>4 DEF TitlesBy
      <4>2. want[a].kind # "feature"
        BY <1>1, <1>2, <2>2, <3>1, <4>1 DEF ItemInv, OfFeature
      <4>3. CASE want[a].kind = "unfeature"
        BY <1>6, <2>2, <4>1, <4>3 DEF Titled
      <4>4. CASE want[a].kind = "retitle"
        <5>1. want[c].kind # "unfeature"
          BY <3>2, <4>1, <4>4 DEF Titled
        <5>. QED  BY <1>6, <2>2, <4>1, <4>4, <5>1 DEF Titled
      <4>. QED  BY <4>1, <4>2, <4>3, <4>4 DEF OfFeature
    <3>. QED  BY <3>3, <3>4
  <2>. QED  BY <1>7, <2>2, <2>3 DEF Remains, ItemInv
<1>. QED  BY <1>3, <1>5, <1>8, <1>9 DEF MergeInv

(***************************************************************************)
(* The steps.                                                              *)
(***************************************************************************)
(* The items of Wants, each by its kind.                                   *)
NamedItem(p, n) == [[NoWant EXCEPT !.of = p] EXCEPT !.kind = "tag", !.name = n]
RenamedItem(p, t, n) == [[NoWant EXCEPT !.of = p] EXCEPT !.kind = "retag", !.tag = t, !.name = n]
UntagItem(p, t) == [[NoWant EXCEPT !.of = p] EXCEPT !.kind = "untag", !.tag = t]
FeatureItem(p, k, f) == [[NoWant EXCEPT !.of = p] EXCEPT !.kind = k, !.feature = f]
LEMMA WantsAre ==
    ASSUME NEW p
    PROVE  Wants(p) =
              {NamedItem(p, n) : n \in TagNames}
              \cup {RenamedItem(p, t, n) : t \in Known, n \in TagNames}
              \cup {UntagItem(p, t) : t \in TagsOf(p)}
              \cup {FeatureItem(p, k, f) : k \in {"retitle", "unfeature"}, f \in FeaturesOf(p)}
BY DEF Wants, NamedItem, RenamedItem, UntagItem, FeatureItem

LEMMA BringSteps ==
    ASSUME MergeInv, NEW c \in MergeCalls, Brings(c)
    PROVE  MergeInv'
<1>1. RelationTypeOK /\ ClockInv /\ WantInv /\ FoundInv
  BY DEF MergeInv
<1>2. PICK p \in standing :
        \E w \in Wants(p) \cup {[NoWant EXCEPT !.kind = "feature", !.of = p, !.feature = c]} :
           want' = [want EXCEPT ![c] = w]
  BY DEF Brings
<1>3. PICK w \in Wants(p) \cup {[NoWant EXCEPT !.kind = "feature", !.of = p, !.feature = c]} :
        want' = [want EXCEPT ![c] = w]
  BY <1>2
<1>4. /\ mergePc[c] = "new" /\ mergePc' = [mergePc EXCEPT ![c] = "load"]
      /\ UNCHANGED <<standing, nameOf, links, titleOf, sight, found, clock, sawAt, when>>
      /\ when[c] = 0 /\ p \in Flats
  BY <1>1 DEF Brings, MergeGoes, ClockInv, RelationTypeOK
<1>5. /\ w \in Items /\ w.of = p /\ w.kind # "none"
      /\ w.kind \in OfTag => w.name \in TagNames
      /\ w.kind = "retag" => w.tag \in TagIds /\ nameOf[w.tag] # NoTag
      /\ w.kind = "untag" => w.tag \in TagIds
      /\ w.kind = "feature" => w.feature = c
      /\ w.kind \in {"retitle", "unfeature"} => w.feature \in FeaturesOf(p)
  <2>1. CASE w = [NoWant EXCEPT !.kind = "feature", !.of = p, !.feature = c]
    BY <1>4, <2>1 DEF NoWant, Items, OfTag, OfFeature, Features
  <2>2. ASSUME NEW n \in TagNames, w = [[NoWant EXCEPT !.of = p] EXCEPT !.kind = "tag", !.name = n]
        PROVE  w \in Items /\ w.of = p /\ w.kind = "tag" /\ w.name \in TagNames
    BY <1>4, <2>2 DEF NoWant, Items, OfTag
  <2>3. ASSUME NEW t \in Known, NEW n \in TagNames,
               w = [[NoWant EXCEPT !.of = p] EXCEPT !.kind = "retag", !.tag = t, !.name = n]
        PROVE  /\ w \in Items /\ w.of = p /\ w.kind = "retag" /\ w.name \in TagNames
               /\ w.tag \in TagIds /\ nameOf[w.tag] # NoTag
    BY <1>4, <2>3 DEF NoWant, Items, OfTag, Known
  <2>4. ASSUME NEW t \in TagsOf(p), w = [[NoWant EXCEPT !.of = p] EXCEPT !.kind = "untag", !.tag = t]
        PROVE  w \in Items /\ w.of = p /\ w.kind = "untag" /\ w.tag \in TagIds
    BY <1>4, <2>4 DEF NoWant, Items, TagsOf
  <2>5. ASSUME NEW k \in {"retitle", "unfeature"}, NEW f \in FeaturesOf(p),
               w = [[NoWant EXCEPT !.of = p] EXCEPT !.kind = k, !.feature = f]
        PROVE  w \in Items /\ w.of = p /\ w.kind = k /\ w.feature = f
    BY <1>4, <2>5 DEF NoWant, Items, OfFeature, FeaturesOf
  <2>6. \/ w = [NoWant EXCEPT !.kind = "feature", !.of = p, !.feature = c]
        \/ \E n \in TagNames : w = [[NoWant EXCEPT !.of = p] EXCEPT !.kind = "tag", !.name = n]
        \/ \E t \in Known, n \in TagNames :
              w = [[NoWant EXCEPT !.of = p] EXCEPT !.kind = "retag", !.tag = t, !.name = n]
        \/ \E t \in TagsOf(p) : w = [[NoWant EXCEPT !.of = p] EXCEPT !.kind = "untag", !.tag = t]
        \/ \E k \in {"retitle", "unfeature"}, f \in FeaturesOf(p) :
              w = [[NoWant EXCEPT !.of = p] EXCEPT !.kind = k, !.feature = f]
    <3>1. \/ w = [NoWant EXCEPT !.kind = "feature", !.of = p, !.feature = c]
          \/ \E n \in TagNames : w = NamedItem(p, n)
          \/ \E t \in Known, n \in TagNames : w = RenamedItem(p, t, n)
          \/ \E t \in TagsOf(p) : w = UntagItem(p, t)
          \/ \E k \in {"retitle", "unfeature"}, f \in FeaturesOf(p) : w = FeatureItem(p, k, f)
      BY <1>3, WantsAre
    <3>. QED  BY <3>1 DEF NamedItem, RenamedItem, UntagItem, FeatureItem
  <2>7. CASE \E n \in TagNames : w = [[NoWant EXCEPT !.of = p] EXCEPT !.kind = "tag", !.name = n]
    BY <2>2, <2>7 DEF OfTag
  <2>8. CASE \E t \in Known, n \in TagNames :
               w = [[NoWant EXCEPT !.of = p] EXCEPT !.kind = "retag", !.tag = t, !.name = n]
    BY <2>3, <2>8 DEF OfTag
  <2>9. CASE \E t \in TagsOf(p) : w = [[NoWant EXCEPT !.of = p] EXCEPT !.kind = "untag", !.tag = t]
    BY <2>4, <2>9 DEF OfTag
  <2>10. CASE \E k \in {"retitle", "unfeature"}, f \in FeaturesOf(p) :
                w = [[NoWant EXCEPT !.of = p] EXCEPT !.kind = k, !.feature = f]
    BY <2>5, <2>10 DEF OfTag
  <2>. QED  BY <2>1, <2>6, <2>7, <2>8, <2>9, <2>10
<1>6. RelationTypeOK'
  BY <1>1, <1>3, <1>4, <1>5 DEF RelationTypeOK
<1>7. want'[c] = w /\ \A d \in MergeCalls \ {c} : want'[d] = want[d] /\ mergePc'[d] = mergePc[d]
  BY <1>1, <1>3, <1>4 DEF RelationTypeOK
<1>8. ClockInv' /\ FoundInv'
  BY <1>1, <1>4, <1>7 DEF ClockInv, FoundInv, RelationTypeOK
<1>9. WantInv'
  <2>1. ItemInv(c)'
    <3>1. CASE w.kind \in {"retitle", "unfeature"}
      <4>1. /\ w.feature \in Features /\ titleOf[w.feature] # Deleted
            /\ Home(w.feature) = p
        BY <1>5, <3>1 DEF FeaturesOf
      <4>2. w.feature # c
        BY <1>1, <1>4, <4>1 DEF WantInv
      <4>3. w.feature \in MergeCalls => when[w.feature] > 0
        BY <1>1, <4>1 DEF WantInv
      <4>4. Home(w.feature)' = p
        BY <1>7, <4>1, <4>2 DEF Home, Features
      <4>. QED  BY <1>4, <1>5, <1>7, <3>1, <4>1, <4>2, <4>3, <4>4 DEF ItemInv, OfTag
    <3>2. CASE w.kind = "feature"
      <4>1. c \in Features /\ c \notin Flats
        BY RelationsAssumption DEF Features
      <4>2. Home(c)' = p
        BY <1>5, <1>7, <4>1 DEF Home
      <4>. QED  BY <1>4, <1>5, <1>7, <3>2, <4>1, <4>2 DEF ItemInv, OfTag
    <3>3. CASE w.kind \in OfTag \cup {"untag"}
      BY <1>4, <1>5, <1>7, <3>3 DEF ItemInv, OfTag, OfFeature
    <3>. QED  BY <1>5, <3>1, <3>2, <3>3 DEF Items, OfFeature
  <2>2. ASSUME NEW d \in MergeCalls \ {c}, mergePc'[d] # "new"
        PROVE  ItemInv(d)'
    <3>1. ItemInv(d)
      BY <1>1, <1>7, <2>2 DEF WantInv
    <3>2. want[d].kind \in OfFeature => Home(want[d].feature)' = Home(want[d].feature)
      BY <1>1, <1>4, <1>7, <2>2, <3>1 DEF Home, ItemInv, OfFeature, Features
    <3>. QED  BY <1>4, <1>7, <3>1, <3>2 DEF ItemInv
  <2>. QED  BY <1>1, <1>4, <2>1, <2>2 DEF WantInv
<1>10. Frame
  BY <1>4, <1>7 DEF Frame, Sighted
<1>. QED  BY <1>4, <1>6, <1>7, <1>8, <1>9, <1>10, QuietKeeps DEF Sighted

LEMMA LoadSteps ==
    ASSUME MergeInv, NEW c \in MergeCalls, MergeLoads(c)
    PROVE  MergeInv'
<1>1. RelationTypeOK /\ ClockInv /\ WantInv /\ FoundInv
  BY DEF MergeInv
<1>2. /\ mergePc[c] = "load"
      /\ UNCHANGED <<standing, nameOf, links, titleOf, want, found, clock, when>>
      /\ \A d \in MergeCalls \ {c} : mergePc'[d] = mergePc[d] /\ sight'[d] = sight[d] /\ sawAt'[d] = sawAt[d]
  BY <1>1 DEF MergeLoads, MergeGoes, RelationTypeOK
<1>3. \/ /\ want[c].of \in standing /\ mergePc' = [mergePc EXCEPT ![c] = "find"]
         /\ sight'[c] = [tags |-> TagsOf(want[c].of),
                         names |-> [t \in TagIds |-> IF t \in TagsOf(want[c].of) THEN nameOf[t] ELSE NoTag]]
         /\ sawAt' = [sawAt EXCEPT ![c] = clock]
      \/ mergePc' = [mergePc EXCEPT ![c] = "500"] /\ UNCHANGED <<sight, sawAt>>
  BY <1>1 DEF MergeLoads, MergeGoes, RelationTypeOK
<1>4. RelationTypeOK'
  <2>1. TagsOf(want[c].of) \in SUBSET TagIds
    BY DEF TagsOf
  <2>2. [t \in TagIds |-> IF t \in TagsOf(want[c].of) THEN nameOf[t] ELSE NoTag]
          \in [TagIds -> TagNames \cup {NoTag}]
    BY <1>1 DEF RelationTypeOK
  <2>3. sight' \in [MergeCalls -> [tags : SUBSET TagIds, names : [TagIds -> TagNames \cup {NoTag}]]]
    BY <1>1, <2>1, <2>2 DEF MergeLoads, RelationTypeOK
  <2>4. sawAt' \in [MergeCalls -> Nat]
    BY <1>1, <1>3 DEF RelationTypeOK
  <2>5. mergePc' \in [MergeCalls -> {"new", "load", "find", "commit", "refresh", "200", "500"}]
    BY <1>1, <1>3 DEF RelationTypeOK
  <2>. QED  BY <1>1, <1>2, <2>3, <2>4, <2>5 DEF RelationTypeOK
<1>5. ClockInv' /\ FoundInv' /\ WantInv'
  <2>1. mergePc'[c] \in {"find", "500"} /\ (sawAt'[c] = clock \/ sawAt'[c] = sawAt[c]) /\ when[c] = 0
    BY <1>1, <1>2, <1>3 DEF RelationTypeOK, ClockInv
  <2>2. ClockInv'
    BY <1>1, <1>2, <2>1 DEF ClockInv, RelationTypeOK
  <2>3. FoundInv'
    BY <1>1, <1>2, <2>1 DEF FoundInv
  <2>4. WantInv'
    BY <1>1, <1>2, <2>1 DEF WantInv, ItemInv, Home
  <2>. QED  BY <2>2, <2>3, <2>4
<1>6. Frame
  BY <1>1, <1>2, <1>3 DEF Frame, RelationTypeOK, Sighted
<1>7. Sighted(c)' => Sees(c)'
  BY <1>1, <1>2, <1>3 DEF Sighted, Sees, RelationTypeOK, TagsOf, Linked
<1>8. \A d \in MergeCalls \ {c} : Sighted(d)' => Sighted(d)
  BY <1>2 DEF Sighted
<1>. QED  BY <1>2, <1>4, <1>5, <1>6, <1>7, <1>8, QuietKeeps

LEMMA FindSteps ==
    ASSUME MergeInv, NEW c \in MergeCalls, MergeFinds(c)
    PROVE  MergeInv'
<1> DEFINE w == want[c]
           named == {t \in TagIds : nameOf[t] = w.name}
<1>1. RelationTypeOK /\ ClockInv /\ WantInv /\ FoundInv /\ when[c] = 0 /\ ItemInv(c)
  BY DEF MergeInv, MergeFinds, ClockInv, WantInv
<1>2. /\ mergePc[c] = "find"
      /\ UNCHANGED <<standing, nameOf, links, titleOf, want, clock, sawAt, when>>
  BY DEF MergeFinds
<1>3. \/ mergePc' = [mergePc EXCEPT ![c] = "500"] /\ UNCHANGED <<sight, found>>
      \/ /\ mergePc' = [mergePc EXCEPT ![c] = "commit"]
         /\ \E t \in IF w.kind # "tag" THEN {w.tag} ELSE IF named = {} THEN {NoTag} ELSE named :
               /\ found' = [found EXCEPT ![c] = t]
               /\ IF t = NoTag \/ sight[c].names[t] # NoTag THEN UNCHANGED sight
                  ELSE sight' = [sight EXCEPT ![c].names[t] = nameOf[t]]
  BY DEF MergeFinds, MergeGoes
<1>4. CASE mergePc' = [mergePc EXCEPT ![c] = "500"] /\ UNCHANGED <<sight, found>>
  <2>1. /\ mergePc'[c] = "500"
        /\ \A d \in MergeCalls \ {c} : mergePc'[d] = mergePc[d]
    BY <1>1, <1>4 DEF RelationTypeOK
  <2>2. RelationTypeOK'
    BY <1>1, <1>2, <1>4 DEF RelationTypeOK
  <2>3. ClockInv' /\ FoundInv' /\ WantInv'
    BY <1>1, <1>2, <1>4, <2>1 DEF ClockInv, FoundInv, WantInv, ItemInv, Home
  <2>4. Frame
    BY <1>2, <1>4, <2>1 DEF Frame, Sighted
  <2>. QED  BY <1>2, <1>4, <2>1, <2>2, <2>3, <2>4, QuietKeeps DEF Sighted
<1>5. ASSUME mergePc' = [mergePc EXCEPT ![c] = "commit"],
             NEW t \in IF w.kind # "tag" THEN {w.tag} ELSE IF named = {} THEN {NoTag} ELSE named,
             found' = [found EXCEPT ![c] = t],
             IF t = NoTag \/ sight[c].names[t] # NoTag THEN UNCHANGED sight
             ELSE sight' = [sight EXCEPT ![c].names[t] = nameOf[t]]
      PROVE  MergeInv'
  <2>1. /\ mergePc'[c] = "commit" /\ found'[c] = t
        /\ \A d \in MergeCalls \ {c} : mergePc'[d] = mergePc[d] /\ found'[d] = found[d] /\ sight'[d] = sight[d]
    BY <1>1, <1>5 DEF RelationTypeOK
  <2>2. t \in TagIds \cup {NoTag} /\ (w.kind # "tag" => t = w.tag)
    BY <1>1, <1>5 DEF RelationTypeOK, Items
  <2>3. w.kind \in OfTag /\ t # NoTag => t \in TagIds /\ nameOf[t] # NoTag
    BY <1>1, <1>5, <2>2, RelationsAssumption DEF ItemInv, OfTag, NoTag
  <2>4. /\ sight'[c].tags = sight[c].tags
        /\ \A s \in TagIds : sight'[c].names[s] \in {sight[c].names[s], nameOf[s]}
        /\ t # NoTag => sight'[c].names[t] \in {sight[c].names[t], nameOf[t]}
                        /\ (sight[c].names[t] # NoTag => sight'[c].names[t] = sight[c].names[t])
                        /\ (sight[c].names[t] = NoTag => sight'[c].names[t] = nameOf[t])
    BY <1>1, <1>5, <2>2 DEF RelationTypeOK
  <2>5. RelationTypeOK'
    <3>1. sight' \in [MergeCalls -> [tags : SUBSET TagIds, names : [TagIds -> TagNames \cup {NoTag}]]]
      <4>1. CASE t = NoTag \/ sight[c].names[t] # NoTag
        BY <1>1, <1>5, <4>1 DEF RelationTypeOK
      <4>2. CASE ~(t = NoTag \/ sight[c].names[t] # NoTag)
        <5>1. t \in TagIds /\ nameOf[t] \in TagNames \cup {NoTag}
          BY <1>1, <2>2, <4>2 DEF RelationTypeOK
        <5>2. sight[c] \in [tags : SUBSET TagIds, names : [TagIds -> TagNames \cup {NoTag}]]
          BY <1>1 DEF RelationTypeOK
        <5>3. [sight[c] EXCEPT !.names[t] = nameOf[t]]
                \in [tags : SUBSET TagIds, names : [TagIds -> TagNames \cup {NoTag}]]
          BY <5>1, <5>2
        <5>4. sight' = [sight EXCEPT ![c] = [sight[c] EXCEPT !.names[t] = nameOf[t]]]
          BY <1>1, <1>5, <4>2 DEF RelationTypeOK
        <5>. QED  BY <1>1, <5>3, <5>4 DEF RelationTypeOK
      <4>. QED  BY <4>1, <4>2
    <3>. QED  BY <1>1, <1>2, <1>5, <2>2, <3>1 DEF RelationTypeOK
  <2>6. ClockInv' /\ WantInv'
    BY <1>1, <1>2, <2>1 DEF ClockInv, WantInv, ItemInv, Home
  <2>7. FoundInv'
    BY <1>1, <1>2, <2>1, <2>2, <2>3, <2>4 DEF FoundInv
  <2>8. Frame
    BY <1>1, <1>2, <2>1 DEF Frame, Sighted
  <2>. QED  BY <1>2, <2>1, <2>4, <2>5, <2>6, <2>7, <2>8, QuietKeeps DEF Sighted
<1>. QED  BY <1>3, <1>4, <1>5

(* What a call does when it ends: a refusal, or the refresh.               *)
LEMMA EndSteps ==
    ASSUME MergeInv, NEW c \in MergeCalls, mergePc[c] \in {"commit", "refresh"},
           mergePc' \in {[mergePc EXCEPT ![c] = "200"], [mergePc EXCEPT ![c] = "500"]},
           UNCHANGED <<standing, nameOf, links, titleOf, want, sight, found, clock, sawAt, when>>
    PROVE  MergeInv'
<1>1. RelationTypeOK /\ ClockInv /\ WantInv /\ FoundInv
  BY DEF MergeInv
<1>2. /\ mergePc'[c] \in {"200", "500"}
      /\ \A d \in MergeCalls \ {c} : mergePc'[d] = mergePc[d]
  BY <1>1 DEF RelationTypeOK
<1>3. RelationTypeOK'
  BY <1>1 DEF RelationTypeOK
<1>4. ClockInv' /\ FoundInv' /\ WantInv'
  BY <1>1, <1>2 DEF ClockInv, FoundInv, WantInv, ItemInv, Home
<1>5. Frame
  BY <1>2 DEF Frame, Sighted
<1>. QED  BY <1>2, <1>3, <1>4, <1>5, QuietKeeps DEF Sighted

LEMMA GoneSteps ==
    ASSUME MergeInv, NEW p \in Flats, FlatGoes(p)
    PROVE  MergeInv'
<1>1. RelationTypeOK /\ ClockInv /\ WantInv /\ FoundInv
  BY DEF MergeInv
<1>2. /\ standing' = standing \ {p} /\ links' = {l \in links : l[1] # p}
      /\ titleOf' = [f \in Features |-> IF Home(f) = p THEN Deleted ELSE titleOf[f]]
      /\ UNCHANGED <<nameOf, mergePc, want, sight, found, clock, sawAt, when>>
  BY DEF FlatGoes
<1>3. RelationTypeOK'
  BY <1>1, <1>2 DEF RelationTypeOK
<1>4. ClockInv' /\ FoundInv'
  BY <1>1, <1>2 DEF ClockInv, FoundInv
<1>5. WantInv'
  BY <1>1, <1>2 DEF WantInv, ItemInv, Home, Features
<1>6. Frame
  BY <1>2 DEF Frame, Sighted
<1>7. ASSUME NEW c \in MergeCalls, mergePc[c] # "new", want[c].of \in standing'
      PROVE  /\ \A t \in TagIds : <<want[c].of, t>> \in links' <=> <<want[c].of, t>> \in links
             /\ want[c].kind \in OfFeature => titleOf'[want[c].feature] = titleOf[want[c].feature]
  <2>1. want[c].of # p /\ ItemInv(c)
    BY <1>1, <1>2, <1>7 DEF WantInv
  <2>. QED  BY <1>2, <2>1 DEF ItemInv
<1>. QED  BY <1>2, <1>3, <1>4, <1>5, <1>6, <1>7, QuietKeeps DEF Sighted

LEMMA TagSteps ==
    ASSUME MergeInv, NEW c \in MergeCalls, TagCommits(c)
    PROVE  MergeInv'
<1> DEFINE w == want[c]
           new == found[c] = NoTag
           link == new \/ found[c] \notin sight[c].tags
           rename == ~new /\ sight[c].names[found[c]] # w.name
           refused ==
               \/ new /\ Names(w.name) # {}
               \/ rename /\ Names(w.name) \ {found[c]} # {}
               \/ link /\ (w.of \notin standing \/ <<w.of, found[c]>> \in links)
           t == IF new THEN NextTag ELSE found[c]
<1>1. RelationTypeOK /\ ClockInv /\ WantInv /\ FoundInv /\ NamesInv /\ SightInv
  BY DEF MergeInv
<1>2. /\ mergePc[c] = "commit" /\ w.kind \in OfTag /\ UNCHANGED <<standing, want, sight, sawAt>>
      /\ IF refused THEN Raises(c)
         ELSE /\ links' = IF link THEN links \cup {<<w.of, t>>} ELSE links
              /\ nameOf' = IF new \/ rename THEN [nameOf EXCEPT ![t] = w.name] ELSE nameOf
              /\ found' = [found EXCEPT ![c] = t]
              /\ Commits(c) /\ UNCHANGED titleOf
  BY DEF TagCommits
<1>3. CASE refused
  BY <1>2, <1>3, EndSteps DEF Raises, MergeGoes
<1>4. CASE ~refused
  <2>1. /\ links' = IF link THEN links \cup {<<w.of, t>>} ELSE links
        /\ nameOf' = IF new \/ rename THEN [nameOf EXCEPT ![t] = w.name] ELSE nameOf
        /\ found' = [found EXCEPT ![c] = t]
        /\ clock' = clock + 1 /\ when' = [when EXCEPT ![c] = clock + 1]
        /\ mergePc' = [mergePc EXCEPT ![c] = "refresh"]
        /\ titleOf' = titleOf
    BY <1>2, <1>4 DEF Commits, MergeGoes
  <2>2. w.name \in TagNames /\ w.name # NoTag /\ w.of \in Flats /\ when[c] = 0
    BY <1>1, <1>2, RelationsAssumption DEF WantInv, ItemInv, ClockInv, NoTag
  <2>3. t \in TagIds /\ (new => nameOf[t] = NoTag /\ Names(w.name) = {})
    <3>1. CASE new
      BY <1>1, <1>4, <2>2, <3>1, NextTagIsFree
    <3>2. CASE ~new
      BY <1>1, <3>2 DEF RelationTypeOK
    <3>. QED  BY <3>1, <3>2
  <2>4. (new \/ rename) => Names(w.name) \subseteq {t}
    BY <1>4, <2>3
  <2>5. link => w.of \in standing
    BY <1>4
  <2> HIDE DEF t, link, rename, refused
  <2>6. /\ found'[c] = t /\ \A d \in MergeCalls \ {c} : found'[d] = found[d]
        /\ when'[c] = clock + 1 /\ \A d \in MergeCalls \ {c} : when'[d] = when[d]
        /\ mergePc'[c] = "refresh" /\ \A d \in MergeCalls \ {c} : mergePc'[d] = mergePc[d]
    BY <1>1, <2>1 DEF RelationTypeOK
  <2>7. RelationTypeOK'
    BY <1>1, <1>2, <2>1, <2>2, <2>3 DEF RelationTypeOK, Links
  <2>8. \A s \in TagIds :
           /\ s # t => nameOf'[s] = nameOf[s]
           /\ new \/ rename => nameOf'[t] = w.name
           /\ ~(new \/ rename) => nameOf'[s] = nameOf[s]
    BY <1>1, <2>1, <2>3 DEF RelationTypeOK
  <2>9. NamesInv'
    <3>1. SUFFICES ASSUME NEW r \in TagIds, NEW s \in TagIds, nameOf'[r] = nameOf'[s],
                          nameOf'[r] # NoTag
                   PROVE  r = s
      BY DEF NamesInv, TagIds
    <3>2. \A q \in TagIds : nameOf[q] = w.name /\ (new \/ rename) => q = t
      BY <2>4 DEF Names
    <3>. QED  BY <1>1, <2>3, <2>8, <3>1, <3>2 DEF NamesInv
  <2>10. FoundInv'
    <3>1. w.kind # "tag" => t = w.tag
      <4>1. SUFFICES ASSUME w.kind = "retag"
                     PROVE  t = w.tag
        BY <1>2 DEF OfTag
      <4>2. found[c] = w.tag /\ w.tag \in TagIds
        BY <1>1, <1>2, <4>1 DEF FoundInv, WantInv, ItemInv
      <4>3. NoTag \notin TagIds
        BY DEF NoTag, TagIds
      <4>. QED  BY <4>2, <4>3 DEF t
    <3>. QED  BY <1>1, <1>2, <2>3, <2>6, <3>1 DEF FoundInv
  <2>11. Committed(c)
    BY <1>2, <2>1, <2>6 DEF Committed
  <2>12. LinksBy(c) /\ NamesBy(c) /\ TitlesBy(c)
    BY <1>2, <2>1, <2>3, <2>6, <2>8 DEF LinksBy, NamesBy, TitlesBy
  <2>13. ASSUME NEW d \in MergeCalls, Since(c, d)
         PROVE  Since(c, d)' /\ found'[d] = found[d] /\ want'[d] = want[d]
    BY <1>2, <2>6, <2>13 DEF Since
  <2>14. PICK x \in TagIds : x = t
    BY <2>3
  <2>15. w.of \in standing => StaysOn(c, x)'
    <3>1. CASE link
      <4>1. <<w.of, x>> \in links'
        BY <2>1, <2>14, <3>1
      <4>. QED  BY <1>2, <4>1 DEF StaysOn, Linked
    <3>2. CASE ~link
      <4>1. x = found[c] /\ x \in sight[c].tags
        BY <2>14, <3>2 DEF link, t
      <4>2. w.of \in standing => StaysOn(c, x)
        BY <1>1, <1>2, <4>1 DEF SightInv, Sighted
      <4>3. links' = links /\ want' = want
        BY <1>2, <2>1, <3>2
      <4>4. Taken(c, x) => Taken(c, x)'
        BY <2>13, <4>3 DEF Taken
      <4>. QED  BY <4>2, <4>3, <4>4 DEF StaysOn, Linked
    <3>. QED  BY <3>1, <3>2
  <2>16. StaysNamed(c, x, want[c].name)'
    <3>1. CASE new \/ rename
      <4>1. nameOf'[x] = want'[c].name
        BY <1>2, <2>8, <2>14, <3>1
      <4>. QED  BY <4>1 DEF StaysNamed
    <3>2. CASE ~(new \/ rename)
      <4>1. x = found[c] /\ sight[c].names[x] = w.name
        BY <2>14, <3>2 DEF t, rename
      <4>2. StaysNamed(c, x, w.name)
        BY <1>1, <1>2, <2>2, <4>1 DEF SightInv, Sighted
      <4>3. nameOf'[x] = nameOf[x] /\ want' = want
        BY <1>2, <2>8, <2>14, <3>2
      <4>4. Renamed(c, x) => Renamed(c, x)'
        BY <2>13, <4>3 DEF Renamed
      <4>. QED  BY <4>2, <4>3, <4>4 DEF StaysNamed
    <3>. QED  BY <3>1, <3>2
  <2>17. want[c].of \in standing => Remains(c)'
    <3>1. found'[c] = x /\ want'[c] = want[c]
      BY <1>2, <2>6, <2>14
    <3>. QED  BY <1>2, <2>15, <2>16, <3>1 DEF Remains, OfTag, OfFeature
  <2>. QED  BY <2>7, <2>9, <2>10, <2>11, <2>12, <2>17, CommitKeeps
<1>. QED  BY <1>3, <1>4

LEMMA UntagSteps ==
    ASSUME MergeInv, NEW c \in MergeCalls, UntagCommits(c)
    PROVE  MergeInv'
<1> DEFINE w == want[c]
<1>1. RelationTypeOK /\ ClockInv /\ WantInv /\ FoundInv /\ NamesInv /\ SightInv
  BY DEF MergeInv
<1>2. mergePc[c] = "commit" /\ w.kind = "untag" /\ UNCHANGED <<standing, want, sight, sawAt>>
  BY DEF UntagCommits
<1>3. found[c] = w.tag /\ w.tag \in TagIds /\ w.of \in Flats
  BY <1>1, <1>2 DEF FoundInv, WantInv, ItemInv
<1>4. CASE Raises(c)
  BY <1>2, <1>4, EndSteps DEF Raises, MergeGoes
<1>5. CASE /\ links' = IF w.tag \in sight[c].tags THEN links \ {<<w.of, w.tag>>} ELSE links
           /\ Commits(c) /\ UNCHANGED <<nameOf, titleOf, found>>
  <2>1. /\ clock' = clock + 1 /\ when' = [when EXCEPT ![c] = clock + 1]
        /\ mergePc' = [mergePc EXCEPT ![c] = "refresh"]
        /\ UNCHANGED <<nameOf, titleOf, found>>
    BY <1>5 DEF Commits, MergeGoes
  <2>2. /\ when'[c] = clock + 1 /\ \A d \in MergeCalls \ {c} : when'[d] = when[d]
        /\ mergePc'[c] = "refresh" /\ \A d \in MergeCalls \ {c} : mergePc'[d] = mergePc[d]
        /\ when[c] = 0
    BY <1>1, <1>2, <2>1 DEF RelationTypeOK, ClockInv
  <2>3. RelationTypeOK'
    BY <1>1, <1>2, <1>5, <2>1 DEF RelationTypeOK
  <2>4. NamesInv' /\ FoundInv'
    BY <1>1, <1>2, <1>3, <2>1, <2>2 DEF NamesInv, FoundInv, OfTag
  <2>5. Committed(c) /\ LinksBy(c) /\ NamesBy(c) /\ TitlesBy(c)
    BY <1>2, <1>3, <1>5, <2>1 DEF Committed, LinksBy, NamesBy, TitlesBy
  <2>6. w.of \in standing => Remains(c)'
    <3>1. SUFFICES ASSUME w.of \in standing
                   PROVE  StaysOff(c, w.tag)'
      BY <1>2, <1>3, <2>1 DEF Remains, OfTag, OfFeature
    <3>2. CASE w.tag \in sight[c].tags
      <4>1. <<w.of, w.tag>> \notin links'
        BY <1>5, <3>2
      <4>. QED  BY <1>2, <4>1 DEF StaysOff, Linked
    <3>3. CASE w.tag \notin sight[c].tags
      <4>1. StaysOff(c, w.tag)
        BY <1>1, <1>2, <1>3, <3>1, <3>3 DEF SightInv, Sighted
      <4>2. links' = links
        BY <1>5, <3>3
      <4>3. ASSUME NEW d \in MergeCalls, Since(c, d)
            PROVE  Since(c, d)'
        BY <1>2, <2>2, <4>3 DEF Since
      <4>4. Given(c, w.tag) => Given(c, w.tag)'
        BY <1>2, <2>1, <4>3 DEF Given
      <4>. QED  BY <1>2, <4>1, <4>2, <4>4 DEF StaysOff, Linked
    <3>. QED  BY <3>2, <3>3
  <2>. QED  BY <2>3, <2>4, <2>5, <2>6, CommitKeeps
<1>. QED  BY <1>4, <1>5 DEF UntagCommits

LEMMA FeatureSteps ==
    ASSUME MergeInv, NEW c \in MergeCalls, FeatureCommits(c)
    PROVE  MergeInv'
<1> DEFINE w == want[c]
           title == IF w.kind = "unfeature" THEN Deleted ELSE c
           refused ==
               \/ w.kind = "feature" /\ w.of \notin standing
               \/ w.kind = "retitle" /\ titleOf[w.feature] = Deleted
<1>1. RelationTypeOK /\ ClockInv /\ WantInv /\ FoundInv /\ NamesInv /\ SightInv
  BY DEF MergeInv
<1>2. /\ mergePc[c] = "commit" /\ w.kind \in OfFeature /\ UNCHANGED <<standing, want, sight, sawAt>>
      /\ IF refused THEN Raises(c)
         ELSE /\ titleOf' = [titleOf EXCEPT ![w.feature] = title]
              /\ Commits(c) /\ UNCHANGED <<nameOf, links, found>>
  BY DEF FeatureCommits
<1>3. CASE refused
  BY <1>2, <1>3, EndSteps DEF Raises, MergeGoes
<1>4. CASE ~refused
  <2>1. /\ clock' = clock + 1 /\ when' = [when EXCEPT ![c] = clock + 1]
        /\ mergePc' = [mergePc EXCEPT ![c] = "refresh"]
        /\ titleOf' = [titleOf EXCEPT ![w.feature] = title]
        /\ UNCHANGED <<nameOf, links, found>>
    BY <1>2, <1>4 DEF Commits, MergeGoes
  <2>2. /\ when'[c] = clock + 1 /\ \A d \in MergeCalls \ {c} : when'[d] = when[d]
        /\ mergePc'[c] = "refresh" /\ \A d \in MergeCalls \ {c} : mergePc'[d] = mergePc[d]
        /\ when[c] = 0
    BY <1>1, <1>2, <2>1 DEF RelationTypeOK, ClockInv
  <2>3. w.feature \in Features /\ c # Deleted
    BY <1>1, <1>2, TitlesAssumption DEF WantInv, ItemInv
  <2>4. RelationTypeOK'
    <3>1. title \in MergeCalls \cup {First, Deleted}
      OBVIOUS
    <3> HIDE DEF title
    <3>2. titleOf' \in [Features -> MergeCalls \cup {First, Deleted}]
      BY <1>1, <2>1, <3>1 DEF RelationTypeOK
    <3>. QED  BY <1>1, <1>2, <2>1, <3>2 DEF RelationTypeOK
  <2>5. NamesInv' /\ FoundInv'
    BY <1>1, <1>2, <2>1, <2>2 DEF NamesInv, FoundInv, OfTag, OfFeature
  <2>6. titleOf'[w.feature] = title /\ \A f \in Features \ {w.feature} : titleOf'[f] = titleOf[f]
    BY <1>1, <2>1, <2>3 DEF RelationTypeOK
  <2>7. Committed(c) /\ LinksBy(c) /\ NamesBy(c)
    BY <1>2, <2>1 DEF Committed, LinksBy, NamesBy
  <2>8. TitlesBy(c)
    BY <1>2, <1>4, <2>3, <2>6 DEF TitlesBy
  <2>9. Remains(c)'
    BY <1>2, <2>6 DEF Remains, Titled, OfTag, OfFeature
  <2>. QED  BY <2>4, <2>5, <2>7, <2>8, <2>9, CommitKeeps
<1>. QED  BY <1>3, <1>4

LEMMA RefreshSteps ==
    ASSUME MergeInv, NEW c \in MergeCalls, MergeRefreshes(c)
    PROVE  MergeInv'
BY EndSteps DEF MergeRefreshes, MergeGoes

LEMMA MergeIdles ==
    ASSUME MergeInv, UNCHANGED relationVars
    PROVE  MergeInv'
BY DEF MergeInv, relationVars, RelationTypeOK, ClockInv, WantInv, ItemInv, Home, NamesInv, FoundInv,
       SightInv, Sighted, StaysOn, StaysOff, StaysNamed, Linked, Taken, Given, Renamed, Since,
       MergedInv, Remains, Titled

LEMMA MergeStart == RelationInit => MergeInv
<1>. SUFFICES ASSUME RelationInit
              PROVE  MergeInv
  OBVIOUS
<1>1. RelationTypeOK
  <2>1. nameOf \in [TagIds -> TagNames \cup {NoTag}]
    BY DEF RelationInit
  <2>2. NoWant \in Items
    BY DEF NoWant, Items
  <2>3. titleOf \in [Features -> MergeCalls \cup {First, Deleted}]
    BY DEF RelationInit
  <2>. QED  BY <2>1, <2>2, <2>3 DEF RelationInit, RelationTypeOK, Links
<1>2. ClockInv /\ FoundInv /\ SightInv /\ MergedInv
  BY DEF RelationInit, ClockInv, FoundInv, SightInv, MergedInv, Sighted
<1>3. WantInv
  BY RelationsAssumption DEF RelationInit, WantInv, Features
<1>4. NamesInv
  BY DEF RelationInit, NamesInv
<1>. QED  BY <1>1, <1>2, <1>3, <1>4 DEF MergeInv

LEMMA MergeSteps == MergeInv /\ [RelationNext]_relationVars => MergeInv'
<1>1. SUFFICES ASSUME MergeInv, RelationNext
               PROVE  MergeInv'
  BY MergeIdles
<1>2. ASSUME NEW c \in MergeCalls,
             \/ Brings(c) \/ MergeLoads(c) \/ MergeFinds(c) \/ TagCommits(c) \/ UntagCommits(c)
             \/ FeatureCommits(c) \/ MergeRefreshes(c)
      PROVE  MergeInv'
  BY <1>1, <1>2, BringSteps, LoadSteps, FindSteps, TagSteps, UntagSteps, FeatureSteps, RefreshSteps
<1>. QED  BY <1>1, <1>2, GoneSteps DEF RelationNext

LEMMA MergeInvariant == RelationSpec => []MergeInv
BY MergeStart, MergeSteps, PTL DEF RelationSpec

(* The objects of the merge keep their types: the rows, and of every call  *)
(* what it wants, has seen and found.                                      *)
THEOREM RelationTypeCorrect == RelationSpec => []RelationTypeOK
<1>1. MergeInv => RelationTypeOK
  BY DEF MergeInv
<1>. QED  BY <1>1, MergeInvariant, PTL

(* An update that was committed leaves the tags and the features of its    *)
(* property as it asked, until an update that names the same one and was   *)
(* committed after the first had loaded says otherwise: nothing is lost    *)
(* to an update about something else, however the two overlap              *)
(* (RelationshipExecutor._handle_many).                                    *)
THEOREM Merged == RelationSpec => []MergedUntilNamed
<1>1. MergeInv => MergedUntilNamed
  BY StillSoIs DEF MergeInv, MergedInv, MergedUntilNamed
<1>. QED  BY <1>1, MergeInvariant, PTL

----------------------------------------------------------------------------
(***************************************************************************)
(* The ratings, for any calls, targets and scores.  The sum of a set is a  *)
(* fold; the first lemmas say what it does when a row is added.            *)
(***************************************************************************)

(* A set of numbers that has 0, and what follows each, has them all: the   *)
(* least that it had not would follow one that it has.                     *)
LEMMA EveryNumber ==
    ASSUME NEW T \in SUBSET Nat, 0 \in T, \A n \in T : n + 1 \in T
    PROVE  T = Nat
<1>1. SUFFICES ASSUME Nat \ T # {}
               PROVE  FALSE
  OBVIOUS
<1>2. PICK x \in Nat \ T : \A y \in Nat \ T : x <= y
  BY <1>1, LeastElement
<1>3. x # 0 /\ x - 1 \in Nat /\ ~(x <= x - 1) /\ (x - 1) + 1 = x
  BY <1>2
<1>. QED  BY <1>2, <1>3

(* The sum of the scores is the value of a function on sets of rows that   *)
(* takes away one row after the other.                                     *)
Pick(s) == CHOOSE x \in s : TRUE
SumStep(f, s) == IF s = {} THEN 0 ELSE Pick(s)[3] + f[s \ {Pick(s)}]
Sums(f, S) == f = [s \in SUBSET S |-> SumStep(f, s)]
Scored(S) == IsFiniteSet(S) /\ \A r \in S : r[3] \in Int

(* The sum is given by a function that does so for all parts of the rows.  *)
LEMMA StarsIs ==
    ASSUME NEW S
    PROVE  StarsOf(S) = (CHOOSE f : Sums(f, S))[S]
BY DEF StarsOf, MapThenSumSet, MapThenFoldSet, Pick, Sums, SumStep

(* What is picked can be taken away.                                       *)
LEMMA PickIs ==
    ASSUME NEW s, s # {}
    PROVE  Pick(s) \in s
BY DEF Pick

(* The parts of a finite set are smaller without an element.               *)
LEMMA SmallerParts ==
    ASSUME NEW S, IsFiniteSet(S)
    PROVE  \A s \in SUBSET S :
              /\ IsFiniteSet(s) /\ Cardinality(s) \in Nat
              /\ Cardinality(s) = 0 <=> s = {}
              /\ \A x \in s : s \ {x} \in SUBSET S /\ Cardinality(s) = Cardinality(s \ {x}) + 1
<1>1. TAKE s \in SUBSET S
<1>2. IsFiniteSet(s) /\ Cardinality(s) \in Nat
  BY FS_Subset, FS_CardinalityType
<1>3. Cardinality(s) = 0 <=> s = {}
  BY <1>2, FS_EmptySet
<1>4. ASSUME NEW x \in s
      PROVE  s \ {x} \in SUBSET S /\ Cardinality(s) = Cardinality(s \ {x}) + 1
  <2>1. Cardinality(s \ {x}) = Cardinality(s) - 1
    BY <1>2, FS_RemoveElement
  <2>. QED  BY <1>2, <2>1
<1>. QED  BY <1>2, <1>3, <1>4

(* Something that holds of all parts of a finite set if it does of the     *)
(* smaller ones holds of all: the set form of induction on their size.     *)
LEMMA EveryPart ==
    ASSUME NEW S, IsFiniteSet(S), NEW Q,
           \A s \in SUBSET S : (\A x \in s : s \ {x} \in Q) => s \in Q
    PROVE  SUBSET S \subseteq Q
<1> DEFINE T == {n \in Nat : \A s \in SUBSET S : Cardinality(s) = n => s \in Q}
<1>1. 0 \in T
  BY SmallerParts
<1>2. ASSUME NEW n \in T
      PROVE  n + 1 \in T
  <2>1. SUFFICES ASSUME NEW s \in SUBSET S, Cardinality(s) = n + 1
                 PROVE  s \in Q
    OBVIOUS
  <2>2. \A x \in s : s \ {x} \in SUBSET S /\ Cardinality(s \ {x}) \in Nat
                     /\ n + 1 = Cardinality(s \ {x}) + 1
    BY <2>1, SmallerParts
  <2>3. \A x \in s : s \ {x} \in Q
    BY <2>2
  <2>. QED  BY <2>3
<1> HIDE DEF T
<1>3. T = Nat
  <2>1. T \in SUBSET Nat
    BY DEF T
  <2>. QED  BY <1>1, <1>2, <2>1, EveryNumber
<1>. QED  BY <1>3, SmallerParts DEF T

(* What the sum of a set of rows is, by the first one that is taken away.  *)
LEMMA StepIs ==
    ASSUME NEW f, NEW s
    PROVE  /\ s = {} => SumStep(f, s) = 0
           /\ s # {} => Pick(s) \in s /\ SumStep(f, s) = Pick(s)[3] + f[s \ {Pick(s)}]
BY PickIs DEF SumStep

(* Such functions have integers as values.                                 *)
LEMMA SumsType ==
    ASSUME NEW S, Scored(S), NEW f, Sums(f, S)
    PROVE  \A s \in SUBSET S : f[s] \in Int /\ f[s] = SumStep(f, s)
<1> DEFINE Q == {s \in SUBSET S : f[s] \in Int}
<1>1. \A s \in SUBSET S : f[s] = SumStep(f, s)
  BY DEF Sums
<1>2. ASSUME NEW s \in SUBSET S, \A x \in s : s \ {x} \in Q
      PROVE  s \in Q
  <2>1. f[s] = SumStep(f, s)
    BY <1>1
  <2>2. CASE s = {}
    <3>1. f[s] = 0
      BY <2>1, <2>2, StepIs
    <3>. QED  BY <3>1
  <2>3. CASE s # {}
    <3> DEFINE x == Pick(s)
    <3>1. x \in s /\ f[s] = x[3] + f[s \ {x}]
      BY <2>1, <2>3, StepIs
    <3> HIDE DEF x
    <3>2. x[3] \in Int /\ f[s \ {x}] \in Int
      BY <1>2, <3>1 DEF Scored
    <3>. QED  BY <3>1, <3>2
  <2>. QED  BY <2>2, <2>3
<1> HIDE DEF Q
<1>3. SUBSET S \subseteq Q
  BY <1>2, EveryPart DEF Scored
<1>. QED  BY <1>1, <1>3 DEF Q

(* There is one: that for parts of at most n rows gives that for n + 1.    *)
LEMMA SumsExist ==
    ASSUME NEW S, Scored(S)
    PROVE  \E f : Sums(f, S)
<1> DEFINE Upto(f, n) ==
        \A s \in SUBSET S : f[s] \in Int /\ (Cardinality(s) <= n => f[s] = SumStep(f, s))
           T == {n \in Nat : \E f \in [SUBSET S -> Int] : Upto(f, n)}
<1>1. 0 \in T
  <2> DEFINE f == [s \in SUBSET S |-> 0]
  <2>1. \A s \in SUBSET S : Cardinality(s) <= 0 => s = {}
    BY SmallerParts DEF Scored
  <2>2. f \in [SUBSET S -> Int] /\ Upto(f, 0)
    BY <2>1 DEF SumStep
  <2>. QED  BY <2>2
<1>2. ASSUME NEW n \in T
      PROVE  n + 1 \in T
  <2>1. PICK f \in [SUBSET S -> Int] : Upto(f, n)
    OBVIOUS
  <2> DEFINE g == [s \in SUBSET S |-> IF Cardinality(s) <= n THEN f[s] ELSE SumStep(f, s)]
  <2>2. \A s \in SUBSET S : s # {} => s \ {Pick(s)} \in SUBSET S /\ Pick(s) \in S
    BY PickIs
  <2>3. \A s \in SUBSET S : SumStep(f, s) \in Int
    BY <2>1, <2>2 DEF SumStep, Scored
  <2>4. \A s \in SUBSET S : g[s] \in Int
    BY <2>1, <2>3
  <2>6. ASSUME NEW s \in SUBSET S, Cardinality(s) <= n + 1
        PROVE  g[s] = SumStep(g, s)
    <3>1. g[s] = SumStep(f, s)
      BY <2>1
    <3>2. CASE s = {}
      BY <3>1, <3>2 DEF SumStep
    <3>3. CASE s # {}
      <4>1. s \ {Pick(s)} \in SUBSET S /\ Cardinality(s \ {Pick(s)}) <= n
        BY <2>2, <2>6, <3>3, PickIs, SmallerParts DEF Scored
      <4>2. g[s \ {Pick(s)}] = f[s \ {Pick(s)}]
        BY <4>1
      <4> HIDE DEF g
      <4>. QED  BY <3>1, <3>3, <4>2 DEF SumStep
    <3>. QED  BY <3>2, <3>3
  <2>7. g \in [SUBSET S -> Int]
    BY <2>4
  <2> HIDE DEF g
  <2>8. Upto(g, n + 1)
    BY <2>4, <2>6
  <2>. QED  BY <2>7, <2>8
<1>3. Cardinality(S) \in T
  <2>1. T \in SUBSET Nat
    OBVIOUS
  <2> HIDE DEF T
  <2>2. T = Nat
    BY <1>1, <1>2, <2>1, EveryNumber
  <2>. QED  BY <2>2, FS_CardinalityType DEF Scored
<1>4. PICK f \in [SUBSET S -> Int] : Upto(f, Cardinality(S))
  BY <1>3
<1>5. \A s \in SUBSET S : Cardinality(s) <= Cardinality(S)
  BY FS_Subset DEF Scored
<1>6. \A s \in SUBSET S : f[s] = SumStep(f, s)
  BY <1>4, <1>5
<1>7. f = [s \in SUBSET S |-> SumStep(f, s)]
  BY <1>4, <1>6
<1>. QED  BY <1>7 DEF Sums

(* On what two of them share they agree.                                   *)
LEMMA SumsAgree ==
    ASSUME NEW S, NEW U, S \in SUBSET U, Scored(U), NEW f, Sums(f, S), NEW g, Sums(g, U)
    PROVE  \A s \in SUBSET S : f[s] = g[s]
<1> DEFINE Q == {s \in SUBSET S : f[s] = g[s]}
<1>1. Scored(S)
  BY FS_Subset DEF Scored
<1>2. \A s \in SUBSET S : f[s] = SumStep(f, s) /\ g[s] = SumStep(g, s)
  BY <1>1, SumsType
<1>3. ASSUME NEW s \in SUBSET S, \A x \in s : s \ {x} \in Q
      PROVE  s \in Q
  <2>1. SumStep(f, s) = SumStep(g, s)
    BY <1>3, PickIs DEF SumStep
  <2>. QED  BY <1>2, <2>1
<1> HIDE DEF Q
<1>4. SUBSET S \subseteq Q
  BY <1>1, <1>3, EveryPart DEF Scored
<1>. QED  BY <1>4 DEF Q

(* It does not matter which row is taken away first.                       *)
LEMMA SumsAnyFirst ==
    ASSUME NEW S, Scored(S), NEW f, Sums(f, S)
    PROVE  \A s \in SUBSET S : \A x \in s : f[s] = x[3] + f[s \ {x}]
<1> DEFINE Q == {s \in SUBSET S : \A x \in s : f[s] = x[3] + f[s \ {x}]}
<1>1. \A s \in SUBSET S : f[s] \in Int /\ f[s] = SumStep(f, s)
  BY SumsType
<1>2. ASSUME NEW s \in SUBSET S, \A x \in s : s \ {x} \in Q
      PROVE  s \in Q
  <2>1. SUFFICES ASSUME NEW x \in s
                 PROVE  f[s] = x[3] + f[s \ {x}]
    OBVIOUS
  <2> DEFINE y == Pick(s)
  <2>2. y \in s /\ f[s] = y[3] + f[s \ {y}]
    BY <1>1, <2>1, PickIs DEF SumStep
  <2> HIDE DEF y
  <2>3. CASE x = y
    BY <2>2, <2>3
  <2>4. CASE x # y
    <3>1. s \ {x} \in Q /\ s \ {y} \in Q /\ x \in s \ {y} /\ y \in s \ {x}
      BY <1>2, <2>1, <2>2, <2>4
    <3> DEFINE t == s \ {x, y}
    <3>2. t \in SUBSET S /\ (s \ {y}) \ {x} = t /\ (s \ {x}) \ {y} = t
      OBVIOUS
    <3> HIDE DEF t
    <3>3. f[s \ {y}] = x[3] + f[t] /\ f[s \ {x}] = y[3] + f[t]
      BY <3>1, <3>2
    <3>4. x[3] \in Int /\ y[3] \in Int /\ f[t] \in Int
      BY <1>1, <2>1, <2>2, <3>2 DEF Scored
    <3>. QED  BY <2>2, <3>3, <3>4
  <2>. QED  BY <2>3, <2>4
<1> HIDE DEF Q
<1>3. SUBSET S \subseteq Q
  BY <1>2, EveryPart DEF Scored
<1>. QED  BY <1>3 DEF Q

(* One more row adds its score.                                            *)
LEMMA StarsAdd ==
    ASSUME NEW S, NEW x, Scored(S \cup {x}), x \notin S
    PROVE  /\ StarsOf(S) \in Int
           /\ StarsOf(S \cup {x}) = StarsOf(S) + x[3]
<1> DEFINE U == S \cup {x}
           f == CHOOSE h : Sums(h, S)
           g == CHOOSE h : Sums(h, U)
<1>1. Scored(S)
  BY FS_Subset DEF Scored
<1>2. Sums(f, S) /\ Sums(g, U)
  BY <1>1, SumsExist
<1>3. StarsOf(S) = f[S] /\ StarsOf(U) = g[U]
  BY StarsIs
<1> HIDE DEF f, g
<1>4. f[S] = g[S] /\ f[S] \in Int
  BY <1>1, <1>2, SumsAgree, SumsType
<1>5. U \in SUBSET U /\ x \in U /\ U \ {x} = S /\ Scored(U) /\ x[3] \in Int
  BY DEF Scored
<1> HIDE DEF U
<1>6. g[U] = x[3] + g[S]
  BY <1>2, <1>5, SumsAnyFirst
<1>7. StarsOf(U) = StarsOf(S) + x[3]
  BY <1>3, <1>4, <1>5, <1>6
<1>. QED  BY <1>3, <1>4, <1>7 DEF U

(* Of no rows it is 0.                                                     *)
LEMMA StarsOfNone == StarsOf({}) = 0
<1> DEFINE f == CHOOSE h : Sums(h, {})
<1>1. Scored({})
  BY FS_EmptySet DEF Scored
<1>2. Sums(f, {})
  BY <1>1, SumsExist
<1>3. StarsOf({}) = f[{}]
  BY StarsIs
<1> HIDE DEF f
<1>4. f[{}] = SumStep(f, {})
  BY <1>1, <1>2, SumsType
<1>. QED  BY <1>3, <1>4 DEF SumStep

----------------------------------------------------------------------------
(* The ratings of a target.                                                *)
Mine(t) == {r \in ratings : r[2] = t}
Rating(c, t) == ratePc[c] = "rate" /\ rating[c].of = t

(* There are finitely many ratings, all of calls that have replied.        *)
RowsInv ==
    /\ IsFiniteSet(ratings)
    /\ \A r \in ratings : ratePc[r[1]] = "201"

(* Who rates one kind with the id of the other is known to be mistaken.    *)
MistakesInv ==
    \A c \in RateCalls :
        ratePc[c] = "rate" /\ rating[c].key # rating[c].of =>
            {rating[c].of, rating[c].key} \subseteq mistaken

(* Two calls that rate one target have overlapped.                         *)
AloneInv ==
    \A t \in Targets \ overlap, c, d \in RateCalls : Rating(c, t) /\ Rating(d, t) => c = d

(* What a call has loaded is never more than there are, and is what the    *)
(* totals are unless another call of the target has run beside it.         *)
LoadedInv ==
    \A t \in present \ mistaken, c \in RateCalls :
        Rating(c, t) =>
            /\ loaded[c][1] <= Cardinality(Mine(t))
            /\ t \notin overlap => loaded[c] = <<total[t], stars[t]>>

RatingInv == RatingTypeOK /\ RowsInv /\ MistakesInv /\ AloneInv /\ LoadedInv /\ TotalsAddUp

(* The ratings of a target are finitely many and have integers as scores.  *)
LEMMA MineIs ==
    ASSUME RatingTypeOK, RowsInv, NEW t
    PROVE  Scored(Mine(t)) /\ Cardinality(Mine(t)) \in Nat /\ StarsOf(Mine(t)) \in Int
<1>1. IsFiniteSet(Mine(t)) /\ Cardinality(Mine(t)) \in Nat
  BY FS_Subset, FS_CardinalityType DEF RowsInv, Mine
<1>2. \A r \in Mine(t) : r[3] \in Int
  BY RatingsAssumption DEF RatingTypeOK, RatingRows, Mine
<1>3. Scored(Mine(t))
  BY <1>1, <1>2 DEF Scored
<1> DEFINE f == CHOOSE h : Sums(h, Mine(t))
<1>4. Sums(f, Mine(t))
  BY <1>3, SumsExist
<1>5. StarsOf(Mine(t)) = f[Mine(t)]
  BY StarsIs
<1> HIDE DEF f
<1>6. f[Mine(t)] \in Int
  BY <1>3, <1>4, SumsType
<1>. QED  BY <1>1, <1>3, <1>5, <1>6

(* What the property says, with Mine.                                      *)
LEMMA TotalsAre ==
    TotalsAddUp <=>
        \A t \in present \ mistaken :
            /\ total[t] <= Cardinality(Mine(t))
            /\ t \notin overlap => total[t] = Cardinality(Mine(t)) /\ stars[t] = StarsOf(Mine(t))
BY DEF TotalsAddUp, Mine

(* At the start there are no ratings, and the totals are 0.                *)
LEMMA RatingInvInit == RatingInit => RatingInv
<1> SUFFICES ASSUME RatingInit
             PROVE  RatingInv
  OBVIOUS
<1> USE DEF RatingInit
<1>1. RatingTypeOK
  BY DEF RatingTypeOK
<1>2. RowsInv /\ MistakesInv /\ AloneInv /\ LoadedInv
  BY FS_EmptySet DEF RowsInv, MistakesInv, AloneInv, LoadedInv, Rating
<1>3. ASSUME NEW t \in Targets
      PROVE  Mine(t) = {} /\ Cardinality(Mine(t)) = 0 /\ StarsOf(Mine(t)) = 0
  <2>1. Mine(t) = {}
    BY DEF Mine
  <2>. QED  BY <2>1, FS_EmptySet, StarsOfNone
<1>4. \A t \in Targets : total[t] = 0 /\ stars[t] = 0 /\ overlap = {} /\ present = Targets
  OBVIOUS
<1>5. TotalsAddUp
  BY <1>3, <1>4, TotalsAre
<1>. QED  BY <1>1, <1>2, <1>5 DEF RatingInv

(* A load adds one rating call.                                            *)
LEMMA LoadKeepsTotals ==
    ASSUME RatingInv, NEW c \in RateCalls, RateLoads(c)
    PROVE  RatingInv'
<1> DEFINE t == rating[c].of
           k == rating[c].key
<1>1. /\ ratePc[c] = "new" /\ t \in Targets /\ k \in Targets
      /\ UNCHANGED <<present, ratings, total, stars, rating>>
      /\ \A u : Mine(u)' = Mine(u)
  BY DEF RatingInv, RatingTypeOK, RateLoads, Reviews, Mine
<1>2. CASE t \notin present
  <2>1. UNCHANGED <<loaded, overlap, mistaken>> /\ ratePc' = [ratePc EXCEPT ![c] = "404"]
    BY <1>2 DEF RateLoads, RatingEnds
  <2>2. RatingTypeOK'
    BY <1>1, <2>1 DEF RatingInv, RatingTypeOK
  <2>3. \A d \in RateCalls : /\ ratePc'[d] = "rate" => ratePc[d] = "rate"
                             /\ ratePc[d] = "201" => ratePc'[d] = "201"
    BY <1>1, <2>1 DEF RatingInv, RatingTypeOK
  <2>4. RowsInv'
    BY <1>1, <2>3 DEF RatingInv, RowsInv, RatingTypeOK, RatingRows
  <2>5. MistakesInv' /\ AloneInv'
    BY <1>1, <2>1, <2>3 DEF RatingInv, MistakesInv, AloneInv, Rating
  <2>6. LoadedInv' /\ TotalsAddUp'
    BY <1>1, <2>1, <2>3 DEF RatingInv, LoadedInv, TotalsAddUp, Rating
  <2>. QED  BY <2>2, <2>4, <2>5, <2>6 DEF RatingInv
<1>3. CASE t \in present
  <2>1. /\ ratePc' = [ratePc EXCEPT ![c] = "rate"]
        /\ loaded' = [loaded EXCEPT ![c] = <<total[t], stars[t]>>]
        /\ overlap' = IF \E d \in RateCalls : Rating(d, t) THEN overlap \cup {t} ELSE overlap
        /\ mistaken' = IF k = t THEN mistaken ELSE mistaken \cup {t, k}
    BY <1>3 DEF RateLoads, RatingEnds, Rating
  <2>2. RatingTypeOK'
    BY <1>1, <2>1 DEF RatingInv, RatingTypeOK
  <2>3. \A d \in RateCalls : /\ d # c => ratePc'[d] = ratePc[d] /\ loaded'[d] = loaded[d]
                             /\ ratePc[d] = "201" => ratePc'[d] = "201"
    BY <1>1, <2>1 DEF RatingInv, RatingTypeOK
  <2>4. ratePc'[c] = "rate" /\ loaded'[c] = <<total[t], stars[t]>>
    BY <2>1 DEF RatingInv, RatingTypeOK
  <2>5. /\ overlap \subseteq overlap' /\ mistaken \subseteq mistaken'
        /\ k # t => {t, k} \subseteq mistaken'
    BY <2>1
  <2>6. t \notin overlap' => \A d \in RateCalls : ~Rating(d, t)
    BY <2>1
  <2> HIDE DEF t, k
  <2>7. \A u : \A d \in RateCalls : Rating(d, u)' <=> IF d = c THEN u = t ELSE Rating(d, u)
    BY <1>1, <2>3, <2>4 DEF Rating, t
  <2>8. RowsInv'
    BY <1>1, <2>3 DEF RatingInv, RowsInv, RatingTypeOK, RatingRows
  <2>9. MistakesInv'
    BY <1>1, <2>3, <2>5 DEF RatingInv, MistakesInv, t, k
  <2>10. AloneInv'
    BY <2>5, <2>6, <2>7 DEF RatingInv, AloneInv
  <2>11. TotalsAddUp'
    BY <1>1, <2>5 DEF RatingInv, TotalsAddUp
  <2>12. LoadedInv'
    <3> SUFFICES ASSUME NEW u \in present' \ mistaken', NEW d \in RateCalls, Rating(d, u)'
                 PROVE  /\ loaded'[d][1] <= Cardinality(Mine(u))
                        /\ u \notin overlap' => loaded'[d] = <<total[u], stars[u]>>
      BY <1>1 DEF LoadedInv
    <3>1. u \in present \ mistaken
      BY <1>1, <2>5
    <3>2. CASE d = c
      BY <2>4, <2>7, <3>1, <3>2, TotalsAre DEF RatingInv
    <3>3. CASE d # c
      BY <2>3, <2>5, <2>7, <3>1, <3>3 DEF RatingInv, LoadedInv
    <3>. QED  BY <3>2, <3>3
  <2>. QED  BY <2>2, <2>8, <2>9, <2>10, <2>11, <2>12 DEF RatingInv
<1>. QED  BY <1>2, <1>3

(* A commit adds a rating to its target, and one to what it had loaded.    *)
LEMMA CommitKeepsTotals ==
    ASSUME RatingInv, NEW c \in RateCalls, RateCommits(c)
    PROVE  RatingInv'
<1> DEFINE t == rating[c].of
           k == rating[c].key
           x == <<c, k, rating[c].score>>
<1>1. /\ ratePc[c] = "rate" /\ t \in present /\ k \in present
      /\ t \in Targets /\ k \in Targets /\ rating[c].score \in Scores
      /\ ratings' = ratings \cup {x}
      /\ total' = [total EXCEPT ![t] = loaded[c][1] + 1]
      /\ stars' = [stars EXCEPT ![t] = loaded[c][2] + rating[c].score]
      /\ ratePc' = [ratePc EXCEPT ![c] = "201"]
      /\ UNCHANGED <<present, rating, loaded, overlap, mistaken>>
  BY DEF RatingInv, RatingTypeOK, RateCommits, Ratable, RatingEnds, Reviews
<1>2. RatingTypeOK'
  <2>1. loaded[c] \in Int \X Int /\ rating[c].score \in Int
    BY <1>1, RatingsAssumption DEF RatingInv, RatingTypeOK
  <2>2. x \in RatingRows
    BY <1>1 DEF RatingRows
  <2> HIDE DEF x, t, k
  <2>3. total' \in [Targets -> Int] /\ stars' \in [Targets -> Int]
    BY <1>1, <2>1 DEF RatingInv, RatingTypeOK
  <2>4. ratings' \subseteq RatingRows /\ ratePc' \in [RateCalls -> {"new", "rate", "201", "404", "500"}]
    BY <1>1, <2>2 DEF RatingInv, RatingTypeOK
  <2>. QED  BY <1>1, <2>3, <2>4 DEF RatingInv, RatingTypeOK
<1>3. \A d \in RateCalls : ratePc'[d] = IF d = c THEN "201" ELSE ratePc[d]
  BY <1>1 DEF RatingInv, RatingTypeOK
<1>4. x \notin ratings /\ x[1] = c /\ x[2] = k /\ x[3] = rating[c].score
  BY <1>1 DEF RatingInv, RowsInv
<1>5. k = t \/ {t, k} \subseteq mistaken
  BY <1>1 DEF RatingInv, MistakesInv
<1> HIDE DEF x, t, k
<1>6. RowsInv'
  <2>1. IsFiniteSet(ratings')
    BY <1>1, FS_AddElement DEF RatingInv, RowsInv
  <2>. QED  BY <1>1, <1>3, <1>4, <2>1 DEF RatingInv, RowsInv
<1>7. MistakesInv'
  BY <1>1, <1>3 DEF RatingInv, MistakesInv
<1>8. \A u : \A d \in RateCalls : Rating(d, u)' => Rating(d, u) /\ d # c
  BY <1>1, <1>3 DEF Rating
<1>9. AloneInv'
  BY <1>1, <1>8 DEF RatingInv, AloneInv
<1>10. \A u : Mine(u)' = IF u = k THEN Mine(u) \cup {x} ELSE Mine(u)
  BY <1>1, <1>4 DEF Mine
<1>11. Rating(c, t)
  BY <1>1 DEF Rating, t
<1>12. ASSUME NEW u \in present' \ mistaken'
       PROVE  /\ Cardinality(Mine(u)) <= Cardinality(Mine(u)')
              /\ total'[u] <= Cardinality(Mine(u)')
              /\ u \notin overlap =>
                    total'[u] = Cardinality(Mine(u)') /\ stars'[u] = StarsOf(Mine(u)')
              /\ u # t => total'[u] = total[u] /\ stars'[u] = stars[u]
  <2>1. u \in present \ mistaken /\ u \in Targets
    BY <1>1, <1>12 DEF RatingInv, RatingTypeOK
  <2>2. Cardinality(Mine(u)) \in Nat
    BY MineIs DEF RatingInv
  <2>3. CASE u # t
    <3>1. Mine(u)' = Mine(u) /\ total'[u] = total[u] /\ stars'[u] = stars[u]
      BY <1>1, <1>5, <1>10, <2>1, <2>3 DEF RatingInv, RatingTypeOK
    <3>. QED  BY <2>1, <2>2, <2>3, <3>1, TotalsAre DEF RatingInv
  <2>4. CASE u = t
    <3>1. k = t /\ Mine(u)' = Mine(u) \cup {x}
      BY <1>5, <1>10, <2>1, <2>4
    <3>2. x \notin Mine(u)
      BY <1>4 DEF Mine
    <3>3. /\ total'[u] = loaded[c][1] + 1 /\ stars'[u] = loaded[c][2] + x[3]
          /\ loaded[c][1] \in Int /\ loaded[c][2] \in Int
      BY <1>1, <1>4, <2>1, <2>4 DEF RatingInv, RatingTypeOK
    <3>4. IsFiniteSet(Mine(u)) /\ Cardinality(Mine(u)') = Cardinality(Mine(u)) + 1
      BY <3>1, <3>2, MineIs, FS_AddElement DEF RatingInv, Scored
    <3>5. StarsOf(Mine(u)) \in Int /\ StarsOf(Mine(u)') = StarsOf(Mine(u)) + x[3]
      <4>1. Scored(Mine(u) \cup {x})
        BY <1>1, <1>4, MineIs, FS_AddElement, RatingsAssumption DEF RatingInv, Scored
      <4>. QED  BY <3>1, <3>2, <4>1, StarsAdd
    <3>6. /\ loaded[c][1] <= Cardinality(Mine(u))
          /\ u \notin overlap => loaded[c] = <<total[u], stars[u]>>
      BY <1>11, <2>1, <2>4 DEF RatingInv, LoadedInv
    <3>7. u \notin overlap => total[u] = Cardinality(Mine(u)) /\ stars[u] = StarsOf(Mine(u))
      BY <2>1, TotalsAre DEF RatingInv
    <3>8. u \notin overlap => loaded[c][1] = total[u] /\ loaded[c][2] = stars[u]
      BY <3>6
    <3>. QED  BY <2>2, <2>4, <3>3, <3>4, <3>5, <3>6, <3>7, <3>8
  <2>. QED  BY <2>3, <2>4
<1>13. TotalsAddUp'
  BY <1>1, <1>12, TotalsAre DEF TotalsAddUp, Mine
<1>14. LoadedInv'
  <2> SUFFICES ASSUME NEW u \in present' \ mistaken', NEW d \in RateCalls, Rating(d, u)'
               PROVE  /\ loaded[d][1] <= Cardinality(Mine(u)')
                      /\ u \notin overlap => loaded[d] = <<total'[u], stars'[u]>>
    BY <1>1 DEF LoadedInv
  <2>1. u \in present \ mistaken /\ Rating(d, u) /\ d # c /\ u \in Targets
    BY <1>1, <1>8 DEF RatingInv, RatingTypeOK
  <2>2. /\ loaded[d][1] <= Cardinality(Mine(u))
        /\ u \notin overlap => loaded[d] = <<total[u], stars[u]>>
    BY <2>1 DEF RatingInv, LoadedInv
  <2>3. u \notin overlap => u # t
    BY <1>11, <2>1 DEF RatingInv, AloneInv
  <2>4. loaded[d][1] \in Int /\ Cardinality(Mine(u)) \in Nat /\ Cardinality(Mine(u)') \in Nat
    <3>1. Cardinality(Mine(u)) \in Nat
      BY MineIs DEF RatingInv
    <3>2. IsFiniteSet(Mine(u)') /\ Cardinality(Mine(u)') \in Nat
      BY <1>6, FS_Subset, FS_CardinalityType DEF RowsInv, Mine
    <3>. QED  BY <3>1, <3>2 DEF RatingInv, RatingTypeOK
  <2>. QED  BY <1>12, <2>2, <2>3, <2>4
<1>. QED  BY <1>2, <1>6, <1>7, <1>9, <1>13, <1>14 DEF RatingInv

(* A rollback ends a call and leaves the totals alone.                     *)
LEMMA RollbackKeepsTotals ==
    ASSUME RatingInv, NEW c \in RateCalls, RateRollsBack(c)
    PROVE  RatingInv'
<1>1. /\ UNCHANGED <<present, ratings, total, stars, rating, loaded, overlap, mistaken>>
      /\ ratePc[c] = "rate" /\ ratePc' = [ratePc EXCEPT ![c] = "500"]
  BY DEF RateRollsBack, RatingEnds
<1>2. RatingTypeOK'
  BY <1>1 DEF RatingInv, RatingTypeOK
<1>3. \A d \in RateCalls : /\ ratePc'[d] = "rate" => ratePc[d] = "rate"
                           /\ ratePc[d] = "201" => ratePc'[d] = "201"
  BY <1>1 DEF RatingInv, RatingTypeOK
<1>4. RowsInv'
  BY <1>1, <1>3 DEF RatingInv, RowsInv, RatingTypeOK, RatingRows
<1>5. MistakesInv' /\ AloneInv'
  BY <1>1, <1>3 DEF RatingInv, MistakesInv, AloneInv, Rating
<1>6. \A u : Mine(u)' = Mine(u)
  BY <1>1 DEF Mine
<1>7. LoadedInv' /\ TotalsAddUp'
  BY <1>1, <1>3, <1>6 DEF RatingInv, LoadedInv, TotalsAddUp, Rating
<1>. QED  BY <1>2, <1>4, <1>5, <1>7 DEF RatingInv

(* What goes takes its own ratings with it, and is not asked about again.  *)
LEMMA GoneKeepsTotals ==
    ASSUME RatingInv, NEW t \in Targets, TargetGoes(t)
    PROVE  RatingInv'
<1>1. /\ present' = present \ {t} /\ ratings' = {r \in ratings : r[2] # t}
      /\ UNCHANGED <<total, stars, ratePc, rating, loaded, overlap, mistaken>>
  BY DEF TargetGoes
<1>2. RatingTypeOK'
  BY <1>1 DEF RatingInv, RatingTypeOK
<1>3. RowsInv'
  BY <1>1, FS_Subset DEF RatingInv, RowsInv
<1>4. MistakesInv' /\ AloneInv'
  BY <1>1 DEF RatingInv, MistakesInv, AloneInv, Rating
<1>5. \A u \in present' : u \in present /\ Mine(u)' = Mine(u)
  BY <1>1 DEF Mine
<1>6. LoadedInv'
  BY <1>1, <1>5 DEF RatingInv, LoadedInv, Rating
<1>7. TotalsAddUp'
  BY <1>1, <1>5, TotalsAre DEF RatingInv, TotalsAddUp, Mine
<1>. QED  BY <1>2, <1>3, <1>4, <1>6, <1>7 DEF RatingInv

(* Every step preserves the invariant.                                     *)
LEMMA RatingInvNext == RatingInv /\ [RatingNext]_ratingVars => RatingInv'
<1> SUFFICES ASSUME RatingInv, [RatingNext]_ratingVars
             PROVE  RatingInv'
  OBVIOUS
<1>1. CASE UNCHANGED ratingVars
  BY <1>1 DEF RatingInv, ratingVars, RatingTypeOK, RowsInv, MistakesInv, AloneInv, LoadedInv,
              TotalsAddUp, Rating, Mine
<1>2. CASE RatingNext
  BY <1>2, LoadKeepsTotals, CommitKeepsTotals, RollbackKeepsTotals, GoneKeepsTotals DEF RatingNext
<1>. QED  BY <1>1, <1>2

(* The invariant of the ratings.                                           *)
LEMMA RatingInvHolds == RatingSpec => []RatingInv
BY RatingInvInit, RatingInvNext, PTL DEF RatingSpec

(* Ratings, totals and calls keep their types.                             *)
THEOREM RatingTypeCorrect == RatingSpec => []RatingTypeOK
<1>1. RatingInv => RatingTypeOK
  BY DEF RatingInv
<1>. QED  BY <1>1, RatingInvHolds, PTL

(* The totals of an agent or area are the number and the sum of its        *)
(* ratings while no two calls that rate it overlap, and never count more   *)
(* than there are; a request that names one kind and the id of the other   *)
(* spoils both (ratings/core.py: rate_asset).                              *)
THEOREM TotalsAlwaysAddUp == RatingSpec => []TotalsAddUp
<1>1. RatingInv => TotalsAddUp
  BY DEF RatingInv
<1>. QED  BY <1>1, RatingInvHolds, PTL

=============================================================================
