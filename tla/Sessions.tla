------------------------------ MODULE Sessions ------------------------------
(***************************************************************************)
(* The refresh sessions of one user (auth/services.py, auth/models.py,     *)
(* token_management/services.py): sign in, refresh, the check of a request *)
(* that brings an access token, and what such a request may be: a logout,  *)
(* the revocation of one or of all sessions, the deletion of the account.  *)
(* Every call has a database session of its own and commits once, so that  *)
(* what it loaded may be stale when it writes.  The middleware of          *)
(* activity_logging writes a row for every request that was admitted.      *)
(*                                                                         *)
(* Tokens are told apart by their hash alone.  It is a bcrypt hash, which  *)
(* reads 72 bytes: the header, the user name and the leading digits of the *)
(* expiry that still fit.  Tokens of a user that agree on those verify     *)
(* against each other's hash; they are the tokens of one era.              *)
(***************************************************************************)
EXTENDS Naturals, FiniteSets

CONSTANTS
    SessionCalls,
    MaxSession,   \* bound: how many sessions are ever opened
    MaxEra        \* bound: the last era

ASSUME SessionsAssumption == MaxSession \in Nat /\ MaxEra \in Nat

SessionIds == 1..MaxSession
NoCookie == 0

VARIABLES
    member,       \* the user exists
    opened,       \* ids of refresh_sessions that were inserted
    revoked,      \* those with is_revoked
    lapsed,       \* those whose expires_at has passed
    accessHash,   \* access_token_hash, by the era of the token
    tokenHash,    \* token_hash, of the refresh token
    era,
    spc,          \* control of a call
    sid,          \* the session_id cookie of a request, or the path of a refresh
    stok,         \* the era of the token a call is about to hand out
    sload,        \* the sessions a call is about to update
    scode,        \* HTTP status
    logged,       \* history of activity_logs: calls with a row
    granted,      \* history: <<session, era>> of the access tokens handed out
    raced         \* history: sessions with two refreshes at the same time

tableVars == <<member, opened, revoked, lapsed, accessHash, tokenHash>>
sessionVars ==
    <<tableVars, era, spc, sid, stok, sload, scode, logged, granted, raced>>

Requested == {"read", "logout", "revoke", "revokeall", "delete"}
Inside == {"issue", "renew", "burn", "update"} \cup Requested
Live == IF member THEN opened \ (revoked \cup lapsed) ELSE {}

(* The rows of refresh_sessions and of activity_logs.                      *)
Eras == 0..MaxEra
RefreshSessions ==
    /\ opened \subseteq SessionIds
    /\ revoked \subseteq SessionIds /\ lapsed \subseteq SessionIds
    /\ accessHash \in [SessionIds -> Eras] /\ tokenHash \in [SessionIds -> Eras]
ActivityLogs == logged \subseteq SessionCalls

SessionTypeOK ==
    /\ member \in BOOLEAN /\ RefreshSessions /\ ActivityLogs
    /\ era \in Eras
    /\ spc \in [SessionCalls -> Inside \cup {"new", "done", "log", "end"}]
    /\ sid \in [SessionCalls -> SessionIds \cup {NoCookie}]
    /\ stok \in [SessionCalls -> Eras]
    /\ sload \in [SessionCalls -> SUBSET SessionIds]
    /\ scode \in [SessionCalls -> {0, 200, 204, 401, 404, 500}]
    /\ granted \subseteq SessionIds \X Eras
    /\ raced \subseteq SessionIds

SessionInit ==
    /\ member = TRUE /\ opened = {} /\ revoked = {} /\ lapsed = {}
    /\ accessHash = [s \in SessionIds |-> 0] /\ tokenHash = [s \in SessionIds |-> 0]
    /\ era = 0
    /\ spc = [c \in SessionCalls |-> "new"] /\ sid = [c \in SessionCalls |-> NoCookie]
    /\ stok = [c \in SessionCalls |-> 0] /\ sload = [c \in SessionCalls |-> {}]
    /\ scode = [c \in SessionCalls |-> 0]
    /\ logged = {} /\ granted = {} /\ raced = {}

SessionGoes(c, pc) == spc' = [spc EXCEPT ![c] = pc] /\ UNCHANGED scode
(* A call without request.state.user ends with its reply; the others are   *)
(* still to be logged.                                                     *)
SessionReplies(c, code) ==
    /\ spc' = [spc EXCEPT ![c] = "done"]
    /\ scode' = [scode EXCEPT ![c] = code]
RequestReplies(c, code) ==
    /\ spc' = [spc EXCEPT ![c] = "log"]
    /\ scode' = [scode EXCEPT ![c] = code]

----------------------------------------------------------------------------
(* signin.                                                                 *)

Authenticate(c) ==
    /\ spc[c] = "new"
    /\ Cardinality(opened) < MaxSession
    /\ IF member THEN SessionGoes(c, "issue") ELSE SessionReplies(c, 401)
    /\ stok' = [stok EXCEPT ![c] = era]
    /\ UNCHANGED <<tableVars, era, sid, sload, logged, granted, raced>>

(* The insertion; the foreign key refuses it when the user has gone.       *)
Issue(c) ==
    LET s == Cardinality(opened) + 1
    IN  /\ spc[c] = "issue"
        /\ s \in SessionIds
        /\ IF member
           THEN /\ opened' = opened \cup {s}
                /\ accessHash' = [accessHash EXCEPT ![s] = stok[c]]
                /\ tokenHash' = [tokenHash EXCEPT ![s] = stok[c]]
                /\ granted' = granted \cup {<<s, stok[c]>>}
                /\ SessionReplies(c, 200)
           ELSE /\ SessionReplies(c, 500)
                /\ UNCHANGED <<opened, accessHash, tokenHash, granted>>
        /\ UNCHANGED <<member, revoked, lapsed, era, sid, stok, sload, logged, raced>>

----------------------------------------------------------------------------
(* handle_refresh.                                                         *)

Renewing(s) == {d \in SessionCalls : spc[d] = "renew" /\ sid[d] = s}

(* A refresh token whose hash is not that of the session revokes it.       *)
RefreshLoads(c, s, t) ==
    /\ spc[c] = "new" /\ s \in opened /\ t \in 0..era
    /\ IF s \notin Live
       THEN SessionReplies(c, 401)
       ELSE SessionGoes(c, IF t = tokenHash[s] THEN "renew" ELSE "burn")
    /\ sid' = [sid EXCEPT ![c] = s]
    /\ stok' = [stok EXCEPT ![c] = era]
    /\ raced' = IF Renewing(s) # {} THEN raced \cup {s} ELSE raced
    /\ UNCHANGED <<tableVars, era, sload, logged, granted>>

(* Mutants: every column of the row is written back; the hash of the new   *)
(* token is not.                                                           *)
RenewsWholeRow(c) ==
    LET s == sid[c]
    IN  /\ spc[c] = "renew" /\ member
        /\ accessHash' = [accessHash EXCEPT ![s] = stok[c]]
        /\ revoked' = revoked \ {s}
        /\ granted' = granted \cup {<<s, stok[c]>>}
        /\ SessionReplies(c, 200)
        /\ UNCHANGED <<member, opened, lapsed, tokenHash, era, sid, stok, sload, logged, raced>>

RenewsKeepingHash(c) ==
    /\ spc[c] = "renew"
    /\ granted' = granted \cup {<<sid[c], stok[c]>>}
    /\ SessionReplies(c, 200)
    /\ UNCHANGED <<tableVars, era, sid, stok, sload, logged, raced>>

(* Only the columns that changed are written: the hash and last_used_at.   *)
Renews(c) ==
    LET s == sid[c]
    IN  /\ spc[c] = "renew"
        /\ IF member
           THEN /\ accessHash' = [accessHash EXCEPT ![s] = stok[c]]
                /\ granted' = granted \cup {<<s, stok[c]>>}
                /\ SessionReplies(c, 200)
           ELSE SessionReplies(c, 500) /\ UNCHANGED <<accessHash, granted>>
        /\ UNCHANGED <<member, opened, revoked, lapsed, tokenHash,
                       era, sid, stok, sload, logged, raced>>

Burns(c) ==
    /\ spc[c] = "burn"
    /\ revoked' = IF member THEN revoked \cup {sid[c]} ELSE revoked
    /\ SessionReplies(c, IF member THEN 401 ELSE 500)
    /\ UNCHANGED <<member, opened, lapsed, accessHash, tokenHash,
                   era, sid, stok, sload, logged, granted, raced>>

----------------------------------------------------------------------------
(* decode_user_from_token, and the requests it admits.                     *)

Accepts(s, t) == s # NoCookie => s \in Live /\ accessHash[s] = t

Decode(c, s, t, op) ==
    /\ spc[c] = "new" /\ s \in opened \cup {NoCookie} /\ t \in 0..era
    /\ IF member /\ Accepts(s, t) THEN SessionGoes(c, op) ELSE SessionReplies(c, 401)
    /\ sid' = [sid EXCEPT ![c] = s]
    /\ UNCHANGED <<tableVars, era, stok, sload, logged, granted, raced>>

Reads(c) ==
    /\ spc[c] = "read"
    /\ RequestReplies(c, 200)
    /\ UNCHANGED <<tableVars, era, sid, stok, sload, logged, granted, raced>>

(* What a revocation is going to update, or the status without an update.  *)
Updates(c, ids) ==
    /\ SessionGoes(c, "update")
    /\ sload' = [sload EXCEPT ![c] = ids]

LogoutLoads(c) ==
    /\ spc[c] = "logout"
    /\ IF member /\ sid[c] # NoCookie
       THEN Updates(c, {sid[c]}) ELSE RequestReplies(c, 404) /\ UNCHANGED sload
    /\ UNCHANGED <<tableVars, era, sid, stok, logged, granted, raced>>

(* The session of the cookie is already in the identity map, as it was     *)
(* when the request was admitted: not revoked.                             *)
RevokeLoads(c, s) ==
    /\ spc[c] = "revoke" /\ s \in SessionIds
    /\ IF member /\ s \in opened /\ (s \notin revoked \/ s = sid[c])
       THEN Updates(c, {s})
       ELSE /\ RequestReplies(c, IF member /\ s \in opened THEN 200 ELSE 404)
            /\ UNCHANGED sload
    /\ UNCHANGED <<tableVars, era, sid, stok, logged, granted, raced>>

RevokeAllLoads(c) ==
    /\ spc[c] = "revokeall"
    /\ Updates(c, IF member THEN opened ELSE {})
    /\ UNCHANGED <<tableVars, era, sid, stok, logged, granted, raced>>

(* An update of rows that were deleted with their user raises.             *)
Revokes(c) ==
    /\ spc[c] = "update"
    /\ IF member \/ sload[c] = {}
       THEN revoked' = revoked \cup sload[c] /\ RequestReplies(c, 200)
       ELSE UNCHANGED revoked /\ RequestReplies(c, 500)
    /\ UNCHANGED <<member, opened, lapsed, accessHash, tokenHash,
                   era, sid, stok, sload, logged, granted, raced>>

(* delete_account; the foreign key deletes the sessions with the user.     *)
DeletesAccount(c) ==
    /\ spc[c] = "delete"
    /\ member' = FALSE
    /\ RequestReplies(c, IF member THEN 204 ELSE 500)
    /\ UNCHANGED <<opened, revoked, lapsed, accessHash, tokenHash,
                   era, sid, stok, sload, logged, granted, raced>>

SessionDbError(c) ==
    /\ spc[c] \in Inside
    /\ IF spc[c] \in {"issue", "renew", "burn"}
       THEN SessionReplies(c, 500) ELSE RequestReplies(c, 500)
    /\ UNCHANGED <<tableVars, era, sid, stok, sload, logged, granted, raced>>

(* ActivityLoggerMiddleware: a row that the foreign key refuses is dropped *)
(* in silence.                                                             *)
Logs(c) ==
    /\ spc[c] = "log"
    /\ spc' = [spc EXCEPT ![c] = "end"]
    /\ logged' = IF member THEN logged \cup {c} ELSE logged
    /\ UNCHANGED <<tableVars, era, sid, stok, sload, scode, granted, raced>>

----------------------------------------------------------------------------
Lapses(s) ==
    /\ s \in Live
    /\ lapsed' = lapsed \cup {s}
    /\ UNCHANGED <<member, opened, revoked, accessHash, tokenHash,
                   era, spc, sid, stok, sload, scode, logged, granted, raced>>

NextEra ==
    /\ era < MaxEra
    /\ era' = era + 1
    /\ UNCHANGED <<tableVars, spc, sid, stok, sload, scode, logged, granted, raced>>

SessionStep(c) ==
    \/ Authenticate(c) \/ Issue(c)
    \/ \E s \in SessionIds, t \in Eras : RefreshLoads(c, s, t)
    \/ Renews(c) \/ Burns(c)
    \/ \E s \in SessionIds \cup {NoCookie}, t \in Eras, op \in Requested :
          Decode(c, s, t, op)
    \/ Reads(c) \/ LogoutLoads(c)
    \/ \E s \in SessionIds : RevokeLoads(c, s)
    \/ RevokeAllLoads(c) \/ Revokes(c) \/ DeletesAccount(c)
    \/ SessionDbError(c) \/ Logs(c)

SessionNext ==
    \/ \E c \in SessionCalls : SessionStep(c)
    \/ \E s \in SessionIds : Lapses(s)
    \/ NextEra

SessionSpec == SessionInit /\ [][SessionNext]_sessionVars

----------------------------------------------------------------------------
(* Properties.                                                             *)

(* What a logout or a revocation was answered for stays revoked, whatever  *)
(* a refresh that had loaded the session before writes after it.           *)
RevocationHolds ==
    \A c \in SessionCalls :
        spc[c] \in {"log", "end"} /\ scode[c] = 200 => sload[c] \subseteq revoked

(* The access token that was handed out last for a session is the one its  *)
(* hash accepts, unless two refreshes of the session ran at once; the hash *)
(* is never that of a token nobody was given.                              *)
LatestGrantServes ==
    \A s \in opened :
        /\ <<s, accessHash[s]>> \in granted
        /\ s \notin raced => \A g \in granted : g[1] = s => g[2] <= accessHash[s]

============================================================================
