------------------------------ MODULE Accounts ------------------------------
(***************************************************************************)
(* Accounts and the secrets mailed about them.  A verification code, a     *)
(* password link or a staff invitation is mailed and kept in a redis hash  *)
(* that expires; a later call brings it back, is compared with the hash,   *)
(* does what it is for and deletes the hash.  Between any two redis or     *)
(* database calls of a handler those of the others run, so that a hash may *)
(* be another one when it is written, or deleted, than when it was read.   *)
(*                                                                         *)
(* A secret is identified by the call that mailed it.  Two codes of four   *)
(* digits may coincide; that is not modelled, nor are usernames, which are *)
(* unique in the same way as emails, and the beta link, which only decides *)
(* whether the handler of a code goes on.                                  *)
(***************************************************************************)
EXTENDS Naturals, FiniteSets

CONSTANTS
    Accounts,   \* ids of rows of users, bounding how many are ever created
    Emails,
    Calls,      \* calls of the handlers
    Registered, \* the accounts that exist at the beginning
    emailOf,    \* and their emails
    Scenarios,  \* sets of operations called together, bounding what is explored
    MaxFailures, \* bound on the calls that fail midway
    None

ASSUME RegisteredAssumption ==
    /\ Registered \subseteq Accounts
    /\ emailOf \in [Registered -> Emails]
    /\ \A a, b \in Registered : a # b => emailOf[a] # emailOf[b]
ASSUME MaxFailuresAssumption == MaxFailures \in Nat

CodeKey(e) == <<"code", e>>       \* f'{email}:email_verification'
ResetKey(e) == <<"reset", e>>     \* f'{email}:password_reset'
WindowKey(e) == <<"window", e>>   \* f'{email}_verified_for_password_update'
InviteKey(a) == <<"invite", a>>   \* f'{user_id}:staff-invite'
Keys == ({"code", "reset", "window"} \X Emails) \cup ({"invite"} \X Accounts)

ASSUME NoneAssumption == None \notin Calls \cup Accounts \cup Emails \cup Keys

Sends == {"sendCode", "sendReset", "sendInvite"}
Redeems == {"confirmCode", "signUp", "changeEmail", "changePassword",
            "updatePassword", "acceptInvite"}
(* An update of one's own record that brings an email, or a password.      *)
Records == {"recordEmail", "recordPassword"}
OfAccount == {"sendInvite", "changeEmail", "changePassword", "updatePassword",
              "acceptInvite", "confirmPassword", "deleteAccount"} \cup Records
OfEmail == {"sendCode", "sendReset", "confirmCode", "signUp", "changeEmail",
            "register", "google", "recordEmail"}
(* The operations of a user who is signed in (decode_user_from_token).     *)
SignedIn == {"changeEmail", "confirmPassword", "updatePassword", "deleteAccount"}
            \cup Records

Ops == OfAccount \cup OfEmail
ASSUME ScenariosAssumption == Scenarios \subseteq SUBSET Ops

VARIABLES
    row,     \* the users table
    hash,    \* the redis hashes and the key of the password window
    op,      \* a call: the operation, its account, email and secret
    key,     \* the redis key it works on
    pc,      \* its control; a call that fails stays where it failed
    reply,   \* its answer, "none" while it runs
    met      \* history: pairs of calls that ran at the same time

vars == <<row, hash, op, key, pc, reply, met>>

Rows == [email : Emails \cup {None},
         role : {"user", "staff", "unborn", "deleted"},
         by : Calls \cup {None},   \* who set the email
         pw : Calls \cup {None}]   \* and who the password
NoRow == [email |-> None, role |-> "unborn", by |-> None, pw |-> None]
NoHash == [here |-> FALSE, secret |-> None, timed |-> FALSE]
Hashes == [here : BOOLEAN, secret : Calls \cup {None}, timed : BOOLEAN]
Requests == [do : Ops \cup {"nothing"}, acct : Accounts \cup {None},
             email : Emails \cup {None}, secret : Calls \cup {None}]

TypeOK ==
    /\ row \in [Accounts -> Rows]
    /\ hash \in [Keys -> Hashes]
    /\ op \in [Calls -> Requests]
    /\ key \in [Calls -> Keys \cup {None}]
    /\ pc \in [Calls -> {"idle", "look", "find", "put", "stamp", "expire",
                         "load", "check", "delete", "unique", "rename", "commit",
                         "cleanup", "select", "insert", "open", "record", "remove", "done"}]
    /\ reply \in [Calls -> {"none", "sent", "wait", "ok", "refused", "error"}]
    /\ met \subseteq Calls \X Calls

Nothing == [do |-> "nothing", acct |-> None, email |-> None, secret |-> None]

Init ==
    /\ row = [a \in Accounts |->
                 IF a \in Registered
                 THEN [email |-> emailOf[a], role |-> "user", by |-> None, pw |-> None]
                 ELSE NoRow]
    /\ hash = [k \in Keys |-> NoHash]
    /\ op = [c \in Calls |-> Nothing] /\ key = [c \in Calls |-> None]
    /\ pc = [c \in Calls |-> "idle"] /\ reply = [c \in Calls |-> "none"]
    /\ met = {}

Alive(a) == row[a].role \in {"user", "staff"}
Taken(e) == \E a \in Accounts : Alive(a) /\ row[a].email = e
(* What the unique constraint lets the row of an account become.           *)
MayTake(a, e) == row[a].email = e \/ ~Taken(e)
Running(c) == pc[c] \notin {"idle", "done"} /\ reply[c] = "none"
At(c, where) == pc[c] = where /\ reply[c] = "none"

Goes(c, where) == pc' = [pc EXCEPT ![c] = where] /\ UNCHANGED reply
Replies(c, answer) ==
    pc' = [pc EXCEPT ![c] = "done"] /\ reply' = [reply EXCEPT ![c] = answer]

(* What users may have in their mail: the secrets of the calls that got as *)
(* far as to store them.                                                   *)
Mailed == {c \in Calls : pc[c] \in {"put", "stamp", "expire"} \/ reply[c] = "sent"}

(***************************************************************************)
(* A request arrives, with its account, email and secret where it has them.*)
(***************************************************************************)
FirstOf(do) ==
    CASE do \in {"sendCode", "sendInvite"} -> "look"
      [] do = "sendReset" -> "find"
      [] do = "changePassword" -> "load"
      [] do \in Redeems \ {"changePassword"} -> "check"
      [] do \in {"register", "google"} -> "select"
      [] do = "confirmPassword" -> "open"
      [] do \in Records -> "record"
      [] do = "deleteAccount" -> "remove"

KeyOf(r) ==
    CASE r.do \in {"sendCode", "confirmCode", "signUp", "changeEmail"} -> CodeKey(r.email)
      [] r.do = "sendReset" -> ResetKey(r.email)
      [] r.do \in {"sendInvite", "acceptInvite"} -> InviteKey(r.acct)
      [] r.do \in {"confirmPassword", "updatePassword"} -> WindowKey(row[r.acct].email)
      [] OTHER -> None

Arrives(c, r) ==
    /\ r.do \in SignedIn => Alive(r.acct)
    /\ op' = [op EXCEPT ![c] = r]
    /\ key' = [key EXCEPT ![c] = KeyOf(r)]
    /\ Goes(c, FirstOf(r.do))
    /\ LET others == {d \in Calls : Running(d)} IN
           met' = met \cup (others \X {c}) \cup ({c} \X others)
    /\ UNCHANGED <<row, hash>>

(* Calls are alike, so the next one may always be the same of those left.  *)
Request(c) ==
    \E together \in Scenarios :
    /\ pc[c] = "idle" /\ c = CHOOSE d \in Calls : pc[d] = "idle"
    /\ \A d \in Calls : op[d].do \in together \cup {"nothing"}
    /\ \E do \in together :
       \E a \in IF do \in OfAccount THEN Accounts ELSE {None} :
       \E e \in IF do \in OfEmail THEN Emails ELSE {None} :
       \E s \in IF do \in Redeems \ {"updatePassword"} THEN Mailed \cup {None} ELSE {None} :
          Arrives(c, [do |-> do, acct |-> a, email |-> e, secret |-> s])

(***************************************************************************)
(* Sending a secret.  The mail goes out in the step that finds that it may,*)
(* for nothing is awaited between them.                                    *)
(***************************************************************************)
(* Mutant of Held: an earlier secret stays out of account.                 *)
HeldNever(k) == FALSE

(* hget of the secret, or exists for an invitation.                        *)
Held(k) == IF k[1] = "invite" THEN hash[k].here ELSE hash[k].secret # None

Look(c) ==
    /\ At(c, "look")
    /\ IF Held(key[c]) THEN Replies(c, "wait")
       ELSE Goes(c, IF op[c].do = "sendInvite" THEN "find" ELSE "put")
    /\ UNCHANGED <<row, hash, op, key, met>>

(* The user with the email of a password link.                             *)
FindByEmail(c) ==
    /\ At(c, "find") /\ op[c].do = "sendReset"
    /\ IF Taken(op[c].email) THEN Goes(c, "look") ELSE Replies(c, "refused")
    /\ UNCHANGED <<row, hash, op, key, met>>

(* The user to invite; one who is not there has no email to read.          *)
FindInvited(c) ==
    /\ At(c, "find") /\ op[c].do = "sendInvite"
    /\ LET a == op[c].acct IN
           IF ~Alive(a) THEN Replies(c, "error")
           ELSE IF row[a].role = "staff" THEN Replies(c, "refused")
           ELSE Goes(c, "put")
    /\ UNCHANGED <<row, hash, op, key, met>>

(* hset of the secret, which keeps the expiry of a hash that is there.     *)
Put(c) ==
    /\ At(c, "put")
    /\ hash' = [hash EXCEPT ![key[c]] = [here |-> TRUE, secret |-> c, timed |-> @.timed]]
    /\ Goes(c, IF op[c].do = "sendInvite" THEN "expire" ELSE "stamp")
    /\ UNCHANGED <<row, op, key, met>>

(* Mutant of Stamp: the sender forgets that the hash has to expire.        *)
StampOnly(c) ==
    /\ At(c, "stamp")
    /\ hash' = [hash EXCEPT ![key[c]].here = TRUE]
    /\ Replies(c, "sent")
    /\ UNCHANGED <<row, op, key, met>>

(* hset of the time of expiry, which makes the hash again if it is gone.   *)
Stamp(c) ==
    /\ At(c, "stamp")
    /\ hash' = [hash EXCEPT ![key[c]].here = TRUE]
    /\ Goes(c, "expire")
    /\ UNCHANGED <<row, op, key, met>>

Expire(c) ==
    /\ At(c, "expire")
    /\ hash' = [hash EXCEPT ![key[c]].timed = hash[key[c]].here]
    /\ Replies(c, "sent")
    /\ UNCHANGED <<row, op, key, met>>

(* confirm_password_for_update: one set with its expiry.                   *)
Open(c) ==
    /\ At(c, "open")
    /\ hash' = [hash EXCEPT ![key[c]] = [here |-> TRUE, secret |-> c, timed |-> TRUE]]
    /\ Replies(c, "ok")
    /\ UNCHANGED <<row, op, key, met>>

(***************************************************************************)
(* Bringing a secret back.                                                 *)
(***************************************************************************)
(* db.get of the user a password link names; the hash is that of the email *)
(* the user has at this moment.                                            *)
LoadOwner(c) ==
    /\ At(c, "load") /\ op[c].do = "changePassword"
    /\ LET a == op[c].acct IN
           IF Alive(a)
           THEN key' = [key EXCEPT ![c] = ResetKey(row[a].email)] /\ Goes(c, "check")
           ELSE Replies(c, "refused") /\ UNCHANGED key
    /\ UNCHANGED <<row, hash, op, met>>

(* Mutant of Matches: any secret will do while there is one.               *)
MatchesAny(c) == hash[key[c]].secret # None

Matches(c) ==
    /\ hash[key[c]].secret # None
    /\ op[c].do # "updatePassword" => op[c].secret = hash[key[c]].secret

(* hget and comparison.  updatePassword brings no secret: it takes the     *)
(* window it finds.  A password may be refused for being the old one.      *)
Check(c) ==
    /\ At(c, "check")
    /\ IF ~Matches(c) THEN Replies(c, "refused") /\ UNCHANGED op
       ELSE /\ op' = IF op[c].do # "updatePassword" THEN op
                     ELSE [op EXCEPT ![c].secret = hash[key[c]].secret]
            /\ CASE op[c].do \in {"confirmCode", "signUp", "changeEmail"} -> Goes(c, "delete")
                 [] op[c].do = "acceptInvite" -> Goes(c, "load")
                 [] op[c].do \in {"changePassword", "updatePassword"} ->
                       Goes(c, "commit") \/ Replies(c, "refused")
    /\ UNCHANGED <<row, hash, key, met>>

LoadInvited(c) ==
    /\ At(c, "load") /\ op[c].do = "acceptInvite"
    /\ LET a == op[c].acct IN
           IF Alive(a) /\ row[a].role # "staff" THEN Goes(c, "commit")
           ELSE Replies(c, "refused")
    /\ UNCHANGED <<row, hash, op, key, met>>

(* UPDATE of the user.  If the row is gone the commit raises; update_pass- *)
(* word deletes its window all the same (finally).                         *)
Commit(c) ==
    /\ At(c, "commit")
    /\ LET a == op[c].acct IN
           IF Alive(a)
           THEN /\ row' = [row EXCEPT ![a] =
                       IF op[c].do = "acceptInvite" THEN [@ EXCEPT !.role = "staff"]
                       ELSE [@ EXCEPT !.pw = c]]
                /\ Goes(c, "delete")
           ELSE /\ IF op[c].do = "updatePassword" THEN Goes(c, "cleanup")
                   ELSE Replies(c, "error")
                /\ UNCHANGED row
    /\ UNCHANGED <<hash, op, key, met>>

CommitFails(c) ==
    /\ At(c, "commit") /\ op[c].do = "updatePassword"
    /\ Goes(c, "cleanup")
    /\ UNCHANGED <<row, hash, op, key, met>>

(* Mutant of Delete: a changed password leaves its link in place.          *)
DeleteSome(c) ==
    /\ pc[c] \in {"delete", "cleanup"} /\ reply[c] = "none"
    /\ hash' = IF op[c].do = "changePassword" THEN hash
               ELSE [hash EXCEPT ![key[c]] = NoHash]
    /\ CASE pc[c] = "cleanup" \/ op[c].do = "signUp" -> Replies(c, "error")
         [] pc[c] = "delete" /\ op[c].do = "changeEmail" -> Goes(c, "unique")
         [] OTHER -> Replies(c, "ok")
    /\ UNCHANGED <<row, op, key, met>>

(* The hash is deleted, whatever it holds by now.  To sign up ends here:   *)
(* user_role is put in a tuple, which is neither role, so that no user is  *)
(* created and reading its id raises.                                      *)
Delete(c) ==
    /\ pc[c] \in {"delete", "cleanup"} /\ reply[c] = "none"
    /\ hash' = [hash EXCEPT ![key[c]] = NoHash]
    /\ CASE pc[c] = "cleanup" \/ op[c].do = "signUp" -> Replies(c, "error")
         [] pc[c] = "delete" /\ op[c].do = "changeEmail" -> Goes(c, "unique")
         [] OTHER -> Replies(c, "ok")
    /\ UNCHANGED <<row, op, key, met>>

(* email_uniqueness_check, after the code is used up.                      *)
Unique(c) ==
    /\ At(c, "unique")
    /\ IF Taken(op[c].email) THEN Replies(c, "refused") ELSE Goes(c, "rename")
    /\ UNCHANGED <<row, hash, op, key, met>>

Rename(c) ==
    /\ At(c, "rename")
    /\ LET a == op[c].acct IN
           IF Alive(a) /\ MayTake(a, op[c].email)
           THEN /\ row' = [row EXCEPT ![a] = [@ EXCEPT !.email = op[c].email, !.by = c]]
                /\ Replies(c, "ok")
           ELSE Replies(c, "error") /\ UNCHANGED row
    /\ UNCHANGED <<hash, op, key, met>>

(***************************************************************************)
(* Rows that come and go.  The unique constraint decides at the insertion. *)
(***************************************************************************)
Select(c) ==
    /\ At(c, "select")
    /\ IF ~Taken(op[c].email) THEN Goes(c, "insert")
       ELSE Replies(c, IF op[c].do = "google" THEN "ok" ELSE "refused")
    /\ UNCHANGED <<row, hash, op, key, met>>

(* Mutant of Insert: without the unique constraint.                        *)
InsertAnyway(c) ==
    /\ At(c, "insert")
    /\ \E a \in Accounts :
          /\ row[a].role = "unborn"
          /\ row' = [row EXCEPT ![a] =
                 [email |-> op[c].email, role |-> "user", by |-> c,
                  pw |-> IF op[c].do = "google" THEN None ELSE c]]
          /\ Replies(c, "ok")
    /\ UNCHANGED <<hash, op, key, met>>

Insert(c) ==
    /\ At(c, "insert")
    /\ IF Taken(op[c].email) THEN Replies(c, "error") /\ UNCHANGED row
       ELSE \E a \in Accounts :
              /\ row[a].role = "unborn"
              /\ row' = [row EXCEPT ![a] =
                     [email |-> op[c].email, role |-> "user", by |-> c,
                      pw |-> IF op[c].do = "google" THEN None ELSE c]]
              /\ Replies(c, "ok")
    /\ UNCHANGED <<hash, op, key, met>>

(* user_record_update with fields of the user: they are put in the row as  *)
(* they come, and the unique constraint decides at the flush.              *)
RecordEmail(c) ==
    /\ At(c, "record") /\ op[c].do = "recordEmail"
    /\ LET a == op[c].acct IN
           IF Alive(a) /\ MayTake(a, op[c].email)
           THEN /\ row' = [row EXCEPT ![a] = [@ EXCEPT !.email = op[c].email, !.by = c]]
                /\ Replies(c, "ok")
           ELSE /\ Alive(a) \/ Taken(op[c].email)
                /\ Replies(c, "error") /\ UNCHANGED row
    /\ UNCHANGED <<hash, op, key, met>>

(* For who is gone a user with the email is made if there is none (create_ *)
(* or_update_object), and it raises then: there is nobody to answer with.  *)
RecordAnew(c) ==
    /\ At(c, "record") /\ op[c].do = "recordEmail"
    /\ ~Alive(op[c].acct) /\ ~Taken(op[c].email)
    /\ \E a \in Accounts :
          /\ row[a].role = "unborn"
          /\ row' = [row EXCEPT ![a] =
                 [email |-> op[c].email, role |-> "user", by |-> c, pw |-> None]]
    /\ Replies(c, "error")
    /\ UNCHANGED <<hash, op, key, met>>

(* A password is no column, and a user is not made with it.                *)
RecordPassword(c) ==
    /\ At(c, "record") /\ op[c].do = "recordPassword"
    /\ LET a == op[c].acct IN
           IF Alive(a)
           THEN row' = [row EXCEPT ![a] = [@ EXCEPT !.pw = c]] /\ Replies(c, "ok")
           ELSE Replies(c, "error") /\ UNCHANGED row
    /\ UNCHANGED <<hash, op, key, met>>

Remove(c) ==
    /\ At(c, "remove")
    /\ row' = [row EXCEPT ![op[c].acct] = [NoRow EXCEPT !.role = "deleted"]]
    /\ Replies(c, "ok")
    /\ UNCHANGED <<hash, op, key, met>>

(***************************************************************************)
(* The environment.                                                        *)
(***************************************************************************)
(* Redis, the database or the mail raises, or the server dies: the call is *)
(* over, and what it has done stays.                                       *)
Failed(c) == pc[c] # "done" /\ reply[c] = "error"
Fail(c) ==
    /\ Running(c) /\ Cardinality({d \in Calls : Failed(d)}) < MaxFailures
    /\ reply' = [reply EXCEPT ![c] = "error"]
    /\ UNCHANGED <<row, hash, op, key, pc, met>>

Lapse(k) ==
    /\ hash[k].here /\ hash[k].timed
    /\ hash' = [hash EXCEPT ![k] = NoHash]
    /\ UNCHANGED <<row, op, key, pc, reply, met>>

Step(c) ==
    \/ Look(c) \/ FindByEmail(c) \/ FindInvited(c) \/ Put(c) \/ Stamp(c) \/ Expire(c)
    \/ Open(c)
    \/ LoadOwner(c) \/ Check(c) \/ LoadInvited(c) \/ Commit(c) \/ CommitFails(c)
    \/ Delete(c) \/ Unique(c) \/ Rename(c)
    \/ Select(c) \/ Insert(c) \/ Remove(c)
    \/ RecordEmail(c) \/ RecordAnew(c) \/ RecordPassword(c)

Next ==
    \/ \E c \in Calls : Request(c) \/ Step(c) \/ Fail(c)
    \/ \E k \in Keys : Lapse(k)

Spec == Init /\ [][Next]_vars

----------------------------------------------------------------------------
(* No two accounts have the same email, however registration, the sign-in  *)
(* with google and changes of email interleave between their check and     *)
(* their write (create_user, get_or_create_user_from_google,               *)
(* email_update_confirmation).                                             *)
OneAccountPerEmail ==
    \A a, b \in Accounts :
        Alive(a) /\ Alive(b) /\ row[a].email = row[b].email => a = b

(* A hash without an expiry, which would refuse new codes for ever, is one *)
(* whose sender has yet to set it, or failed before it did.                *)
ExpiryOwed ==
    \A k \in Keys : hash[k].here /\ ~hash[k].timed =>
        \E c \in Calls : key[c] = k /\ pc[c] \in {"stamp", "expire"}

(* A secret that is in force is used up, expires, or is lost to a call     *)
(* that ran at the same time as its sender: one that had found no secret   *)
(* to wait for, or one that deletes the secret it had read before.  A      *)
(* confirmed password makes a new window of an open one.                   *)
LostProperly(k) ==
    LET d == hash[k].secret IN
    d # None /\ hash'[k].secret # d =>
        \/ hash[k].timed /\ pc' = pc
        \/ \E c \in Calls :
              /\ pc'[c] # pc[c] /\ key[c] = k
              /\ op[c].secret = d \/ <<c, d>> \in met \/ op[c].do = "confirmPassword"
LostOnlyByOverlap == [][\A k \in Keys : LostProperly(k)]_vars

(* Two calls that both succeed with one secret ran at the same time: what  *)
(* was used up is never accepted later (the delete after the effect).      *)
Succeeded(c) == op[c].do \in Redeems /\ reply[c] = "ok"
RedeemedOnce ==
    \A c, d \in Calls :
        /\ c # d /\ Succeeded(c) /\ Succeeded(d)
        /\ op[c].secret = op[d].secret
        => <<c, d>> \in met

(* Who is staff was invited by the secret sent for this very account; a    *)
(* password or an email was changed by a call with the secret mailed for   *)
(* the key that belongs to that change, by the admin, or by an update of   *)
(* the own record (user_record_update), which asks for no secret.          *)
BroughtBack(c, do) ==
    LET s == op[c].secret IN
    s # None /\ s # c /\ op[s].do = do /\ key[s] = key[c]
Proven(a) ==
    /\ row[a].role = "staff" =>
          \E c \in Calls : op[c].do = "acceptInvite" /\ op[c].acct = a
                           /\ BroughtBack(c, "sendInvite")
    /\ LET c == row[a].pw IN c # None =>
          /\ op[c].do = "changePassword" => BroughtBack(c, "sendReset")
          /\ op[c].do = "updatePassword" => BroughtBack(c, "confirmPassword")
    /\ LET c == row[a].by IN c # None =>
          /\ row[a].email = op[c].email
          /\ op[c].do = "changeEmail" => BroughtBack(c, "sendCode")
ChangesAreProven == \A a \in Accounts : Alive(a) => Proven(a)

=============================================================================
