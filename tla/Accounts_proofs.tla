--------------------------- MODULE Accounts_proofs ---------------------------
(***************************************************************************)
(* Proofs about Accounts, for any accounts, emails, calls and scenarios.   *)
(***************************************************************************)
EXTENDS Accounts, TLAPS

(* The kind of key an operation works on.                                  *)
KindOf(do) ==
    IF do \in {"sendCode", "confirmCode", "signUp", "changeEmail"} THEN "code"
    ELSE IF do \in {"sendReset", "changePassword"} THEN "reset"
    ELSE IF do \in {"confirmPassword", "updatePassword"} THEN "window"
    ELSE "invite"

(* What a call is and works on, by where it is.                            *)
Follows(c) ==
    /\ pc[c] = "idle" => op[c] = Nothing /\ key[c] = None /\ reply[c] = "none"
    /\ pc[c] # "idle" => op[c].do \in Ops
    /\ op[c].do \in OfAccount => op[c].acct \in Accounts
    /\ op[c].do \in OfEmail => op[c].email \in Emails
    /\ key[c] # None => key[c][1] = KindOf(op[c].do)
    /\ pc[c] \in {"look", "put", "stamp", "expire"} => op[c].do \in Sends
    /\ pc[c] = "find" => op[c].do \in {"sendReset", "sendInvite"}
    /\ pc[c] = "load" => op[c].do \in {"changePassword", "acceptInvite"}
    /\ pc[c] \in {"check", "delete"} => op[c].do \in Redeems
    /\ pc[c] = "commit" => op[c].do \in {"changePassword", "updatePassword", "acceptInvite"}
    /\ pc[c] \in {"unique", "rename"} => op[c].do = "changeEmail"
    /\ pc[c] \in {"select", "insert"} => op[c].do \in {"register", "google"}
    /\ pc[c] = "cleanup" => op[c].do = "updatePassword"
    /\ pc[c] = "open" => op[c].do = "confirmPassword"
    /\ pc[c] = "remove" => op[c].do = "deleteAccount"
    /\ pc[c] = "record" => op[c].do \in Records
    /\ \/ pc[c] \in {"look", "put", "stamp", "expire", "check", "delete", "commit",
                     "cleanup", "unique", "rename", "open"}
       \/ pc[c] = "find"
       \/ pc[c] = "load" /\ op[c].do = "acceptInvite"
       => key[c] # None

(* A row that is alive has an email.                                       *)
RowsHaveEmails == \A a \in Accounts : Alive(a) => row[a].email \in Emails

ControlInv == TypeOK /\ RowsHaveEmails /\ \A c \in Calls : Follows(c)

LEMMA KeysTyped ==
    /\ \A e \in Emails : /\ CodeKey(e) \in Keys /\ CodeKey(e)[1] = "code"
                         /\ ResetKey(e) \in Keys /\ ResetKey(e)[1] = "reset"
                         /\ WindowKey(e) \in Keys /\ WindowKey(e)[1] = "window"
    /\ \A a \in Accounts : InviteKey(a) \in Keys /\ InviteKey(a)[1] = "invite"
    /\ None \notin Keys
BY NoneAssumption DEF Keys, CodeKey, ResetKey, WindowKey, InviteKey

LEMMA ControlInit == Init => ControlInv
<1> SUFFICES ASSUME Init PROVE ControlInv
  OBVIOUS
<1> USE DEF Init
<1>1. row \in [Accounts -> Rows]
  BY RegisteredAssumption DEF Rows, NoRow
<1>2. TypeOK
  BY <1>1 DEF TypeOK, Hashes, NoHash, Requests, Nothing
<1>3. RowsHaveEmails
  BY RegisteredAssumption DEF RowsHaveEmails, Alive, NoRow
<1>4. \A c \in Calls : Follows(c)
  BY DEF Follows, Nothing, Sends, Redeems, OfAccount, OfEmail, Records
<1>5. QED
  BY <1>2, <1>3, <1>4 DEF ControlInv

(* A request that arrives is well-formed.                                  *)
LEMMA ArrivalControl ==
    ASSUME ControlInv, NEW c \in Calls, Request(c)
    PROVE  ControlInv'
<1>1. PICK do \in Ops, a \in Accounts \cup {None}, e \in Emails \cup {None},
           s \in Calls \cup {None} :
        /\ pc[c] = "idle"
        /\ do \in OfAccount => a \in Accounts
        /\ do \in OfEmail => e \in Emails
        /\ Arrives(c, [do |-> do, acct |-> a, email |-> e, secret |-> s])
  BY ScenariosAssumption DEF Request, Mailed
<1> DEFINE r == [do |-> do, acct |-> a, email |-> e, secret |-> s]
<1>2. r \in Requests /\ r.do = do /\ r.acct = a /\ r.email = e
  BY <1>1 DEF Requests
<1>3. /\ op' = [op EXCEPT ![c] = r] /\ key' = [key EXCEPT ![c] = KeyOf(r)]
      /\ pc' = [pc EXCEPT ![c] = FirstOf(do)] /\ UNCHANGED <<row, hash, reply>>
      /\ do \in SignedIn => Alive(a)
  BY <1>1 DEF Arrives, Goes
<1> HIDE DEF r
<1>4. /\ KeyOf(r) \in Keys \cup {None}
      /\ KeyOf(r) # None => KeyOf(r)[1] = KindOf(do)
      /\ KeyOf(r) = None =>
            do \in {"changePassword", "register", "google", "deleteAccount"} \cup Records
  <2>1. CASE do \in {"sendCode", "confirmCode", "signUp", "changeEmail"}
    BY <1>1, <1>2, <2>1, KeysTyped DEF KeyOf, KindOf, OfEmail
  <2>2. CASE do = "sendReset"
    BY <1>1, <1>2, <2>2, KeysTyped DEF KeyOf, KindOf, OfEmail
  <2>3. CASE do \in {"sendInvite", "acceptInvite"}
    BY <1>1, <1>2, <2>3, KeysTyped DEF KeyOf, KindOf, OfAccount
  <2>4. CASE do \in {"confirmPassword", "updatePassword"}
    BY <1>1, <1>2, <1>3, <2>4, KeysTyped
       DEF KeyOf, KindOf, SignedIn, OfAccount, ControlInv, RowsHaveEmails
  <2>5. CASE do \in {"changePassword", "register", "google", "deleteAccount"} \cup Records
    BY <1>2, <2>5 DEF KeyOf, Records
  <2>6. QED
    BY <1>1, <2>1, <2>2, <2>3, <2>4, <2>5 DEF Ops, OfAccount, OfEmail, Records
<1>5. FirstOf(do) \in {"look", "find", "load", "check", "select", "open", "record", "remove"}
  BY <1>1 DEF FirstOf, Ops, OfAccount, OfEmail, Redeems, Records
<1>6. TypeOK'
  <2>1. met' \subseteq Calls \X Calls
    BY <1>1 DEF ControlInv, TypeOK, Arrives
  <2>2. QED
    BY <1>2, <1>3, <1>4, <1>5, <2>1 DEF ControlInv, TypeOK
<1>7. RowsHaveEmails'
  BY <1>3 DEF ControlInv, RowsHaveEmails, Alive
<1>8. Follows(c)'
  <2>1. op'[c] = r /\ key'[c] = KeyOf(r) /\ pc'[c] = FirstOf(do)
    BY <1>3 DEF ControlInv, TypeOK
  <2>2. /\ FirstOf(do) = "look" => do \in {"sendCode", "sendInvite"}
        /\ FirstOf(do) = "find" => do = "sendReset"
        /\ FirstOf(do) = "load" => do = "changePassword"
        /\ FirstOf(do) = "check" => do \in Redeems /\ do # "changePassword"
        /\ FirstOf(do) = "select" => do \in {"register", "google"}
        /\ FirstOf(do) = "open" => do = "confirmPassword"
        /\ FirstOf(do) = "record" => do \in Records
        /\ FirstOf(do) = "remove" => do = "deleteAccount"
    BY <1>1 DEF FirstOf, Ops, OfAccount, OfEmail, Redeems, Records
  <2>3. QED
    BY <1>1, <1>2, <1>4, <1>5, <2>1, <2>2 DEF Follows, Sends, Redeems, Records
<1>9. \A d \in Calls \ {c} : Follows(d)'
  BY <1>3 DEF ControlInv, TypeOK, Follows
<1>10. QED
  BY <1>6, <1>7, <1>8, <1>9 DEF ControlInv

(* So does every step of a call keep to its course.                        *)
LEMMA StepControl ==
    ASSUME ControlInv, NEW c \in Calls, Step(c)
    PROVE  ControlInv'
<1>0. /\ TypeOK /\ RowsHaveEmails /\ \A d \in Calls : Follows(d)
      /\ op[c] \in Requests /\ key[c] \in Keys \cup {None}
  BY DEF ControlInv, TypeOK
<1> USE DEF At, Goes, Replies
<1>1. CASE Look(c)
  BY <1>0, <1>1 DEF Look, TypeOK, RowsHaveEmails, Alive, Follows, ControlInv
<1>2. CASE FindByEmail(c) \/ FindInvited(c)
  BY <1>0, <1>2 DEF FindByEmail, FindInvited, TypeOK, RowsHaveEmails, Alive, Follows,
                    Sends, ControlInv
<1>3. CASE Put(c) \/ Stamp(c) \/ Expire(c) \/ Open(c)
  <2>1. hash' \in [Keys -> Hashes]
    <3>1. key[c] \in Keys /\ hash \in [Keys -> Hashes] /\ hash[key[c]] \in Hashes
      BY <1>0, <1>3 DEF Put, Stamp, Expire, Open, TypeOK, Follows
    <3>2. CASE Put(c)
      BY <3>1, <3>2 DEF Put, Hashes
    <3>3. CASE Stamp(c)
      BY <3>1, <3>3 DEF Stamp, Hashes
    <3>4. CASE Expire(c)
      BY <3>1, <3>4 DEF Expire, Hashes
    <3>5. CASE Open(c)
      BY <3>1, <3>5 DEF Open, Hashes
    <3>6. QED
      BY <1>3, <3>2, <3>3, <3>4, <3>5
  <2>2. QED
    BY <1>0, <1>3, <2>1 DEF Put, Stamp, Expire, Open, TypeOK, RowsHaveEmails, Alive,
                            Follows, ControlInv
<1>4. CASE LoadOwner(c)
  <2>1. op[c].acct \in Accounts /\ (Alive(op[c].acct) => row[op[c].acct].email \in Emails)
    BY <1>0, <1>4 DEF LoadOwner, Follows, OfAccount, RowsHaveEmails
  <2>2. TypeOK'
    BY <1>0, <1>4, <2>1, KeysTyped DEF LoadOwner, TypeOK
  <2>3. Follows(c)'
    BY <1>0, <1>4, <2>1, KeysTyped DEF LoadOwner, TypeOK, Follows, KindOf, Redeems
  <2>4. QED
    BY <1>0, <1>4, <2>2, <2>3 DEF LoadOwner, TypeOK, RowsHaveEmails, Alive, Follows, ControlInv
<1>5. CASE Check(c)
  <2>1. /\ key[c] \in Keys /\ op[c].do \in Redeems
        /\ hash[key[c]].secret \in Calls \cup {None}
    BY <1>0, <1>5 DEF Check, TypeOK, Hashes, Follows
  <2> DEFINE r == [op[c] EXCEPT !.secret = hash[key[c]].secret]
  <2>2. op' = op \/ op' = [op EXCEPT ![c] = r]
    BY <1>5 DEF Check
  <2>2a. r \in Requests /\ r.do = op[c].do /\ r.acct = op[c].acct /\ r.email = op[c].email
    BY <1>0, <2>1 DEF Requests
  <2> HIDE DEF r
  <2>3. /\ op' \in [Calls -> Requests]
        /\ op'[c].do = op[c].do /\ op'[c].acct = op[c].acct /\ op'[c].email = op[c].email
        /\ \A d \in Calls \ {c} : op'[d] = op[d]
    BY <1>0, <2>2, <2>2a DEF TypeOK
  <2>4. /\ pc[c] = "check" /\ UNCHANGED <<row, hash, key, met>>
        /\ \E where \in {"delete", "load", "commit", "done"} : pc' = [pc EXCEPT ![c] = where]
        /\ pc'[c] = "load" => op[c].do = "acceptInvite"
        /\ pc'[c] = "commit" => op[c].do \in {"changePassword", "updatePassword"}
        /\ reply' = reply \/ reply' = [reply EXCEPT ![c] = "refused"]
    BY <1>0, <1>5, <2>1 DEF Check, TypeOK, Redeems
  <2>5. TypeOK' /\ RowsHaveEmails'
    BY <1>0, <2>3, <2>4 DEF TypeOK, RowsHaveEmails, Alive
  <2>6. Follows(c)'
    BY <1>0, <2>1, <2>3, <2>4 DEF TypeOK, Follows, KindOf
  <2>7. QED
    BY <1>0, <2>3, <2>4, <2>5, <2>6 DEF TypeOK, Follows, ControlInv
<1>6. CASE LoadInvited(c)
  BY <1>0, <1>6 DEF LoadInvited, TypeOK, RowsHaveEmails, Alive, Follows, ControlInv
<1>7. CASE Commit(c) \/ CommitFails(c)
  <2>1. row' \in [Accounts -> Rows] /\ RowsHaveEmails'
    BY <1>0, <1>7 DEF Commit, CommitFails, TypeOK, Rows, RowsHaveEmails, Alive
  <2>2. QED
    BY <1>0, <1>7, <2>1 DEF Commit, CommitFails, TypeOK, Follows, Redeems, ControlInv
<1>8. CASE Delete(c)
  <2>1. hash' \in [Keys -> Hashes]
    BY <1>0, <1>8 DEF Delete, TypeOK, Hashes, NoHash
  <2>2. QED
    BY <1>0, <1>8, <2>1 DEF Delete, TypeOK, RowsHaveEmails, Alive, Follows, ControlInv
<1>9. CASE Unique(c) \/ Select(c)
  BY <1>0, <1>9 DEF Unique, Select, TypeOK, RowsHaveEmails, Alive, Follows, ControlInv
<1>10. CASE \/ Rename(c) \/ RecordEmail(c) \/ RecordAnew(c) \/ RecordPassword(c)
            \/ Insert(c) \/ Remove(c)
  <2>0. /\ Rename(c) \/ RecordEmail(c) \/ RecordAnew(c) \/ Insert(c) => op[c].email \in Emails
        /\ ~Insert(c) => op[c].acct \in Accounts
        /\ row \in [Accounts -> Rows]
    BY <1>0, <1>10 DEF Rename, RecordEmail, RecordAnew, RecordPassword, Insert, Remove, TypeOK, Follows,
         OfEmail, OfAccount, Records
  <2>1. row' \in [Accounts -> Rows] /\ RowsHaveEmails'
    <3>1. CASE Rename(c) \/ RecordEmail(c)
      <4> DEFINE r == [row[op[c].acct] EXCEPT !.email = op[c].email, !.by = c]
      <4>0. op[c].acct \in Accounts /\ op[c].email \in Emails
        BY <1>0, <3>1 DEF Rename, RecordEmail, TypeOK, Follows, OfEmail, OfAccount, Records
      <4>1. row' = row \/ row' = [row EXCEPT ![op[c].acct] = r]
        BY <3>1 DEF Rename, RecordEmail
      <4>2. r \in Rows /\ r.email = op[c].email /\ row[op[c].acct] \in Rows
        BY <2>0, <4>0 DEF Rows
      <4> HIDE DEF r
      <4>3. QED
        BY <1>0, <2>0, <4>0, <4>1, <4>2 DEF RowsHaveEmails, Alive
    <3>2. CASE RecordPassword(c)
      <4> DEFINE r == [row[op[c].acct] EXCEPT !.pw = c]
      <4>0. op[c].acct \in Accounts
        BY <1>0, <3>2 DEF RecordPassword, TypeOK, Follows, OfAccount, Records
      <4>1. CASE ~Alive(op[c].acct)
        BY <1>0, <2>0, <3>2, <4>1 DEF RecordPassword, RowsHaveEmails, Alive
      <4>2. /\ r \in Rows /\ row[op[c].acct] \in Rows
            /\ r.email = row[op[c].acct].email /\ r.role = row[op[c].acct].role
        BY <2>0, <4>0 DEF Rows
      <4>3. CASE Alive(op[c].acct)
        <5>1. row' = [row EXCEPT ![op[c].acct] = r]
          BY <3>2, <4>3 DEF RecordPassword
        <5> HIDE DEF r
        <5>2. QED
          BY <1>0, <2>0, <4>0, <4>2, <4>3, <5>1 DEF RowsHaveEmails, Alive
      <4>4. QED
        BY <4>1, <4>3
    <3>3. CASE Insert(c) \/ RecordAnew(c)
      BY <1>0, <2>0, <3>3 DEF Insert, RecordAnew, Rows, RowsHaveEmails, Alive
    <3>4. CASE Remove(c)
      <4>1. op[c].acct \in Accounts
        BY <1>0, <3>4 DEF Remove, TypeOK, Follows, OfAccount
      <4>2. QED
        BY <1>0, <2>0, <3>4, <4>1 DEF Remove, Rows, NoRow, RowsHaveEmails, Alive
    <3>5. QED
      BY <1>10, <3>1, <3>2, <3>3, <3>4
  <2>2. QED
    BY <1>0, <1>10, <2>1
       DEF Rename, RecordEmail, RecordAnew, RecordPassword, Insert, Remove, TypeOK, Follows, ControlInv
<1>11. QED
  BY <1>1, <1>2, <1>3, <1>4, <1>5, <1>6, <1>7, <1>8, <1>9, <1>10 DEF Step

LEMMA EnvironmentControl ==
    ASSUME ControlInv, (\E c \in Calls : Fail(c)) \/ (\E k \in Keys : Lapse(k))
    PROVE  ControlInv'
<1>1. CASE \E c \in Calls : Fail(c)
  BY <1>1 DEF Fail, Running, ControlInv, TypeOK, RowsHaveEmails, Alive, Follows
<1>2. CASE \E k \in Keys : Lapse(k)
  <2>1. hash' \in [Keys -> Hashes]
    BY <1>2 DEF Lapse, ControlInv, TypeOK, Hashes, NoHash
  <2>2. QED
    BY <1>2, <2>1 DEF Lapse, ControlInv, TypeOK, RowsHaveEmails, Alive, Follows
<1>3. QED
  BY <1>1, <1>2

LEMMA ControlNext == ControlInv /\ [Next]_vars => ControlInv'
<1> SUFFICES ASSUME ControlInv, [Next]_vars PROVE ControlInv'
  OBVIOUS
<1>1. CASE Next
  BY <1>1, ArrivalControl, StepControl, EnvironmentControl DEF Next
<1>2. CASE UNCHANGED vars
  BY <1>2 DEF vars, ControlInv, TypeOK, RowsHaveEmails, Alive, Follows
<1>3. QED
  BY <1>1, <1>2

(* Every reachable state has the declared types.                           *)
THEOREM TypeCorrect == Spec => []TypeOK
<1>1. ControlInv => TypeOK
  BY DEF ControlInv
<1>2. QED
  BY <1>1, ControlInit, ControlNext, PTL DEF Spec

----------------------------------------------------------------------------
(* What the secrets are about.                                             *)

(* It has stored its secret, and will not do it again.                     *)
PastPut(s) ==
    \/ op[s].do \in Sends /\ pc[s] \in {"stamp", "expire", "done"}
    \/ op[s].do = "confirmPassword" /\ pc[s] = "done"

StoredInv ==
    \A k \in Keys : hash[k].secret # None =>
        hash[k].here /\ PastPut(hash[k].secret) /\ key[hash[k].secret] = k

(* Calls that run now have met.                                            *)
MetInv ==
    \A c, d \in Calls :
        /\ c # d /\ Running(c) /\ Running(d) => <<c, d>> \in met
        /\ <<c, d>> \in met => <<d, c>> \in met

(* It has found that it may store a secret: any it overwrites came since.  *)
Blind(c) ==
    /\ Running(c)
    /\ pc[c] = "put" \/ (pc[c] = "find" /\ op[c].do = "sendInvite")
BlindInv ==
    \A c \in Calls : Blind(c) /\ hash[key[c]].secret # None =>
        <<c, hash[key[c]].secret>> \in met

(* Its secret was right, and is to be deleted.                             *)
Holds(c) ==
    /\ op[c].do \in Redeems
    /\ \/ pc[c] \in {"delete", "commit", "cleanup"}
       \/ pc[c] = "load" /\ op[c].do = "acceptInvite"
(* It has deleted it.                                                      *)
Took(c) ==
    op[c].do \in Redeems /\ (reply[c] = "ok" \/ pc[c] \in {"unique", "rename"})

HoldInv ==
    \A c \in Calls : Holds(c) \/ Took(c) =>
        /\ key[c] \in Keys /\ op[c].secret # None
        /\ PastPut(op[c].secret) /\ key[op[c].secret] = key[c]

(* Another secret in its place came while it ran.                          *)
StaleInv ==
    \A c \in Calls : Holds(c) /\ Running(c) =>
        hash[key[c]].secret \in {None, op[c].secret}
          \/ <<c, hash[key[c]].secret>> \in met

(* A secret that was taken is not in force, and who holds or took it too   *)
(* has met the taker.                                                      *)
TookInv ==
    \A c \in Calls : Took(c) =>
        /\ hash[key[c]].secret # op[c].secret
        /\ \A d \in Calls :
              d # c /\ op[d].secret = op[c].secret /\ (Took(d) \/ (Holds(d) /\ Running(d)))
              => <<c, d>> \in met

SecretInv ==
    ControlInv /\ StoredInv /\ MetInv /\ BlindInv /\ HoldInv /\ StaleInv /\ TookInv

(* What a step changes, whatever it is: only the call that makes it, and   *)
(* the secret of its key where it stores or deletes.                       *)
LEMMA StepFrame ==
    ASSUME SecretInv, NEW c \in Calls, Step(c)
    PROVE
    /\ \A d \in Calls \ {c} : /\ op'[d] = op[d] /\ key'[d] = key[d]
                              /\ pc'[d] = pc[d] /\ reply'[d] = reply[d]
    /\ met' = met
    /\ Running(c) /\ pc'[c] # "idle"
    /\ op'[c].do = op[c].do /\ op'[c].acct = op[c].acct /\ op'[c].email = op[c].email
    /\ op'[c].secret # op[c].secret => pc[c] = "check"
    /\ key'[c] # key[c] => pc[c] = "load" /\ op[c].do = "changePassword"
    /\ pc[c] \in {"put", "open"} => key[c] \in Keys /\ hash' = [hash EXCEPT
          ![key[c]] = [here |-> TRUE, secret |-> c, timed |-> hash'[key[c]].timed]]
    /\ pc[c] \in {"delete", "cleanup"} =>
          key[c] \in Keys /\ hash' = [hash EXCEPT ![key[c]] = NoHash]
    /\ pc[c] \notin {"put", "open", "delete", "cleanup"} =>
          \A k \in Keys : hash'[k].secret = hash[k].secret /\ (hash[k].here => hash'[k].here)
    /\ pc'[c] \in {"put", "find"} =>
          \/ pc[c] = "find" /\ op[c].do = "sendInvite" /\ hash[key[c]] = hash'[key[c]]
          \/ pc[c] = "look" /\ hash[key[c]].secret = None
    /\ Holds(c)' => \/ Holds(c)
                    \/ pc[c] = "check" /\ op'[c].secret = hash[key[c]].secret
                       /\ hash[key[c]].secret # None
    /\ Took(c)' => Took(c) \/ (Holds(c) /\ pc[c] \in {"delete", "cleanup"})
    /\ PastPut(c) => PastPut(c)'
    /\ pc[c] = "put" => op[c].do \in Sends
    /\ pc[c] = "open" => op[c].do = "confirmPassword"
    /\ pc[c] \in {"put", "open"} => PastPut(c)'
    /\ pc[c] \in {"put", "open", "delete", "cleanup"} => pc'[c] # pc[c]
<1>0. /\ TypeOK /\ Follows(c) /\ StoredInv
      /\ op[c] \in Requests /\ key[c] \in Keys \cup {None}
  BY DEF SecretInv, ControlInv, TypeOK
<1>20. pc[c] \in {"unique", "rename"} => op[c].do = "changeEmail"
  BY <1>0 DEF Follows
<1> USE DEF At, Goes, Replies, Running, Holds, Took, PastPut, Sends, Redeems
<1>1. CASE Look(c)
  <2>1. key[c] \in Keys /\ op[c].do \in Sends
    BY <1>0, <1>1, KeysTyped DEF Look, Follows
  <2>2. ~Held(key[c]) => hash[key[c]].secret = None
    BY <1>0, <2>1 DEF Held, StoredInv
  <2>3. QED
    BY <1>0, <1>1, <2>1, <2>2 DEF Look, TypeOK
<1>2. CASE FindByEmail(c)
  BY <1>0, <1>2 DEF FindByEmail, TypeOK, Follows
<1>3. CASE FindInvited(c)
  BY <1>0, <1>3 DEF FindInvited, TypeOK, Follows
<1>4. CASE Put(c)
  <2>1. key[c] \in Keys /\ hash[key[c]] \in Hashes
    BY <1>0, <1>4 DEF Put, TypeOK, Follows
  <2>2. hash' = [hash EXCEPT
          ![key[c]] = [here |-> TRUE, secret |-> c, timed |-> hash[key[c]].timed]]
    BY <1>4, <2>1 DEF Put, Hashes
  <2>3. hash'[key[c]].timed = hash[key[c]].timed
    BY <1>0, <2>1, <2>2 DEF TypeOK
  <2>4. hash' = [hash EXCEPT
          ![key[c]] = [here |-> TRUE, secret |-> c, timed |-> hash'[key[c]].timed]]
    BY <2>2, <2>3
  <2>5. op[c].do \in Sends
    BY <1>0, <1>4 DEF Put, Follows
  <2> HIDE DEF Sends
  <2>6. QED
    BY <1>0, <1>4, <2>1, <2>4, <2>5 DEF Put, TypeOK
<1>5. CASE Stamp(c)
  BY <1>0, <1>5 DEF Stamp, TypeOK, Follows
<1>6. CASE Expire(c)
  BY <1>0, <1>6 DEF Expire, TypeOK, Follows
<1>7. CASE Open(c)
  BY <1>0, <1>7 DEF Open, TypeOK, Follows
<1>8. CASE LoadOwner(c)
  BY <1>0, <1>8 DEF LoadOwner, TypeOK, Follows
<1>9. CASE Check(c)
  <2> DEFINE r == [op[c] EXCEPT !.secret = hash[key[c]].secret]
  <2>1. op' = IF Matches(c) /\ op[c].do = "updatePassword"
              THEN [op EXCEPT ![c] = r] ELSE op
    BY <1>9 DEF Check
  <2>2. /\ r.do = op[c].do /\ r.acct = op[c].acct /\ r.email = op[c].email
        /\ r.secret = hash[key[c]].secret
    BY <1>0 DEF Requests
  <2> HIDE DEF r
  <2>3. pc'[c] # "done" =>
          op'[c].secret = hash[key[c]].secret /\ hash[key[c]].secret # None
    <3>1. pc'[c] # "done" => Matches(c)
      BY <1>0, <1>9 DEF Check, TypeOK
    <3>2. QED
      BY <1>0, <2>1, <2>2, <3>1 DEF Matches, TypeOK
  <2>4. /\ pc[c] = "check" /\ op[c].do \in Redeems /\ UNCHANGED <<hash, key, met>>
        /\ \E where \in {"delete", "load", "commit", "done"} : pc' = [pc EXCEPT ![c] = where]
        /\ reply' = reply \/ reply' = [reply EXCEPT ![c] = "refused"]
    BY <1>0, <1>9 DEF Check, TypeOK, Follows
  <2>5. /\ op'[c].do = op[c].do /\ op'[c].acct = op[c].acct /\ op'[c].email = op[c].email
        /\ \A d \in Calls \ {c} : op'[d] = op[d]
    BY <1>0, <2>1, <2>2 DEF TypeOK
  <2>6. /\ pc'[c] \in {"delete", "load", "commit", "done"}
        /\ reply[c] = "none" /\ reply'[c] \in {"none", "refused"}
        /\ \A d \in Calls \ {c} : pc'[d] = pc[d] /\ reply'[d] = reply[d]
    BY <1>0, <1>9, <2>4 DEF Check, TypeOK
  <2>7. QED
    BY <2>3, <2>4, <2>5, <2>6
<1>10. CASE LoadInvited(c)
  BY <1>0, <1>10 DEF LoadInvited, TypeOK, Follows
<1>11. CASE Commit(c)
  BY <1>0, <1>11 DEF Commit, TypeOK, Follows
<1>12. CASE CommitFails(c)
  BY <1>0, <1>12 DEF CommitFails, TypeOK, Follows
<1>13. CASE Delete(c)
  BY <1>0, <1>13 DEF Delete, TypeOK, Follows
<1>14. CASE Unique(c)
  BY <1>0, <1>14, <1>20 DEF Unique, TypeOK
<1>15. CASE Rename(c)
  BY <1>0, <1>15, <1>20 DEF Rename, TypeOK
<1>16. CASE Select(c)
  BY <1>0, <1>16 DEF Select, TypeOK, Follows
<1>17. CASE Insert(c)
  BY <1>0, <1>17 DEF Insert, TypeOK, Follows
<1>18. CASE Remove(c)
  BY <1>0, <1>18 DEF Remove, TypeOK, Follows
<1>19. CASE RecordEmail(c) \/ RecordAnew(c) \/ RecordPassword(c)
  BY <1>0, <1>19 DEF RecordEmail, RecordAnew, RecordPassword, TypeOK, Follows
<1>21. QED
  BY <1>1, <1>2, <1>3, <1>4, <1>5, <1>6, <1>7, <1>8, <1>9, <1>10, <1>11, <1>12, <1>13, <1>14, <1>15, <1>16, <1>17, <1>18, <1>19 DEF Step

LEMMA SecretInit == Init => SecretInv
<1> SUFFICES ASSUME Init PROVE SecretInv
  OBVIOUS
<1>1. StoredInv /\ BlindInv
  BY DEF Init, StoredInv, NoHash, BlindInv, Blind, Running
<1>2. MetInv
  BY DEF Init, MetInv, Running
<1>3. \A c \in Calls : ~Holds(c) /\ ~Took(c)
  BY DEF Init, Holds, Took, Nothing, Redeems
<1>4. QED
  BY <1>1, <1>2, <1>3, ControlInit DEF SecretInv, HoldInv, StaleInv, TookInv

LEMMA StepSecrets ==
    ASSUME SecretInv, NEW c \in Calls, Step(c)
    PROVE  SecretInv'
<1>0. /\ ControlInv /\ StoredInv /\ MetInv /\ BlindInv /\ HoldInv /\ StaleInv /\ TookInv
      /\ hash \in [Keys -> Hashes] /\ \A k \in Keys : hash[k].secret \in Calls \cup {None}
  BY DEF SecretInv, ControlInv, TypeOK, Hashes
<1>1. ControlInv'
  BY <1>0, StepControl
<1>2. /\ \A d \in Calls \ {c} : /\ op'[d] = op[d] /\ key'[d] = key[d]
                                /\ pc'[d] = pc[d] /\ reply'[d] = reply[d]
      /\ met' = met
      /\ Running(c) /\ pc'[c] # "idle"
      /\ op'[c].do = op[c].do /\ op'[c].acct = op[c].acct /\ op'[c].email = op[c].email
      /\ op'[c].secret # op[c].secret => pc[c] = "check"
      /\ key'[c] # key[c] => pc[c] = "load" /\ op[c].do = "changePassword"
  BY StepFrame
(* The keys of what is in a hash, held or taken stay.                      *)
<1>3. \A s \in Calls : PastPut(s) => PastPut(s)' /\ key'[s] = key[s]
  <2>1. PastPut(c) => op[c].do # "changePassword"
    BY DEF PastPut, Sends
  <2>2. \A s \in Calls \ {c} : PastPut(s) => PastPut(s)'
    BY <1>2 DEF PastPut
  <2>3. QED
    BY <1>2, <2>1, <2>2, StepFrame
<1>4. /\ pc[c] \in {"put", "open"} =>
            /\ PastPut(c)' /\ key'[c] = key[c] /\ key[c] \in Keys
            /\ hash'[key[c]].secret = c /\ hash'[key[c]].here
            /\ \A k \in Keys \ {key[c]} : hash'[k] = hash[k]
      /\ pc[c] \in {"delete", "cleanup"} =>
            /\ key[c] \in Keys /\ hash'[key[c]].secret = None
            /\ \A k \in Keys \ {key[c]} : hash'[k] = hash[k]
      /\ pc[c] \notin {"put", "open", "delete", "cleanup"} =>
            \A k \in Keys : hash'[k].secret = hash[k].secret /\ (hash[k].here => hash'[k].here)
  <2>1. pc[c] \in {"put", "open"} => PastPut(c)' /\ key'[c] = key[c] /\ key[c] \in Keys
    BY <1>2, StepFrame
  <2>2. pc[c] \in {"put", "open"} =>
            /\ hash'[key[c]].secret = c /\ hash'[key[c]].here
            /\ \A k \in Keys \ {key[c]} : hash'[k] = hash[k]
    <3> SUFFICES ASSUME pc[c] \in {"put", "open"} PROVE
            /\ hash'[key[c]].secret = c /\ hash'[key[c]].here
            /\ \A k \in Keys \ {key[c]} : hash'[k] = hash[k]
      OBVIOUS
    <3> DEFINE h == [here |-> TRUE, secret |-> c, timed |-> hash'[key[c]].timed]
    <3>1. hash' = [hash EXCEPT ![key[c]] = h]
      BY StepFrame
    <3>2. h.here /\ h.secret = c
      OBVIOUS
    <3> HIDE DEF h
    <3>3. QED
      BY <1>0, <2>1, <3>1, <3>2
  <2>3. pc[c] \in {"delete", "cleanup"} =>
            /\ key[c] \in Keys /\ hash'[key[c]].secret = None
            /\ \A k \in Keys \ {key[c]} : hash'[k] = hash[k]
    <3> SUFFICES ASSUME pc[c] \in {"delete", "cleanup"} PROVE
            /\ key[c] \in Keys /\ hash'[key[c]].secret = None
            /\ \A k \in Keys \ {key[c]} : hash'[k] = hash[k]
      OBVIOUS
    <3>1. key[c] \in Keys /\ hash' = [hash EXCEPT ![key[c]] = NoHash]
      BY StepFrame
    <3>2. QED
      BY <1>0, <3>1 DEF NoHash
  <2>4. QED
    BY <2>1, <2>2, <2>3, StepFrame
<1>5. StoredInv'
  <2> SUFFICES ASSUME NEW k \in Keys, hash'[k].secret # None
               PROVE  /\ hash'[k].here /\ PastPut(hash[k].secret)'
                      /\ key'[hash'[k].secret] = k
    BY DEF StoredInv
  <2>1. CASE hash'[k].secret = hash[k].secret /\ (hash[k].here => hash'[k].here)
    <3>1. PICK s \in Calls : /\ s = hash[k].secret /\ s = hash'[k].secret
                             /\ hash[k].here /\ PastPut(s) /\ key[s] = k
      BY <1>0, <2>1 DEF StoredInv
    <3>2. PastPut(s)' /\ key'[s] = k
      BY <1>3, <3>1
    <3>3. QED
      BY <2>1, <3>1, <3>2 DEF PastPut
  <2>2. CASE pc[c] \in {"put", "open"} /\ k = key[c]
    BY <1>4, <2>2 DEF PastPut
  <2>3. QED
    BY <1>4, <2>1, <2>2
<1>6. MetInv'
  <2>1. \A d \in Calls : Running(d)' => Running(d)
    BY <1>2 DEF Running
  <2>2. QED
    BY <1>0, <1>2, <2>1 DEF MetInv
(* The other calls are where they were, at keys that are in use.           *)
<1>7. \A d \in Calls \ {c} : /\ Running(d)' <=> Running(d)
                             /\ Blind(d)' <=> Blind(d)
                             /\ Holds(d)' <=> Holds(d)
                             /\ Took(d)' <=> Took(d)
  BY <1>2 DEF Running, Blind, Holds, Took
<1>8. \A d \in Calls : Blind(d) \/ Holds(d) \/ Took(d) => key[d] \in Keys
  <2>1. \A d \in Calls : Follows(d) /\ key[d] \in Keys \cup {None}
    BY <1>0 DEF ControlInv, TypeOK
  <2>2. QED
    BY <1>0, <2>1 DEF Blind, Follows, HoldInv
<1>9. BlindInv'
  <2> SUFFICES ASSUME NEW d \in Calls, Blind(d)', hash'[key'[d]].secret # None
               PROVE  <<d, hash'[key'[d]].secret>> \in met
    BY <1>2 DEF BlindInv
  <2>1. CASE d = c
    <3>1. pc'[c] \in {"put", "find"} /\ key'[c] = key[c]
      BY <1>2, <2>1, StepFrame DEF Blind
    <3>2. CASE /\ pc[c] = "find" /\ op[c].do = "sendInvite"
               /\ hash[key[c]] = hash'[key[c]]
      BY <1>0, <1>2, <2>1, <3>1, <3>2 DEF Blind, BlindInv
    <3>3. CASE pc[c] = "look" /\ hash[key[c]].secret = None
      <4>1. key[c] \in Keys
        BY <1>0, <3>3 DEF ControlInv, TypeOK, Follows
      <4>2. QED
        BY <1>4, <2>1, <3>1, <3>3, <4>1
    <3>4. QED
      BY <3>1, <3>2, <3>3, StepFrame
  <2>2. CASE d # c
    <3>1. Blind(d) /\ Running(d) /\ key'[d] = key[d] /\ key[d] \in Keys
      BY <1>2, <1>7, <1>8, <2>2 DEF Blind
    <3>2. CASE hash'[key[d]].secret = hash[key[d]].secret
      BY <1>0, <2>2, <3>1, <3>2 DEF BlindInv
    <3>3. CASE hash'[key[d]].secret = c
      BY <1>0, <1>2, <2>2, <3>1, <3>3 DEF MetInv
    <3>4. QED
      BY <1>4, <3>1, <3>2, <3>3
  <2>3. QED
    BY <2>1, <2>2
<1>10. HoldInv'
  <2> SUFFICES ASSUME NEW d \in Calls, Holds(d)' \/ Took(d)'
               PROVE  \E s \in Calls : /\ s = op'[d].secret /\ PastPut(s)'
                                       /\ key'[d] \in Keys /\ key'[s] = key'[d]
    BY NoneAssumption DEF HoldInv, PastPut
  <2>1. (Holds(d) \/ Took(d)) /\ op'[d].secret = op[d].secret /\ key'[d] = key[d] => 
           \E s \in Calls : /\ s = op'[d].secret /\ PastPut(s)'
                            /\ key'[d] \in Keys /\ key'[s] = key'[d]
    <3> HAVE (Holds(d) \/ Took(d)) /\ op'[d].secret = op[d].secret /\ key'[d] = key[d]
    <3>1. PICK s \in Calls : /\ s = op[d].secret /\ PastPut(s)
                             /\ key[d] \in Keys /\ key[s] = key[d]
      BY <1>0 DEF HoldInv, ControlInv, TypeOK, Requests
    <3>2. QED
      BY <1>3, <3>1
  <2>2. CASE d # c
    BY <1>2, <1>7, <2>1, <2>2
  <2>3. CASE d = c /\ pc[c] # "check"
    BY <1>2, <2>1, <2>3, StepFrame DEF Holds, Took, Running
  <2>4. CASE d = c /\ pc[c] = "check"
    <3>1. /\ op'[c].secret = hash[key[c]].secret /\ hash[key[c]].secret # None
          /\ key'[c] = key[c] /\ key[c] \in Keys
      <4>1. ~Took(c) /\ ~Holds(c)
        BY <1>2, <2>4 DEF Took, Holds, Running
      <4>2. key[c] \in Keys
        BY <1>0, <2>4 DEF ControlInv, TypeOK, Follows
      <4>3. QED
        BY <1>2, <2>4, <4>1, <4>2, StepFrame
    <3>2. PICK s \in Calls : s = hash[key[c]].secret /\ PastPut(s) /\ key[s] = key[c]
      BY <1>0, <3>1 DEF StoredInv
    <3>3. QED
      BY <1>3, <2>4, <3>1, <3>2
  <2>5. QED
    BY <2>2, <2>3, <2>4
<1>11. StaleInv'
  <2> SUFFICES ASSUME NEW d \in Calls, Holds(d)', Running(d)',
                      hash'[key'[d]].secret \notin {None, op'[d].secret}
               PROVE  <<d, hash'[key'[d]].secret>> \in met
    BY <1>2 DEF StaleInv
  <2>1. CASE d # c
    <3>1. /\ Holds(d) /\ Running(d) /\ key'[d] = key[d] /\ op'[d] = op[d]
          /\ key[d] \in Keys
      BY <1>2, <1>7, <1>8, <2>1
    <3>2. CASE hash'[key[d]].secret = hash[key[d]].secret
      BY <1>0, <3>1, <3>2 DEF StaleInv
    <3>3. CASE hash'[key[d]].secret = c
      BY <1>0, <1>2, <2>1, <3>1, <3>3 DEF MetInv
    <3>4. QED
      BY <1>4, <3>1, <3>2, <3>3
  <2>2. CASE d = c /\ pc[c] # "check"
    <3>1. /\ Holds(c) /\ Running(c) /\ key'[c] = key[c] /\ op'[c].secret = op[c].secret
          /\ key[c] \in Keys /\ pc[c] \notin {"put", "open"}
      BY <1>2, <1>8, <2>2, StepFrame DEF Holds
    <3>2. hash'[key[c]].secret \in {None, hash[key[c]].secret}
      BY <1>4, <3>1
    <3>3. QED
      BY <1>0, <2>2, <3>1, <3>2 DEF StaleInv
  <2>3. CASE d = c /\ pc[c] = "check"
    <3>1. /\ op'[c].secret = hash[key[c]].secret /\ key'[c] = key[c]
      BY <1>2, <2>3, StepFrame DEF Holds
    <3>2. key[c] \in Keys
      BY <1>0, <2>3 DEF ControlInv, TypeOK, Follows
    <3>3. QED
      BY <1>4, <2>3, <3>1, <3>2
  <2>4. QED
    BY <2>1, <2>2, <2>3
<1>12. TookInv'
  <2>1. ASSUME NEW d \in Calls, Took(d)'
        PROVE  hash'[key'[d]].secret # op'[d].secret
    <3>1. CASE d # c
      <4>1. /\ Took(d) /\ key'[d] = key[d] /\ op'[d] = op[d] /\ key[d] \in Keys
            /\ op[d].secret # None /\ PastPut(op[d].secret)
            /\ hash[key[d]].secret # op[d].secret
        BY <1>0, <1>2, <1>7, <2>1, <3>1 DEF HoldInv, TookInv
      <4>2. pc[c] \in {"put", "open"} => op[d].secret # c
        BY <4>1 DEF PastPut
      <4>3. QED
        BY <1>4, <4>1, <4>2
    <3>2. CASE d = c /\ Took(c)
      <4>1. /\ pc[c] \in {"unique", "rename"} /\ key[c] \in Keys
            /\ key'[c] = key[c] /\ op'[c].secret = op[c].secret
        BY <1>2, <1>8, <3>2 DEF Took, Running
      <4>2. QED
        BY <1>0, <1>4, <3>2, <4>1 DEF TookInv
    <3>3. CASE d = c /\ Holds(c) /\ pc[c] \in {"delete", "cleanup"}
      <4>1. key'[c] = key[c] /\ op'[c].secret = op[c].secret /\ op[c].secret # None
        BY <1>0, <1>2, <3>3 DEF HoldInv
      <4>2. QED
        BY <1>4, <3>3, <4>1
    <3>4. QED
      BY <2>1, <3>1, <3>2, <3>3, StepFrame
  <2>2. ASSUME NEW d \in Calls, Took(d)', NEW e \in Calls, e # d,
               op'[e].secret = op'[d].secret, Took(e)' \/ (Holds(e)' /\ Running(e)')
        PROVE  <<d, e>> \in met
    <3>1. CASE d # c /\ e # c
      BY <1>0, <1>2, <1>7, <2>2, <3>1 DEF TookInv
    <3>2. CASE d = c
      <4>1. /\ Took(e) \/ (Holds(e) /\ Running(e))
            /\ Took(c) \/ (Holds(c) /\ pc[c] \in {"delete", "cleanup"})
        BY <1>7, <2>2, <3>2, StepFrame
      <4>2. op[e].secret = op[c].secret
        BY <1>2, <2>2, <3>2, <4>1 DEF Took, Running
      <4>3. CASE Took(c)
        BY <1>0, <2>2, <3>2, <4>1, <4>2, <4>3 DEF TookInv
      <4>4. CASE Took(e)
        BY <1>0, <1>2, <2>2, <3>2, <4>1, <4>2, <4>4 DEF TookInv, MetInv
      <4>5. CASE Running(e)
        BY <1>0, <1>2, <2>2, <3>2, <4>5 DEF MetInv
      <4>6. QED
        BY <4>1, <4>3, <4>4, <4>5
    <3>3. CASE e = c /\ pc[c] # "check"
      <4>1. Took(d) /\ op[e].secret = op[d].secret
        BY <1>2, <1>7, <2>2, <3>3
      <4>2. Took(c) \/ Holds(c)
        BY <2>2, <3>3, StepFrame
      <4>3. QED
        BY <1>0, <1>2, <2>2, <3>3, <4>1, <4>2 DEF TookInv
    <3>4. CASE e = c /\ pc[c] = "check"
      <4>1. ~Took(c) /\ ~Holds(c)
        BY <1>2, <3>4 DEF Took, Holds, Running
      <4>2. op'[c].secret = hash[key[c]].secret /\ hash[key[c]].secret # None
        BY <2>2, <3>4, <4>1, StepFrame
      <4>3. key[c] \in Keys
        BY <1>0, <3>4 DEF ControlInv, TypeOK, Follows
      <4>4. Took(d) /\ op[d].secret = hash[key[c]].secret
        BY <1>2, <1>7, <2>2, <3>4, <4>2
      <4>5. key[d] = key[c]
        BY <1>0, <4>2, <4>3, <4>4 DEF HoldInv, StoredInv
      <4>6. QED
        BY <1>0, <4>4, <4>5 DEF TookInv
    <3>5. QED
      BY <3>1, <3>2, <3>3, <3>4
  <2>3. QED
    BY <1>2, <2>1, <2>2 DEF TookInv
<1>13. QED
  BY <1>1, <1>5, <1>6, <1>9, <1>10, <1>11, <1>12 DEF SecretInv

(* A new call has nothing yet, and has met those that run.                 *)
LEMMA ArrivalSecrets ==
    ASSUME SecretInv, NEW c \in Calls, Request(c)
    PROVE  SecretInv'
<1>1. PICK r \in [do : Ops, acct : Accounts \cup {None}, email : Emails \cup {None},
                  secret : Calls \cup {None}] : pc[c] = "idle" /\ Arrives(c, r)
  BY ScenariosAssumption DEF Request, Mailed
<1>2. /\ ControlInv /\ StoredInv /\ MetInv /\ BlindInv /\ HoldInv /\ StaleInv /\ TookInv
      /\ \A k \in Keys : hash[k].secret \in Calls \cup {None}
      /\ \A d \in Calls : op[d].secret \in Calls \cup {None}
  BY DEF SecretInv, ControlInv, TypeOK, Hashes, Requests
<1>3. ControlInv'
  BY <1>2, ArrivalControl
<1>4. /\ \A d \in Calls \ {c} : op'[d] = op[d] /\ key'[d] = key[d] /\ pc'[d] = pc[d]
      /\ op'[c] = r /\ pc'[c] = FirstOf(r.do)
      /\ UNCHANGED <<row, hash, reply>> /\ met \subseteq met'
      /\ op[c] = Nothing /\ reply[c] = "none"
      /\ \A d \in Calls \ {c} : Running(d) => <<d, c>> \in met' /\ <<c, d>> \in met'
      /\ met' \subseteq met \cup (Calls \X {c}) \cup ({c} \X Calls)
      /\ \A d \in Calls : <<c, d>> \in met' <=> <<c, d>> \in met \/ Running(d)
      /\ \A d \in Calls : <<d, c>> \in met' <=> <<d, c>> \in met \/ Running(d)
  <2>1. op[c] = Nothing /\ reply[c] = "none" /\ ~Running(c)
    BY <1>1, <1>2 DEF ControlInv, Follows, Running
  <2>2. QED
    BY <1>1, <1>2, <2>1 DEF Arrives, Goes, ControlInv, TypeOK
<1>5. ~Blind(c)' /\ ~Holds(c)' /\ ~Took(c)' /\ ~PastPut(c)
  <2>1. /\ r.do \in Ops
        /\ FirstOf(r.do) \in {"look", "find", "load", "check", "select", "open", "record", "remove"}
        /\ FirstOf(r.do) = "load" => r.do = "changePassword"
        /\ FirstOf(r.do) = "find" => r.do = "sendReset"
    BY <1>1 DEF FirstOf, Ops, OfAccount, OfEmail, Redeems, Records
  <2>2. QED
    BY <1>4, <2>1 DEF Blind, Holds, Took, PastPut, Nothing, Sends
<1>6. \A d \in Calls \ {c} : /\ Running(d)' <=> Running(d)
                             /\ Blind(d)' <=> Blind(d)
                             /\ Holds(d)' <=> Holds(d)
                             /\ Took(d)' <=> Took(d)
                             /\ PastPut(d)' <=> PastPut(d)
  BY <1>4 DEF Running, Blind, Holds, Took, PastPut
<1>7. StoredInv'
  BY <1>2, <1>4, <1>5, <1>6 DEF StoredInv, PastPut
<1>8. MetInv'
  <2>1. ASSUME NEW d \in Calls, NEW e \in Calls, d # e, Running(d)', Running(e)'
        PROVE  <<d, e>> \in met'
    BY <1>2, <1>4, <1>6, <2>1 DEF MetInv
  <2>2. ASSUME NEW d \in Calls, NEW e \in Calls, <<d, e>> \in met'
        PROVE  <<e, d>> \in met'
    <3>1. CASE d # c /\ e # c
      BY <1>2, <1>4, <2>2, <3>1 DEF MetInv
    <3>2. CASE d = c \/ e = c
      BY <1>2, <1>4, <2>2, <3>2 DEF MetInv
    <3>3. QED
      BY <3>1, <3>2
  <2>3. QED
    BY <2>1, <2>2 DEF MetInv
<1>9. BlindInv'
  BY <1>2, <1>4, <1>5, <1>6 DEF BlindInv
<1>10. HoldInv'
  <2> SUFFICES ASSUME NEW d \in Calls, Holds(d)' \/ Took(d)'
               PROVE  \E s \in Calls : /\ s = op'[d].secret /\ PastPut(s)'
                                       /\ key'[d] \in Keys /\ key'[s] = key'[d]
    BY NoneAssumption DEF HoldInv, PastPut
  <2>1. d # c /\ (Holds(d) \/ Took(d))
    BY <1>5, <1>6
  <2>2. PICK s \in Calls : /\ s = op[d].secret /\ PastPut(s)
                           /\ key[d] \in Keys /\ key[s] = key[d]
    BY <1>2, <2>1 DEF HoldInv
  <2>3. s # c /\ PastPut(s)' /\ s = op'[d].secret
    BY <1>4, <1>5, <1>6, <2>1, <2>2
  <2>4. QED
    BY <1>4, <2>1, <2>2, <2>3
<1>11. StaleInv'
  BY <1>2, <1>4, <1>5, <1>6 DEF StaleInv
<1>12. TookInv'
  BY <1>2, <1>4, <1>5, <1>6 DEF TookInv
<1>13. QED
  BY <1>3, <1>7, <1>8, <1>9, <1>10, <1>11, <1>12 DEF SecretInv

(* A call that fails holds nothing more; an expiry only takes a secret away.*)
LEMMA EnvironmentSecrets ==
    ASSUME SecretInv, (\E c \in Calls : Fail(c)) \/ (\E k \in Keys : Lapse(k))
    PROVE  SecretInv'
<1>1. /\ ControlInv /\ StoredInv /\ MetInv /\ BlindInv /\ HoldInv /\ StaleInv /\ TookInv
      /\ \A d \in Calls : op[d].secret \in Calls \cup {None}
      /\ hash \in [Keys -> Hashes] /\ reply \in [Calls -> {"none", "sent", "wait", "ok",
                                                            "refused", "error"}]
  BY DEF SecretInv, ControlInv, TypeOK, Requests
<1>2. ControlInv'
  BY <1>1, EnvironmentControl
<1>3. CASE \E c \in Calls : Fail(c)
  <2>1. PICK c \in Calls : Fail(c)
    BY <1>3
  <2>2. /\ UNCHANGED <<row, hash, op, key, pc, met>>
        /\ Running(c) /\ ~Running(c)' /\ reply[c] = "none" /\ reply'[c] = "error"
        /\ \A d \in Calls \ {c} : reply'[d] = reply[d]
    BY <1>1, <2>1 DEF Fail, Running
  <2>3. \A d \in Calls : /\ Running(d)' => Running(d)
                         /\ Blind(d)' => Blind(d)
                         /\ Holds(d)' <=> Holds(d)
                         /\ Took(d)' <=> Took(d)
    BY <2>2 DEF Running, Blind, Holds, Took
  <2>4. StoredInv' /\ MetInv' /\ BlindInv'
    BY <1>1, <2>2, <2>3 DEF StoredInv, MetInv, BlindInv, PastPut
  <2>5. HoldInv' /\ StaleInv' /\ TookInv'
    BY <1>1, <2>2, <2>3 DEF HoldInv, StaleInv, TookInv, PastPut
  <2>6. QED
    BY <1>2, <2>4, <2>5 DEF SecretInv
<1>4. CASE \E k \in Keys : Lapse(k)
  <2>1. PICK k \in Keys : Lapse(k)
    BY <1>4
  <2>2. /\ UNCHANGED <<row, op, key, pc, reply, met>>
        /\ \A x \in Keys : hash'[x] = hash[x] \/ hash'[x].secret = None
    BY <1>1, <2>1 DEF Lapse, NoHash
  <2>3. \A d \in Calls : /\ Running(d)' <=> Running(d)
                         /\ Blind(d)' <=> Blind(d)
                         /\ Holds(d)' <=> Holds(d)
                         /\ Took(d)' <=> Took(d)
    BY <2>2 DEF Running, Blind, Holds, Took
  <2>4. \A d \in Calls : Blind(d) \/ Holds(d) \/ Took(d) => key[d] \in Keys
    BY <1>1 DEF ControlInv, TypeOK, Follows, Blind, HoldInv
  <2>5. StoredInv' /\ MetInv'
    BY <1>1, <2>2, <2>3 DEF StoredInv, MetInv, PastPut
  <2>6. BlindInv'
    BY <1>1, <2>2, <2>3, <2>4 DEF BlindInv
  <2>7. HoldInv'
    BY <1>1, <2>2, <2>3 DEF HoldInv, PastPut
  <2>8. StaleInv'
    BY <1>1, <2>2, <2>3, <2>4 DEF StaleInv
  <2>9. TookInv'
    BY <1>1, <2>2, <2>3, <2>4 DEF TookInv, HoldInv
  <2>10. QED
    BY <1>2, <2>5, <2>6, <2>7, <2>8, <2>9 DEF SecretInv
<1>5. QED
  BY <1>3, <1>4

LEMMA SecretNext == SecretInv /\ [Next]_vars => SecretInv'
<1> SUFFICES ASSUME SecretInv, [Next]_vars PROVE SecretInv'
  OBVIOUS
<1>1. CASE Next
  BY <1>1, ArrivalSecrets, StepSecrets, EnvironmentSecrets DEF Next
<1>2. CASE UNCHANGED vars
  <2>1. ControlInv'
    BY ControlNext DEF SecretInv
  <2>2. StoredInv' /\ MetInv' /\ BlindInv'
    BY <1>2 DEF vars, SecretInv, StoredInv, MetInv, BlindInv, PastPut, Running, Blind
  <2>3. HoldInv' /\ StaleInv' /\ TookInv'
    BY <1>2 DEF vars, SecretInv, HoldInv, StaleInv, TookInv, PastPut, Running, Holds, Took
  <2>4. QED
    BY <2>1, <2>2, <2>3 DEF SecretInv
<1>3. QED
  BY <1>1, <1>2

(* Two calls succeed with one secret only if they ran at the same time:    *)
(* what a handler has used up and deleted is not accepted afterwards.      *)
THEOREM RedeemedOnlyOnce == Spec => []RedeemedOnce
<1>1. SecretInv => RedeemedOnce
  BY DEF SecretInv, TookInv, Took, RedeemedOnce, Succeeded
<1>2. QED
  BY <1>1, SecretInit, SecretNext, PTL DEF Spec

LEMMA ArrivalFrame ==
    ASSUME NEW c \in Calls, Request(c)
    PROVE  UNCHANGED <<row, hash>>
<1>1. PICK r : Arrives(c, r)
  BY DEF Request
<1>2. QED
  BY <1>1 DEF Arrives

(* A secret in force goes by its expiry, by the call that had it, by one   *)
(* that ran when it was sent, or by a newly confirmed password.            *)
THEOREM SecretsLostByOverlap == Spec => LostOnlyByOverlap
<1>1. SecretInv /\ [Next]_vars => [\A k \in Keys : LostProperly(k)]_vars
  <2> SUFFICES ASSUME SecretInv, Next, NEW k \in Keys,
                      hash[k].secret # None, hash'[k].secret # hash[k].secret
               PROVE  \/ hash[k].timed /\ pc' = pc
                      \/ \E c \in Calls :
                            /\ pc'[c] # pc[c] /\ key[c] = k
                            /\ \/ op[c].secret = hash[k].secret
                               \/ <<c, hash[k].secret>> \in met
                               \/ op[c].do = "confirmPassword"
    BY DEF LostProperly
  <2>1. CASE \E c \in Calls : Request(c) \/ Fail(c)
    <3>1. hash' = hash
      BY <2>1, ArrivalFrame DEF Fail
    <3>2. QED
      BY <3>1
  <2>2. CASE \E x \in Keys : Lapse(x)
    <3>1. PICK x \in Keys : Lapse(x)
      BY <2>2
    <3>2. x = k
      BY <3>1 DEF Lapse, SecretInv, ControlInv, TypeOK
    <3>3. QED
      BY <3>1, <3>2 DEF Lapse
  <2>3. CASE \E c \in Calls : Step(c)
    <3>1. PICK c \in Calls : Step(c)
      BY <2>3
    <3>2. /\ Running(c) /\ key[c] = k /\ pc'[c] # pc[c]
          /\ pc[c] \in {"put", "open", "delete", "cleanup"}
      BY <3>1, StepFrame DEF SecretInv, ControlInv, TypeOK
    <3>3. CASE pc[c] = "put"
      BY <3>2, <3>3 DEF Blind, SecretInv, BlindInv
    <3>4. CASE pc[c] = "open"
      BY <3>1, <3>2, <3>4, StepFrame
    <3>5. CASE pc[c] \in {"delete", "cleanup"}
      <4>1. Holds(c)
        BY <3>5 DEF Holds, SecretInv, ControlInv, Follows, Redeems
      <4>2. QED
        BY <3>2, <4>1 DEF SecretInv, StaleInv
    <3>6. QED
      BY <3>2, <3>3, <3>4, <3>5
  <2>4. QED
    BY <2>1, <2>2, <2>3 DEF Next
<1>2. QED
  BY <1>1, SecretInit, SecretNext, PTL DEF Spec, LostOnlyByOverlap

(* Whenever a hash is in redis without an expiry, its sender is about to   *)
(* set one, or has failed in between.                                      *)
THEOREM ExpiryAlwaysOwed == Spec => []ExpiryOwed
<1>1. Init => ExpiryOwed
  BY DEF Init, ExpiryOwed, NoHash
<1>2. ControlInv /\ ExpiryOwed /\ [Next]_vars => ExpiryOwed'
  <2> SUFFICES ASSUME ControlInv, ExpiryOwed, Next PROVE ExpiryOwed'
    BY DEF vars, ExpiryOwed
  <2>0. TypeOK /\ \A c \in Calls : Follows(c)
    BY DEF ControlInv
  <2>1. CASE \E c \in Calls : Request(c)
    BY <2>0, <2>1 DEF Request, Arrives, Goes, TypeOK, ExpiryOwed
  <2>2. CASE \E c \in Calls : Fail(c)
    BY <2>2 DEF Fail, ExpiryOwed
  <2>3. CASE \E k \in Keys : Lapse(k)
    BY <2>0, <2>3 DEF Lapse, NoHash, TypeOK, ExpiryOwed
  <2>4. ASSUME NEW c \in Calls, Put(c) \/ Stamp(c) \/ Expire(c) PROVE ExpiryOwed'
    <3>1. /\ key[c] \in Keys /\ key' = key
          /\ hash[key[c]] \in Hashes /\ hash \in [Keys -> Hashes]
          /\ \A k \in Keys \ {key[c]} : hash'[k] = hash[k]
          /\ \A d \in Calls \ {c} : pc'[d] = pc[d]
      BY <2>0, <2>4 DEF Put, Stamp, Expire, Goes, Replies, At, Follows, TypeOK
    <3>2. CASE Put(c) \/ Stamp(c)
      BY <2>0, <3>1, <3>2 DEF Put, Stamp, Goes, At, TypeOK, ExpiryOwed
    <3>3. CASE Expire(c)
      <4>1. hash'[key[c]].here => hash'[key[c]].timed
        <5> DEFINE h == [hash[key[c]] EXCEPT !.timed = hash[key[c]].here]
        <5>1. hash' = [hash EXCEPT ![key[c]] = h]
          BY <3>3 DEF Expire
        <5>2. h.here = h.timed
          BY <3>1 DEF Hashes
        <5> HIDE DEF h
        <5>3. QED
          BY <3>1, <5>1, <5>2
      <4>2. QED
        BY <3>1, <4>1 DEF ExpiryOwed
    <3>4. QED
      BY <2>4, <3>2, <3>3
  <2>5. ASSUME NEW c \in Calls, Delete(c) \/ Open(c) PROVE ExpiryOwed'
    BY <2>0, <2>5 DEF Delete, Open, NoHash, Goes, Replies, At, TypeOK, ExpiryOwed
  <2>6. ASSUME NEW c \in Calls, \/ Look(c) \/ FindByEmail(c) \/ FindInvited(c)
                                \/ LoadOwner(c) \/ Check(c) \/ LoadInvited(c) \/ Commit(c)
                                \/ CommitFails(c) \/ Unique(c) \/ Rename(c)
                                \/ Select(c) \/ Insert(c) \/ Remove(c)
                                \/ RecordEmail(c) \/ RecordAnew(c) \/ RecordPassword(c)
        PROVE ExpiryOwed'
    <3>1. hash' = hash /\ pc[c] \notin {"stamp", "expire"}
      BY <2>6 DEF Look, FindByEmail, FindInvited, LoadOwner, Check, LoadInvited,
           Commit, CommitFails, Unique, Rename, Select, Insert, Remove,
           RecordEmail, RecordAnew, RecordPassword, At
    <3>2. /\ key' = key \/ \E x : key' = [key EXCEPT ![c] = x]
          /\ pc' = pc \/ \E x : pc' = [pc EXCEPT ![c] = x]
      <4>1. CASE Look(c) \/ FindByEmail(c) \/ FindInvited(c) \/ Unique(c) \/ Select(c)
        BY <4>1 DEF Look, FindByEmail, FindInvited, Unique, Select, Goes, Replies
      <4>2. CASE LoadOwner(c) \/ LoadInvited(c)
        BY <4>2 DEF LoadOwner, LoadInvited, Goes, Replies
      <4>3. CASE \/ Commit(c) \/ CommitFails(c) \/ Rename(c) \/ Insert(c) \/ Remove(c)
                 \/ RecordEmail(c) \/ RecordAnew(c) \/ RecordPassword(c)
        BY <4>3 DEF Commit, CommitFails, Rename, Insert, Remove, RecordEmail, RecordAnew,
             RecordPassword, Goes, Replies
      <4>4. CASE Check(c)
        <5>1. /\ key' = key
              /\ \/ \E where : Goes(c, where)
                 \/ Replies(c, "refused")
          BY <2>0, <4>4 DEF Check, Redeems, Follows, At
        <5>2. QED
          BY <5>1 DEF Goes, Replies
      <4>5. QED
        BY <2>6, <4>1, <4>2, <4>3, <4>4
    <3>3. \A d \in Calls \ {c} : pc'[d] = pc[d] /\ key'[d] = key[d]
      BY <2>0, <3>2 DEF TypeOK
    <3>4. QED
      BY <3>1, <3>3 DEF ExpiryOwed
  <2>7. QED
    BY <2>1, <2>2, <2>3, <2>4, <2>5, <2>6 DEF Next, Step
<1>3. QED
  BY <1>1, <1>2, ControlInit, ControlNext, PTL DEF Spec

(* Two accounts never share an email, whatever is called together.         *)
THEOREM EmailsUnique == Spec => []OneAccountPerEmail
<1>1. Init => OneAccountPerEmail
  BY RegisteredAssumption DEF Init, OneAccountPerEmail, Alive, NoRow
<1>2. ControlInv /\ OneAccountPerEmail /\ [Next]_vars => OneAccountPerEmail'
  <2> SUFFICES ASSUME ControlInv, OneAccountPerEmail, Next, row' # row
               PROVE  OneAccountPerEmail'
    BY DEF vars, OneAccountPerEmail, Alive
  <2>1. PICK c \in Calls : \/ Commit(c) \/ RecordPassword(c) \/ Rename(c) \/ RecordEmail(c)
                          \/ RecordAnew(c) \/ Insert(c) \/ Remove(c)
    <3>1. /\ ~\E c \in Calls : Request(c) \/ Fail(c)
          /\ ~\E k \in Keys : Lapse(k)
      BY ArrivalFrame DEF Fail, Lapse
    <3>2. \A c \in Calls : /\ ~Look(c) /\ ~FindByEmail(c) /\ ~FindInvited(c) /\ ~Put(c)
                           /\ ~Stamp(c) /\ ~Expire(c) /\ ~Open(c)
      BY DEF Look, FindByEmail, FindInvited, Put, Stamp, Expire, Open
    <3>3. \A c \in Calls : /\ ~LoadOwner(c) /\ ~Check(c) /\ ~LoadInvited(c) /\ ~CommitFails(c)
                           /\ ~Delete(c) /\ ~Unique(c) /\ ~Select(c)
      BY DEF LoadOwner, Check, LoadInvited, CommitFails, Delete, Unique, Select
    <3>4. QED
      BY <3>1, <3>2, <3>3 DEF Next, Step
  <2>2. row \in [Accounts -> Rows]
    BY DEF ControlInv, TypeOK
  <2>3. CASE Commit(c) \/ RecordPassword(c)
    <3>1. \A a \in Accounts : row'[a].email = row[a].email /\ (Alive(a)' => Alive(a))
      BY <2>2, <2>3 DEF Commit, RecordPassword, Rows, Alive
    <3>2. QED
      BY <3>1 DEF OneAccountPerEmail
  <2>4. CASE Rename(c) \/ RecordEmail(c) \/ RecordAnew(c) \/ Insert(c)
    <3>1. CASE row' = row
      BY <3>1 DEF OneAccountPerEmail, Alive
    <3>2. CASE row' # row
      <4>1. PICK a \in Accounts : /\ \A b \in Accounts \ {a} :
                                       Alive(b) => row[b].email # row'[a].email
                                  /\ \A b \in Accounts \ {a} : row'[b] = row[b]
        <5>1. CASE Rename(c) \/ RecordEmail(c)
          <6>1. op[c].acct \in Accounts
            BY <5>1 DEF Rename, RecordEmail, At, ControlInv, Follows, OfAccount, Records
          <6> DEFINE r == [row[op[c].acct] EXCEPT !.email = op[c].email, !.by = c]
          <6>2. /\ Alive(op[c].acct) /\ MayTake(op[c].acct, op[c].email)
                /\ row' = [row EXCEPT ![op[c].acct] = r]
            BY <3>2, <5>1 DEF Rename, RecordEmail
          <6>3. r.email = op[c].email
            BY <2>2, <6>1 DEF Rows
          <6> HIDE DEF r
          <6>4. row'[op[c].acct] = r /\ \A b \in Accounts \ {op[c].acct} : row'[b] = row[b]
            BY <2>2, <6>1, <6>2
          <6>5. \A b \in Accounts \ {op[c].acct} : Alive(b) => row[b].email # op[c].email
            BY <6>1, <6>2 DEF MayTake, Taken, OneAccountPerEmail
          <6>6. QED
            BY <6>1, <6>3, <6>4, <6>5
        <5>2. CASE Insert(c) \/ RecordAnew(c)
          BY <2>2, <3>2, <5>2 DEF Insert, RecordAnew, Taken
        <5>3. QED
          BY <2>4, <5>1, <5>2
      <4>2. QED
        BY <4>1 DEF OneAccountPerEmail, Alive
    <3>3. QED
      BY <3>1, <3>2
  <2>5. CASE Remove(c)
    BY <2>2, <2>5 DEF Remove, OneAccountPerEmail, Alive, NoRow
  <2>6. QED
    BY <2>1, <2>3, <2>4, <2>5
<1>3. QED
  BY <1>1, <1>2, ControlInit, ControlNext, PTL DEF Spec

----------------------------------------------------------------------------
(* What a row owes to the calls that wrote it.  Whoever changed a password *)
(* or made staff has its secret checked and has not given up; whoever set  *)
(* the email has answered.                                                 *)
Did(c) == pc[c] = "delete" \/ reply[c] = "ok"
OwedTo(a) ==
    /\ row[a].role = "staff" =>
          \E c \in Calls : op[c].do = "acceptInvite" /\ op[c].acct = a /\ Did(c)
    /\ row[a].pw # None =>
          /\ op[row[a].pw].do \in {"changePassword", "updatePassword", "register", "recordPassword"}
          /\ Did(row[a].pw)
    /\ row[a].by # None =>
          /\ op[row[a].by].do \in {"changeEmail", "register", "google", "recordEmail"}
          /\ \/ reply[row[a].by] = "ok"
             \/ reply[row[a].by] = "error" /\ op[row[a].by].do = "recordEmail"
          /\ row[a].email = op[row[a].by].email
OwedInv == \A a \in Accounts : Alive(a) => OwedTo(a)

LEMMA OwedArrival ==
    ASSUME ControlInv, OwedInv, NEW c \in Calls, Request(c)
    PROVE  OwedInv'
<1>1. PICK r : pc[c] = "idle" /\ Arrives(c, r)
  BY DEF Request
<1>2. UNCHANGED <<row, reply>> /\ row \in [Accounts -> Rows] /\ reply[c] = "none"
  BY <1>1 DEF Arrives, Goes, ControlInv, TypeOK, Follows
<1>3. \A d \in Calls \ {c} : op'[d] = op[d] /\ pc'[d] = pc[d]
  BY <1>1 DEF Arrives, Goes, ControlInv, TypeOK
<1>4. ~Did(c)
  BY <1>1, <1>2 DEF Did
<1>5. ASSUME NEW a \in Accounts, OwedTo(a) PROVE OwedTo(a)'
  <2>1. row[a].pw \in Calls \cup {None} /\ row[a].by \in Calls \cup {None}
    BY <1>2 DEF Rows
  <2>2. QED
    BY <1>2, <1>3, <1>4, <1>5, <2>1 DEF OwedTo, Did
<1>6. QED
  BY <1>2, <1>5 DEF OwedInv, Alive

LEMMA OwedStep ==
    ASSUME SecretInv, OwedInv, NEW c \in Calls, Step(c)
    PROVE  OwedInv'
<1>0. /\ row \in [Accounts -> Rows] /\ op[c] \in Requests
      /\ \A d \in Calls : Follows(d)
      /\ \A a \in Accounts : /\ row[a].pw \in Calls \cup {None}
                             /\ row[a].by \in Calls \cup {None}
  BY DEF SecretInv, ControlInv, TypeOK, Rows
<1>1. /\ \A d \in Calls : /\ op'[d].do = op[d].do /\ op'[d].acct = op[d].acct
                          /\ op'[d].email = op[d].email
      /\ \A d \in Calls \ {c} : pc'[d] = pc[d] /\ reply'[d] = reply[d]
      /\ reply[c] = "none"
  BY StepFrame DEF Running
(* What is done stays done.                                                *)
<1>2. \A d \in Calls : /\ Did(d) /\ op[d].do \notin {"changeEmail", "signUp"} => Did(d)'
                       /\ reply[d] \in {"ok", "error"} => reply'[d] = reply[d]
  <2>1. pc[c] = "delete" => Delete(c)
    BY DEF Step, At, Look, FindByEmail, FindInvited, Put, Stamp, Expire, Open, LoadOwner,
           Check, LoadInvited, Commit, CommitFails, Unique, Rename, Select, Insert, Remove,
           RecordEmail, RecordAnew, RecordPassword
  <2>2. pc[c] = "delete" /\ op[c].do \notin {"changeEmail", "signUp"} => reply'[c] = "ok"
    BY <2>1 DEF Delete, Replies, SecretInv, ControlInv, TypeOK
  <2>3. QED
    BY <1>1, <2>2 DEF Did
<1>3. ASSUME NEW a \in Accounts, OwedTo(a), row'[a] = row[a] PROVE OwedTo(a)'
  BY <1>0, <1>1, <1>2, <1>3 DEF OwedTo
<1>4. CASE row' = row
  BY <1>3, <1>4 DEF OwedInv, Alive
<1>5. CASE (Commit(c) \/ RecordPassword(c)) /\ row' # row
  <2>1. PICK a \in Accounts :
        /\ a = op[c].acct /\ Alive(a) /\ Did(c)'
        /\ op[c].do \in {"changePassword", "updatePassword", "acceptInvite",
                         "recordPassword"}
    <3>1. CASE Commit(c)
      BY <1>0, <1>5, <3>1
         DEF Commit, At, Goes, Follows, OfAccount, Did, SecretInv, ControlInv, TypeOK
    <3>2. CASE RecordPassword(c)
      BY <1>0, <1>5, <3>2
         DEF RecordPassword, At, Replies, Follows, OfAccount, Records, Did, SecretInv,
             ControlInv, TypeOK
    <3>3. QED
      BY <1>5, <3>1, <3>2
  <2> DEFINE r == IF op[c].do = "acceptInvite" THEN [row[a] EXCEPT !.role = "staff"]
                  ELSE [row[a] EXCEPT !.pw = c]
  <2>2. row' = [row EXCEPT ![a] = r]
    BY <1>5, <2>1 DEF Commit, RecordPassword
  <2>3. /\ r.email = row[a].email /\ r.by = row[a].by
        /\ op[c].do = "acceptInvite" => r.role = "staff" /\ r.pw = row[a].pw
        /\ op[c].do # "acceptInvite" => r.role = row[a].role /\ r.pw = c
    BY <1>0, <2>1 DEF Rows
  <2> HIDE DEF r
  <2>4. row'[a] = r /\ \A b \in Accounts \ {a} : row'[b] = row[b]
    BY <1>0, <2>1, <2>2
  <2>5. OwedTo(a)'
    <3>1. OwedTo(a)
      BY <2>1 DEF OwedInv
    <3>2. CASE op[c].do = "acceptInvite"
      BY <1>0, <1>1, <1>2, <2>1, <2>3, <2>4, <3>1, <3>2 DEF OwedTo
    <3>3. CASE op[c].do # "acceptInvite"
      BY <1>0, <1>1, <1>2, <2>1, <2>3, <2>4, <3>1, <3>3 DEF OwedTo
    <3>4. QED
      BY <3>2, <3>3
  <2>6. QED
    BY <1>3, <2>4, <2>5 DEF OwedInv, Alive
<1>6. CASE (Rename(c) \/ RecordEmail(c)) /\ row' # row
  <2>1. PICK a \in Accounts :
        /\ a = op[c].acct /\ Alive(a) /\ reply'[c] = "ok"
        /\ op[c].do \in {"changeEmail", "recordEmail"}
    BY <1>0, <1>6 DEF Rename, RecordEmail, Records, At, Replies, Follows, OfAccount, SecretInv, ControlInv, TypeOK
  <2> DEFINE r == [row[a] EXCEPT !.email = op[c].email, !.by = c]
  <2>2. row' = [row EXCEPT ![a] = r]
    BY <1>6, <2>1 DEF Rename, RecordEmail
  <2>3. /\ r.email = op[c].email /\ r.by = c
        /\ r.role = row[a].role /\ r.pw = row[a].pw
    BY <1>0, <2>1 DEF Rows
  <2> HIDE DEF r
  <2>4. row'[a] = r /\ \A b \in Accounts \ {a} : row'[b] = row[b]
    BY <1>0, <2>1, <2>2
  <2>5. OwedTo(a)'
    <3>1. OwedTo(a)
      BY <2>1 DEF OwedInv
    <3>2. QED
      BY <1>0, <1>1, <1>2, <2>1, <2>3, <2>4, <3>1 DEF OwedTo
  <2>6. QED
    BY <1>3, <2>4, <2>5 DEF OwedInv, Alive
<1>7. CASE Insert(c) /\ row' # row
  <2>1. op[c].do \in {"register", "google"}
    BY <1>0, <1>7 DEF Insert, At, Follows
  <2> DEFINE r == [email |-> op[c].email, role |-> "user", by |-> c,
                   pw |-> IF op[c].do = "google" THEN None ELSE c]
  <2>2. PICK a \in Accounts : row' = [row EXCEPT ![a] = r] /\ reply'[c] = "ok"
    BY <1>0, <1>7 DEF Insert, Replies, SecretInv, ControlInv, TypeOK
  <2>3. /\ r.email = op[c].email /\ r.role = "user" /\ r.by = c
        /\ r.pw # None => r.pw = c /\ op[c].do = "register"
    BY <2>1
  <2> HIDE DEF r
  <2>4. row'[a] = r /\ \A b \in Accounts \ {a} : row'[b] = row[b]
    BY <1>0, <2>2
  <2>5. OwedTo(a)'
    BY <1>1, <2>1, <2>2, <2>3, <2>4 DEF OwedTo, Did
  <2>6. QED
    BY <1>3, <2>4, <2>5 DEF OwedInv, Alive
<1>8. CASE RecordAnew(c)
  <2> DEFINE r == [email |-> op[c].email, role |-> "user", by |-> c, pw |-> None]
  <2>1. op[c].do = "recordEmail" /\ reply'[c] = "error"
    BY <1>8 DEF RecordAnew, Replies, SecretInv, ControlInv, TypeOK
  <2>2. PICK a \in Accounts : row' = [row EXCEPT ![a] = r]
    BY <1>8 DEF RecordAnew
  <2>3. r.email = op[c].email /\ r.role = "user" /\ r.by = c /\ r.pw = None
    OBVIOUS
  <2> HIDE DEF r
  <2>4. row'[a] = r /\ \A b \in Accounts \ {a} : row'[b] = row[b]
    BY <1>0, <2>2
  <2>5. OwedTo(a)'
    BY <1>1, <2>1, <2>3, <2>4 DEF OwedTo
  <2>6. QED
    BY <1>3, <2>4, <2>5 DEF OwedInv, Alive
<1>9. CASE Remove(c)
  <2>1. \A a \in Accounts : Alive(a)' => row'[a] = row[a]
    BY <1>0, <1>9 DEF Remove, Alive, NoRow
  <2>2. QED
    BY <1>3, <2>1 DEF OwedInv, Alive
<1>10. QED
  <2>1. \/ row' = row \/ Commit(c) \/ RecordPassword(c) \/ Rename(c) \/ RecordEmail(c)
        \/ RecordAnew(c) \/ Insert(c) \/ Remove(c)
    BY DEF Step, Look, FindByEmail, FindInvited, Put, Stamp, Expire, Open, LoadOwner,
           Check, LoadInvited, CommitFails, Delete, Unique, Select
  <2>2. QED
    BY <1>4, <1>5, <1>6, <1>7, <1>8, <1>9, <2>1

(* An account is staff, and has the password and the email it has, because *)
(* a call brought back the secret that was sent for it, for that purpose.  *)
THEOREM ChangesProven == Spec => []ChangesAreProven
<1>1. Init => OwedInv
  BY RegisteredAssumption DEF Init, OwedInv, OwedTo, Alive, NoRow
<1>2. SecretInv /\ OwedInv /\ [Next]_vars => OwedInv'
  <2> SUFFICES ASSUME SecretInv, OwedInv, [Next]_vars PROVE OwedInv'
    OBVIOUS
  <2>1. CASE \E c \in Calls : Request(c)
    BY <2>1, OwedArrival DEF SecretInv
  <2>2. CASE \E c \in Calls : Step(c)
    BY <2>2, OwedStep
  <2>3. CASE \E c \in Calls : Fail(c)
    <3>1. PICK c \in Calls : Fail(c)
      BY <2>3
    <3>2. /\ UNCHANGED <<row, op, pc>>
          /\ \A d \in Calls : reply[d] \in {"ok", "error"} => reply'[d] = reply[d]
      BY <3>1 DEF Fail, Running, SecretInv, ControlInv, TypeOK
    <3>3. \A a \in Accounts : row[a].pw \in Calls \cup {None} /\ row[a].by \in Calls \cup {None}
      BY DEF SecretInv, ControlInv, TypeOK, Rows
    <3>4. \A a \in Accounts : OwedTo(a) => OwedTo(a)'
      BY <3>2, <3>3 DEF OwedTo, Did
    <3>5. QED
      BY <3>2, <3>4 DEF OwedInv, Alive
  <2>4. CASE (\E k \in Keys : Lapse(k)) \/ UNCHANGED vars
    BY <2>4 DEF Lapse, vars, OwedInv, OwedTo, Did, Alive
  <2>5. QED
    BY <2>1, <2>2, <2>3, <2>4 DEF Next
<1>3. SecretInv /\ OwedInv => ChangesAreProven
  <2> SUFFICES ASSUME SecretInv, OwedInv, NEW a \in Accounts, Alive(a) PROVE Proven(a)
    BY DEF ChangesAreProven
  <2>0. /\ OwedTo(a)
        /\ row[a].pw \in Calls \cup {None} /\ row[a].by \in Calls \cup {None}
        /\ \A c \in Calls : Follows(c) /\ op[c].secret \in Calls \cup {None}
    BY DEF OwedInv, SecretInv, ControlInv, TypeOK, Rows, Requests
  <2>1. ASSUME NEW c \in Calls, Holds(c) \/ Took(c)
        PROVE  \E s \in Calls : /\ s = op[c].secret /\ s # None /\ s # c
                                /\ key[s] = key[c] /\ key[s] # None
                                /\ op[s].do \in Sends \cup {"confirmPassword"}
                                /\ KindOf(op[s].do) = KindOf(op[c].do)
    <3>1. PICK s \in Calls : /\ s = op[c].secret /\ s # None
                             /\ key[c] \in Keys /\ key[s] = key[c] /\ PastPut(s)
      BY <2>0, <2>1 DEF SecretInv, HoldInv
    <3>2. op[s].do \in Sends \cup {"confirmPassword"} /\ op[c].do \in Redeems
      BY <2>1, <3>1 DEF PastPut, Holds, Took
    <3>3. KindOf(op[s].do) = KindOf(op[c].do) /\ key[s] # None
      BY <2>0, <3>1, NoneAssumption DEF Follows
    <3>4. QED
      BY <3>1, <3>2, <3>3 DEF Sends, Redeems
  <2>2. ASSUME NEW c \in Calls, op[c].do \in Redeems, Did(c) PROVE Holds(c) \/ Took(c)
    BY <2>2 DEF Did, Holds, Took
  <2>3. ASSUME row[a].role = "staff"
        PROVE  \E c \in Calls : op[c].do = "acceptInvite" /\ op[c].acct = a
                                /\ BroughtBack(c, "sendInvite")
    <3>1. PICK c \in Calls : op[c].do = "acceptInvite" /\ op[c].acct = a /\ Did(c)
      BY <2>0, <2>3 DEF OwedTo
    <3>2. BroughtBack(c, "sendInvite")
      BY <2>1, <2>2, <3>1 DEF BroughtBack, Redeems, Sends, KindOf
    <3>3. QED
      BY <3>1, <3>2
  <2>4. ASSUME NEW c \in Calls, c = row[a].pw, c # None
        PROVE  /\ op[c].do = "changePassword" => BroughtBack(c, "sendReset")
               /\ op[c].do = "updatePassword" => BroughtBack(c, "confirmPassword")
    BY <2>0, <2>1, <2>2, <2>4 DEF OwedTo, BroughtBack, Redeems, Sends, KindOf
  <2>5. ASSUME NEW c \in Calls, c = row[a].by, c # None
        PROVE  /\ row[a].email = op[c].email
               /\ op[c].do = "changeEmail" => BroughtBack(c, "sendCode")
    BY <2>0, <2>1, <2>2, <2>5 DEF OwedTo, Did, BroughtBack, Redeems, Sends, KindOf
  <2>6. QED
    BY <2>0, <2>3, <2>4, <2>5 DEF Proven
<1>4. QED
  BY <1>1, <1>2, <1>3, SecretInit, SecretNext, PTL DEF Spec

=============================================================================
