----------------------------- MODULE Broadcasts -----------------------------
(***************************************************************************)
(* Requests that go to everybody who is connected: a property request to   *)
(* the agents (asset_request/handle_asset_request.py), a roommate request  *)
(* to all (roommate_finder/core.py).  Both are committed, published, and   *)
(* sent by the listeners of the sockets that are subscribed; the listener  *)
(* of an agent records a property request in a sorted set, from which the  *)
(* pending task of a later connection should dispatch it                   *)
(* (notification/utils.py).  It runs on the sessions of ConnectionManager. *)
(***************************************************************************)
EXTENDS ConnectionManager, Naturals

CONSTANTS
    Requests,
    Agents       \* users whose sockets connect as agents

ASSUME BroadcastAssumption == Agents \subseteq Users \ {Guest} /\ None \notin Requests

VARIABLES
    rpc,         \* control of the call that posts a request
    kind,        \* the table a request is committed to, or None
    zset,        \* score of a request in pend_pool_agent_notification, or 0
    clock,       \* the time, as far as scores tell it apart
    taken,       \* messages in the pubsub of a socket
    task,        \* the message its listener is handling
    recorded,    \* ... and has recorded
    since,       \* the last_n_timestamp a socket was opened with, 0 for none
    npc,         \* control of handle_pending_trx
    heard,       \* history: deliveries to a subscribed socket
    sent,        \* history: what a listener or a dispatch sent to a socket
    swept        \* history: requests a sweep has removed

postVars == <<rpc, kind>>
recordVars == <<zset, clock, swept>>
hearVars == <<taken, task, recorded, heard, sent>>
pendingVars == <<since, npc>>
castVars == <<postVars, recordVars, hearVars, pendingVars>>
everyVar == <<vars, castVars>>

IsAgent(s) == owner[s] \in Agents

CastInit ==
    /\ Init
    /\ rpc = [r \in Requests |-> "new"] /\ kind = [r \in Requests |-> None]
    /\ zset = [r \in Requests |-> 0] /\ clock = 1 /\ swept = {}
    /\ taken = [s \in Sockets |-> {}] /\ task = [s \in Sockets |-> None]
    /\ recorded = {} /\ heard = {} /\ sent = {}
    /\ since = [s \in Sockets |-> 0] /\ npc = [s \in Sockets |-> "start"]

----------------------------------------------------------------------------
(* handle_asset_request and publish_roommate_finding.                      *)

(* The row, with its area, images and the gender of a requester who had    *)
(* none, in one transaction.                                               *)
Save(r) ==
    /\ rpc[r] = "new"
    /\ \E k \in {"property", "roommate"} : kind' = [kind EXCEPT ![r] = k]
    /\ rpc' = [rpc EXCEPT ![r] = "saved"]
    /\ UNCHANGED <<vars, recordVars, hearVars, pendingVars>>

Channel(r) == {s \in subscribed : kind[r] = "property" => IsAgent(s)}

Post(r) ==
    /\ rpc[r] = "saved"
    /\ taken' = [s \in Sockets |-> IF s \in Channel(r) THEN taken[s] \cup {r} ELSE taken[s]]
    /\ heard' = heard \cup (Channel(r) \X {r})
    /\ rpc' = [rpc EXCEPT ![r] = "answered"]
    /\ UNCHANGED <<vars, kind, recordVars, task, recorded, sent, pendingVars>>

(* The commit, the reload or the publish fails: both handlers roll back,   *)
(* which undoes nothing once the row is committed, and the reply is 500.   *)
PostFails(r) ==
    /\ rpc[r] \in {"new", "saved"}
    /\ rpc' = [rpc EXCEPT ![r] = "failed"]
    /\ UNCHANGED <<vars, kind, recordVars, hearVars, pendingVars>>

----------------------------------------------------------------------------
(* The listener: pubsub_request_handler and pubsub_roommate_handler.       *)

Takes(s, r) ==
    /\ tpc[Listener(s)] = "run" /\ task[s] = None /\ r \in taken[s]
    /\ taken' = [taken EXCEPT ![s] = @ \ {r}]
    /\ task' = [task EXCEPT ![s] = r]
    /\ UNCHANGED <<vars, postVars, recordVars, recorded, heard, sent, pendingVars>>

(* Mutant: the listener goes on without the zadd.                          *)
RecordsUnscored(s) ==
    LET r == task[s]
    IN  /\ tpc[Listener(s)] = "run" /\ r # None /\ s \notin recorded
        /\ kind[r] = "property"
        /\ recorded' = recorded \cup {s}
        /\ UNCHANGED <<vars, postVars, recordVars, taken, task, heard, sent, pendingVars>>

(* zadd with the time as the score: a member that another agent's listener *)
(* has added is scored anew.                                               *)
Records(s) ==
    LET r == task[s]
    IN  /\ tpc[Listener(s)] = "run" /\ r # None /\ s \notin recorded
        /\ kind[r] = "property"
        /\ clock' = clock + 1
        /\ zset' = [zset EXCEPT ![r] = clock + 1]
        /\ swept' = swept \ {r}
        /\ recorded' = recorded \cup {s}
        /\ UNCHANGED <<vars, postVars, taken, task, heard, sent, pendingVars>>

(* Mutant: the message of a property request goes nowhere after the zadd.  *)
SendsRoommatesOnly(s) ==
    LET r == task[s]
    IN  /\ tpc[Listener(s)] = "run" /\ r # None
        /\ kind[r] = "property" => s \in recorded
        /\ sent' = IF sock[lsock[s]] = "open" /\ kind[r] = "roommate"
                   THEN sent \cup {<<s, r>>} ELSE sent
        /\ task' = [task EXCEPT ![s] = None]
        /\ recorded' = recorded \ {s}
        /\ UNCHANGED <<vars, postVars, recordVars, taken, heard, pendingVars>>

(* A failed send of a property request is swallowed, and the listener goes *)
(* on with the next message.                                               *)
Sends(s) ==
    LET r == task[s]
    IN  /\ tpc[Listener(s)] = "run" /\ r # None
        /\ kind[r] = "property" => s \in recorded
        /\ kind[r] = "roommate" => sock[lsock[s]] = "open"
        /\ sent' = IF sock[lsock[s]] = "open" THEN sent \cup {<<s, r>>} ELSE sent
        /\ task' = [task EXCEPT ![s] = None]
        /\ recorded' = recorded \ {s}
        /\ UNCHANGED <<vars, postVars, recordVars, taken, heard, pendingVars>>

(* That of a roommate request is raised and ends the listener.             *)
SendRaises(s) ==
    /\ task[s] # None /\ kind[task[s]] = "roommate"
    /\ ListenerFails(s)
    /\ task' = [task EXCEPT ![s] = None]
    /\ UNCHANGED <<postVars, recordVars, taken, recorded, heard, sent, pendingVars>>

----------------------------------------------------------------------------
(* handle_pending_trx.                                                     *)

Newer(s) == {r \in Requests : zset[r] > since[s]}

(* dispatch_pending_notification.  An agent's entries newer than the       *)
(* timestamp are validated as notifications, which a request is not: the   *)
(* exception ends the task.  Without a timestamp the newest notification   *)
(* of the agent gives it, in seconds where the scores are milliseconds, so *)
(* that every entry is newer.  The ids in the user's pool are never any:   *)
(* whoever would queue one names the argument wrongly and raises.          *)
DispatchNotifications(s) ==
    /\ pend[s] = "run" /\ npc[s] = "start"
    /\ IF IsAgent(s) /\ Newer(s) # {}
       THEN PendingEnds(s) /\ npc' = npc
       ELSE UNCHANGED vars /\ npc' = [npc EXCEPT ![s] = "chat"]
    /\ since' = [since EXCEPT ![s] = 0]
    /\ UNCHANGED <<postVars, recordVars, hearVars>>

(* dispatch_pending_chat, of which ChatDelivery has the steps.             *)
DispatchChat(s) ==
    /\ npc[s] = "chat"
    /\ PendingEnds(s)
    /\ UNCHANGED castVars

----------------------------------------------------------------------------
(* handle_deletion: everything scored before this millisecond goes.        *)
Sweep ==
    \E now \in {clock, clock + 1} :
        LET old == {r \in Requests : zset[r] # 0 /\ zset[r] < now}
        IN  /\ old # {}
            /\ zset' = [r \in Requests |-> IF r \in old THEN 0 ELSE zset[r]]
            /\ swept' = swept \cup old
            /\ UNCHANGED <<vars, postVars, clock, hearVars, pendingVars>>

(* The client names no time, or that of the newest thing it was shown.     *)
ConnectsSince(s) ==
    /\ Connect(s)
    /\ \E t \in {0, clock} : since' = [since EXCEPT ![s] = t]
    /\ UNCHANGED <<postVars, recordVars, hearVars, npc>>

(* What ends with a pubsub, a listener or a pending task.                  *)
Forget ==
    /\ taken' = [s \in Sockets |-> IF s \in subscribed' THEN taken[s] ELSE {}]
    /\ task' = [s \in Sockets |-> IF tpc'[Listener(s)] = "run" THEN task[s] ELSE None]
    /\ recorded' = {s \in recorded : tpc'[Listener(s)] = "run"}
    /\ since' = [s \in Sockets |-> IF pend'[s] = "done" THEN 0 ELSE since[s]]

SocketStep(s) ==
    \/ RouteStep(s) \/ ClientCloses(s) \/ BadFrame(s)
    \/ ListenerStarts(s) \/ Unsubscribe(Listener(s)) \/ RemoveOnline(Listener(s))

CastSession(s) ==
    /\ SocketStep(s) /\ Forget
    /\ UNCHANGED <<postVars, recordVars, heard, sent, npc>>

ServerCrashes ==
    /\ Crash
    /\ rpc' = [r \in Requests |-> IF rpc[r] = "saved" THEN "failed" ELSE rpc[r]]
    /\ Forget
    /\ UNCHANGED <<kind, recordVars, heard, sent, npc>>

----------------------------------------------------------------------------
PostRequest(r) == Save(r) \/ Post(r) \/ PostFails(r)

PubsubRequest(s) ==
    \/ \E r \in Requests : Takes(s, r)
    \/ Records(s)
    \/ Sends(s)
    \/ SendRaises(s)

PendingTransactions(s) == DispatchNotifications(s) \/ DispatchChat(s)

CastNext ==
    \/ \E r \in Requests : PostRequest(r)
    \/ \E s \in Sockets :
          PubsubRequest(s) \/ PendingTransactions(s) \/ ConnectsSince(s) \/ CastSession(s)
    \/ Sweep
    \/ ServerCrashes

CastSpec == CastInit /\ [][CastNext]_everyVar

----------------------------------------------------------------------------
(* Properties.                                                             *)

(* A user has one socket open at a time: the manager keeps one entry for   *)
(* all guests, so that the second guest's takes the place of the first's.  *)
Alone(s) ==
    /\ ~Overlap
    /\ owner[s] = Guest => \A t \in Sockets \ {s} : owner[t] # Guest

(* A request that redis delivered to a subscribed socket has been sent to  *)
(* it, waits for its listener or is in the listener's hands: none is       *)
(* dropped on an open socket, and none is lost behind one that failed, as  *)
(* long as the sockets of a user do not overlap.                           *)
HeardIsKept ==
    \A s \in Sockets, r \in Requests :
        <<s, r>> \in heard /\ Alone(s) =>
            \/ <<s, r>> \in sent
            \/ sock[s] = "closed" \/ tpc[Listener(s)] = "done"
            \/ r \in taken[s] \/ task[s] = r

(* A property request that was sent to an agent is in the sorted set until *)
(* a sweep removes it; one that no agent's listener took never is.         *)
RecordedUntilSwept ==
    \A r \in Requests :
        /\ kind[r] = "property" /\ (\E s \in Sockets : <<s, r>> \in sent) =>
               zset[r] # 0 \/ r \in swept
        /\ zset[r] # 0 =>
               kind[r] = "property" /\ \E s \in Sockets : <<s, r>> \in heard

============================================================================
