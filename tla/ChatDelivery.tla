---------------------------- MODULE ChatDelivery ----------------------------
(***************************************************************************)
(* How a chat object reaches its addressee: handle_chat (chat/core.py)     *)
(* publishes it or queues it, the pubsub listener of the addressee sends   *)
(* it (chat/pubsub_chat_handler.py), and the next connection dispatches    *)
(* what was queued (chat/dispatch_pending_chat.py).  It runs on top of the *)
(* sessions of ConnectionManager, whose every step it keeps.               *)
(*                                                                         *)
(* A message stands for a chat object of any type with the user it is sent *)
(* to: the recipient of an outbound message, the sender of a receipt.      *)
(* Reading and writing one dialogue hash is one step here; ChatOffload has *)
(* the races inside it.                                                    *)
(***************************************************************************)
EXTENDS ConnectionManager

CONSTANTS
    Messages,
    target,      \* the user a message is sent to
    dialogue     \* the dialogue hash a message is cached in

ASSUME TargetAssumption == target \in [Messages -> Users \ {Guest}] /\ None \notin Messages

VARIABLES
    mpc,         \* control of handle_chat, one call per message
    psnap,       \* the token list handle_chat has read from the pool
    store,       \* where the message is kept
    pool,        \* tokens in the "messages" field of pend_pool_{user}
    misfiled,    \* tokens in the pool of the tuple (user,), read by nobody
    inbox,       \* messages waiting in the pubsub of a socket
    hand,        \* the message a listener is handling
    lstep,       \* how far pubsub_chat_handler is with it
    dpc, batch, dkeys,   \* dispatch_pending_chat: control, messages, hashes
    live, shown, \* history: messages sent by a listener, by a dispatch
    unheard,     \* history: messages published to no listener
    overwritten  \* history: tokens dropped by a concurrent pool update

handlerVars == <<mpc, psnap, store, pool, overwritten>>
listenerVars == <<inbox, hand, lstep, live, unheard, misfiled>>
dispatchVars == <<dpc, batch, dkeys, shown>>
chatVars == <<handlerVars, listenerVars, dispatchVars>>
allVars == <<vars, chatVars>>

Dialogues == {dialogue[m] : m \in Messages}

ChatTypeOK ==
    /\ mpc \in [Messages -> {"new", "publish", "store", "poolread",
                             "poolwrite", "done", "dead"}]
    /\ psnap \in [Messages -> SUBSET Messages]
    /\ store \in [Messages -> {"none", "cached", "db"}]
    /\ pool \in [Users -> SUBSET Messages]
    /\ inbox \in [Sockets -> SUBSET Messages]
    /\ hand \in [Sockets -> Messages \cup {None}]
    /\ lstep \in [Sockets -> {"idle", "sent", "raise"}]
    /\ dpc \in [Sockets -> {"start", "send", "offload"}]
    /\ batch \in [Sockets -> SUBSET Messages]
    /\ dkeys \in [Sockets -> SUBSET Dialogues]
    /\ \A S \in {misfiled, live, shown, unheard, overwritten} : S \subseteq Messages

ChatInit ==
    /\ Init
    /\ mpc = [m \in Messages |-> "new"] /\ psnap = [m \in Messages |-> {}]
    /\ store = [m \in Messages |-> "none"] /\ pool = [u \in Users |-> {}]
    /\ inbox = [s \in Sockets |-> {}] /\ hand = [s \in Sockets |-> None]
    /\ lstep = [s \in Sockets |-> "idle"] /\ dpc = [s \in Sockets |-> "start"]
    /\ batch = [s \in Sockets |-> {}] /\ dkeys = [s \in Sockets |-> {}]
    /\ misfiled = {} /\ live = {} /\ shown = {}
    /\ unheard = {} /\ overwritten = {}

----------------------------------------------------------------------------
(* handle_chat, in the receive loop of whoever sends the chat object.      *)

(* require_user_online: an offline user raises into the exception handler. *)
CheckOnline(m) ==
    /\ mpc[m] = "new"
    /\ mpc' = [mpc EXCEPT ![m] = IF target[m] \in online THEN "publish" ELSE "store"]
    /\ UNCHANGED <<vars, psnap, store, pool, overwritten, listenerVars, dispatchVars>>

(* Mutant: the message is queued although it was published.                *)
PublishAndStore(m) ==
    LET heard == {s \in subscribed : owner[s] = target[m]}
    IN  /\ mpc[m] = "publish"
        /\ inbox' = [s \in Sockets |-> IF s \in heard THEN inbox[s] \cup {m} ELSE inbox[s]]
        /\ unheard' = IF heard = {} THEN unheard \cup {m} ELSE unheard
        /\ mpc' = [mpc EXCEPT ![m] = "store"]
        /\ UNCHANGED <<vars, psnap, store, pool, overwritten,
                       hand, lstep, live, misfiled, dispatchVars>>

(* Mutant: published to the channel of somebody else.                      *)
PublishElsewhere(m) ==
    LET heard == {s \in subscribed : owner[s] # target[m]}
    IN  /\ mpc[m] = "publish"
        /\ inbox' = [s \in Sockets |-> IF s \in heard THEN inbox[s] \cup {m} ELSE inbox[s]]
        /\ unheard' = IF heard = {} THEN unheard \cup {m} ELSE unheard
        /\ mpc' = [mpc EXCEPT ![m] = "done"]
        /\ UNCHANGED <<vars, psnap, store, pool, overwritten,
                       hand, lstep, live, misfiled, dispatchVars>>

(* Every subscribed pubsub gets the message; redis keeps none for later.   *)
Publish(m) ==
    LET heard == {s \in subscribed : owner[s] = target[m]}
    IN  /\ mpc[m] = "publish"
        /\ inbox' = [s \in Sockets |-> IF s \in heard THEN inbox[s] \cup {m} ELSE inbox[s]]
        /\ unheard' = IF heard = {} THEN unheard \cup {m} ELSE unheard
        /\ mpc' = [mpc EXCEPT ![m] = "done"]
        /\ UNCHANGED <<vars, psnap, store, pool, overwritten,
                       hand, lstep, live, misfiled, dispatchVars>>

(* Mutant: the message is cached, its token forgotten.                     *)
StoreWithoutToken(m) ==
    /\ mpc[m] = "store"
    /\ store' = [store EXCEPT ![m] = "cached"]
    /\ mpc' = [mpc EXCEPT ![m] = "done"]
    /\ UNCHANGED <<vars, psnap, pool, overwritten, listenerVars, dispatchVars>>

(* chat_exception_handler: cache_dialogue, then the token is added to the  *)
(* pool by reading the list and writing it back.                           *)
StoreUndelivered(m) ==
    /\ mpc[m] = "store"
    /\ store' = [store EXCEPT ![m] = "cached"]
    /\ mpc' = [mpc EXCEPT ![m] = "poolread"]
    /\ UNCHANGED <<vars, psnap, pool, overwritten, listenerVars, dispatchVars>>

PoolRead(m) ==
    /\ mpc[m] = "poolread"
    /\ psnap' = [psnap EXCEPT ![m] = pool[target[m]]]
    /\ mpc' = [mpc EXCEPT ![m] = "poolwrite"]
    /\ UNCHANGED <<vars, store, pool, overwritten, listenerVars, dispatchVars>>

PoolWrite(m) ==
    LET u == target[m]
        tokens == psnap[m] \cup {m}
    IN  /\ mpc[m] = "poolwrite"
        /\ pool' = [pool EXCEPT ![u] = tokens]
        /\ overwritten' = (overwritten \cup pool[u]) \ tokens
        /\ psnap' = [psnap EXCEPT ![m] = {}]
        /\ mpc' = [mpc EXCEPT ![m] = "done"]
        /\ UNCHANGED <<vars, store, listenerVars, dispatchVars>>

----------------------------------------------------------------------------
(* The listener of a socket: pubsub_chat_handler.                          *)

ListenerTakes(s, m) ==
    /\ tpc[Listener(s)] = "run" /\ hand[s] = None
    /\ m \in inbox[s]
    /\ inbox' = [inbox EXCEPT ![s] = @ \ {m}]
    /\ hand' = [hand EXCEPT ![s] = m]
    /\ UNCHANGED <<vars, handlerVars, lstep, live, unheard, misfiled, dispatchVars>>

ListenerSends(s) ==
    /\ tpc[Listener(s)] = "run" /\ hand[s] # None /\ lstep[s] = "idle"
    /\ sock[lsock[s]] = "open"
    /\ live' = live \cup {hand[s]}
    /\ lstep' = [lstep EXCEPT ![s] = "sent"]
    /\ UNCHANGED <<vars, handlerVars, inbox, hand, unheard, misfiled, dispatchVars>>

ListenerCaches(s) ==
    /\ tpc[Listener(s)] = "run" /\ lstep[s] = "sent"
    /\ store' = [store EXCEPT ![hand[s]] = "cached"]
    /\ hand' = [hand EXCEPT ![s] = None]
    /\ lstep' = [lstep EXCEPT ![s] = "idle"]
    /\ UNCHANGED <<vars, mpc, psnap, pool, overwritten,
                   inbox, live, unheard, misfiled, dispatchVars>>

(* The send fails.  The user id for the pool is assigned with a trailing   *)
(* comma, a tuple, so the token goes to a key that no dispatch reads.      *)
ListenerMisfiles(s) ==
    /\ tpc[Listener(s)] = "run" /\ hand[s] # None /\ lstep[s] = "idle"
    /\ sock[lsock[s]] = "closed"
    /\ store' = [store EXCEPT ![hand[s]] = "cached"]
    /\ misfiled' = misfiled \cup {hand[s]}
    /\ lstep' = [lstep EXCEPT ![s] = "raise"]
    /\ UNCHANGED <<vars, mpc, psnap, pool, overwritten,
                   inbox, hand, live, unheard, dispatchVars>>

(* Mutant: the listener stops on the error but does not disconnect.        *)
ListenerStops(s) ==
    /\ lstep[s] = "raise"
    /\ tpc' = [tpc EXCEPT ![Listener(s)] = "done"]
    /\ hand' = [hand EXCEPT ![s] = None]
    /\ lstep' = [lstep EXCEPT ![s] = "idle"]
    /\ UNCHANGED <<sock, mapVars, redisVars, tpub, lsock, pend, abandoned,
                   handlerVars, inbox, live, unheard, misfiled, dispatchVars>>

ListenerRaises(s) ==
    /\ lstep[s] = "raise"
    /\ ListenerFails(s)
    /\ hand' = [hand EXCEPT ![s] = None]
    /\ lstep' = [lstep EXCEPT ![s] = "idle"]
    /\ UNCHANGED <<handlerVars, inbox, live, unheard, misfiled, dispatchVars>>

----------------------------------------------------------------------------
(* handle_pending_trx of a socket: the chat part.                          *)

(* Mutant: only one of the queued messages is dispatched.                  *)
DispatchReadOne(s) ==
    LET found == {m \in pool[owner[s]] : store[m] = "cached"}
    IN  /\ pend[s] = "run" /\ dpc[s] = "start" /\ found # {}
        /\ batch' = [batch EXCEPT ![s] = {CHOOSE m \in found : TRUE}]
        /\ dkeys' = [dkeys EXCEPT ![s] = {dialogue[m] : m \in pool[owner[s]]}]
        /\ dpc' = [dpc EXCEPT ![s] = "send"]
        /\ UNCHANGED <<vars, handlerVars, listenerVars, shown>>

DispatchRead(s) ==
    LET tokens == pool[owner[s]]
        found == {m \in tokens : store[m] = "cached"}
    IN  /\ pend[s] = "run" /\ dpc[s] = "start" /\ found # {}
        /\ batch' = [batch EXCEPT ![s] = found]
        /\ dkeys' = [dkeys EXCEPT ![s] = {dialogue[m] : m \in tokens}]
        /\ dpc' = [dpc EXCEPT ![s] = "send"]
        /\ UNCHANGED <<vars, handlerVars, listenerVars, shown>>

DispatchSend(s) ==
    /\ pend[s] = "run" /\ dpc[s] = "send"
    /\ sock[s] = "open"
    /\ shown' = shown \cup batch[s]
    /\ dpc' = [dpc EXCEPT ![s] = "offload"]
    /\ UNCHANGED <<vars, handlerVars, listenerVars, batch, dkeys>>

(* offload_dialogue moves all messages of the hash, unless another offload *)
(* has its lock.  The tokens stay in the pool.                             *)
DispatchOffload(s, d) ==
    /\ pend[s] = "run" /\ dpc[s] = "offload"
    /\ d \in dkeys[s]
    /\ \/ UNCHANGED store
       \/ store' = [m \in Messages |->
                       IF dialogue[m] = d /\ store[m] = "cached" THEN "db" ELSE store[m]]
    /\ dkeys' = [dkeys EXCEPT ![s] = @ \ {d}]
    /\ UNCHANGED <<vars, mpc, psnap, pool, overwritten, listenerVars, dpc, batch, shown>>

(* Nothing to send, a closed socket, or all hashes done.                   *)
DispatchEnds(s) ==
    /\ \/ dpc[s] = "start" /\ ~\E m \in pool[owner[s]] : store[m] = "cached"
       \/ dpc[s] = "send" /\ sock[s] = "closed"
       \/ dpc[s] = "offload" /\ dkeys[s] = {}
    /\ PendingEnds(s)
    /\ UNCHANGED chatVars

(* dispatch_pending_notification runs first, and what it raises ends the   *)
(* task before the chat part: an agent's stored request fails validation.  *)
NotificationRaises(s) ==
    /\ "notification" \in Faults
    /\ dpc[s] = "start"
    /\ PendingEnds(s)
    /\ UNCHANGED chatVars

----------------------------------------------------------------------------
HandleChat(m) ==
    \/ CheckOnline(m)
    \/ Publish(m)
    \/ StoreUndelivered(m)
    \/ PoolRead(m)
    \/ PoolWrite(m)

PubsubChat(s) ==
    \/ \E m \in Messages : ListenerTakes(s, m)
    \/ ListenerSends(s)
    \/ ListenerCaches(s)
    \/ ListenerMisfiles(s)
    \/ ListenerRaises(s)

PendingChat(s) ==
    \/ DispatchRead(s)
    \/ DispatchSend(s)
    \/ \E d \in Dialogues : DispatchOffload(s, d)
    \/ DispatchEnds(s)
    \/ NotificationRaises(s)

(* The steps of ConnectionManager that no chat step brings about.          *)
SessionStep(s) ==
    /\ \/ RouteStep(s) \/ Environment(s)
       \/ ListenerStarts(s) \/ Unsubscribe(Listener(s)) \/ RemoveOnline(Listener(s))
    /\ UNCHANGED chatVars

(* A call of handle_chat that was under way dies with the server.          *)
ServerDies ==
    /\ Crash
    /\ mpc' = [m \in Messages |->
                  IF mpc[m] \in {"new", "done"} THEN mpc[m] ELSE "dead"]
    /\ UNCHANGED <<psnap, store, pool, overwritten, listenerVars, dispatchVars>>

ChatNext ==
    \/ \E m \in Messages : HandleChat(m)
    \/ \E s \in Sockets : PubsubChat(s) \/ PendingChat(s) \/ SessionStep(s)
    \/ ServerDies

ChatSpec == ChatInit /\ [][ChatNext]_allVars

(* Tasks that can run do run; clients owe nothing.                         *)
ChatFairSpec ==
    /\ ChatSpec
    /\ \A m \in Messages : WF_allVars(HandleChat(m) /\ mpc[m] # "new")
    /\ \A s \in Sockets :
          /\ WF_allVars(PubsubChat(s))
          /\ WF_allVars(PendingChat(s))
          /\ WF_allVars(RouteStep(s) /\ UNCHANGED chatVars)

----------------------------------------------------------------------------
(* Properties.                                                             *)

(* The chat steps drive the sessions only in the ways ConnectionManager    *)
(* allows: Spec is that module's specification.                            *)
SessionsRefined == Spec

(* The complete list of how a message that handle_chat was done with can   *)
(* be missed by its addressee: published to nobody in the windows between  *)
(* the online set and the subscription, left unread in the pubsub of a     *)
(* listener that ended, misfiled after a failed send, or its token dropped *)
(* by a concurrent update of the pool.  Otherwise it was sent, or a        *)
(* listener holds it, or it is cached with its token in the right pool,    *)
(* or it is in the database.                                               *)
MissedOnlyAsListed ==
    \A m \in Messages : mpc[m] = "done" =>
        \/ m \in live \cup shown
        \/ \E s \in Sockets : m \in inbox[s] \cup {hand[s]}
        \/ store[m] = "cached" /\ m \in pool[target[m]]
        \/ store[m] = "db"
        \/ m \in unheard \cup misfiled \cup overwritten

(* Only the windows of an opening or closing session, or a session that    *)
(* ended without disconnect, make the server publish to nobody.            *)
UnheardOnlyInWindow ==
    [][\A m \in Messages : m \in unheard' \ unheard =>
          \/ target[m] \in abandoned
          \/ target[m] \notin online
          \/ \E s \in Sockets : owner[s] = target[m]
                /\ tpc[Route(s)] \in {"subscribe", "receive", "unsub", "srem"}
                /\ s \notin subscribed]_allVars

(* A message takes one way: what a listener has sent is not dispatched     *)
(* again by the next connection.                                           *)
OneWay == live \cap shown = {}

(* A queued message whose addressee connects is sent to that connection,   *)
(* unless the connection closes first or a concurrent update of the pool   *)
(* drops the token.                                                        *)
QueuedIsDispatched ==
    \A m \in Messages, s \in Sockets :
        (/\ m \in pool[owner[s]] /\ store[m] = "cached"
         /\ pend[s] = "run" /\ dpc[s] = "start")
        ~> (m \in shown \/ sock[s] = "closed" \/ m \in overwritten)

(* chat/.md:42 "If it fails, the message chat key is added to the          *)
(* recipient's pend_pool": so it is for a send that fails.                 *)
FailedSendQueued ==
    \A s \in Sockets : lstep[s] = "raise" => hand[s] \in pool[target[hand[s]]]

============================================================================
