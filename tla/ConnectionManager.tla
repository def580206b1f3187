------------------------- MODULE ConnectionManager -------------------------
(***************************************************************************)
(* The websocket sessions of the server: websocket_endpoint                *)
(* (ws_init/routes.py) and the class ConnectionManager                     *)
(* (ws_init/ws_manager.py).  The manager keys its four maps by user, not   *)
(* by socket: a second socket of a user, and every second guest since all  *)
(* guests are the user -1, overwrites the entries of the first, and        *)
(* disconnect(user) tears down whatever the maps hold by then.             *)
(*                                                                         *)
(* Each socket has two tasks that run disconnect, its receive loop (route) *)
(* and its pubsub listener; the steps between two awaits are one action.   *)
(***************************************************************************)
EXTENDS FiniteSets

CONSTANTS
    Users, Guest,   \* user ids; Guest stands for -1
    Sockets,        \* websockets, each opened once
    owner,          \* the user id of a socket
    None,
    Overlap,        \* may a user open a socket while another is served?
    Faults          \* which faults happen, see below

ASSUME UsersAssumption == Guest \in Users /\ owner \in [Sockets -> Users]
ASSUME NoneAssumption == None \notin Sockets
ASSUME EnvironmentAssumption ==
    Overlap \in BOOLEAN /\ Faults \subseteq {"badframe", "crash", "notification"}

VARIABLES
    sock,         \* the connection as the client and the transport see it
    active,       \* active_connections
    pubsubs,      \* user_pubsubs; a pubsub is named by its socket
    listeners,    \* listener_tasks
    pendings,     \* pending_trx_tasks
    online,       \* the redis set active_authenticated_actors
    subscribed,   \* pubsubs subscribed to their channels
    tpc,          \* control of every task
    tpub,         \* the pubsub a disconnect has popped and must close
    lsock,        \* the websocket a listener captured when it started
    pend,         \* handle_pending_trx tasks
    abandoned     \* history: users with a session that ended undisconnected

mapVars == <<active, pubsubs, listeners, pendings>>
redisVars == <<online, subscribed>>
taskVars == <<tpc, tpub, lsock, pend>>
vars == <<sock, mapVars, redisVars, taskVars, abandoned>>

Route(s) == <<"route", s>>
Listener(s) == <<"listener", s>>
Tasks == {"route", "listener"} \X Sockets
UserOf(t) == owner[t[2]]
Maybe == Sockets \cup {None}

Control == {"off", "sadd", "subscribe", "receive", "created", "run",
            "unsub", "srem", "done"}

TypeOK ==
    /\ sock \in [Sockets -> {"new", "open", "closed"}]
    /\ active \in [Users -> Maybe]
    /\ pubsubs \in [Users -> Maybe]
    /\ listeners \in [Users -> Maybe]
    /\ pendings \in [Users -> Maybe]
    /\ online \subseteq Users
    /\ subscribed \subseteq Sockets
    /\ tpc \in [Tasks -> Control]
    /\ tpub \in [Tasks -> Maybe]
    /\ lsock \in [Sockets -> Maybe]
    /\ pend \in [Sockets -> {"off", "run", "done"}]
    /\ abandoned \subseteq Users

Init ==
    /\ sock = [s \in Sockets |-> "new"]
    /\ active = [u \in Users |-> None] /\ pubsubs = [u \in Users |-> None]
    /\ listeners = [u \in Users |-> None] /\ pendings = [u \in Users |-> None]
    /\ online = {} /\ subscribed = {}
    /\ tpc = [t \in Tasks |-> "off"] /\ tpub = [t \in Tasks |-> None]
    /\ lsock = [s \in Sockets |-> None] /\ pend = [s \in Sockets |-> "off"]
    /\ abandoned = {}

Serving(s) == tpc[Route(s)] \notin {"off", "done"}

----------------------------------------------------------------------------
(* websocket_endpoint up to receive_text: accept and connect.              *)

Connect(s) ==
    LET u == owner[s]
    IN  /\ sock[s] = "new"
        /\ \/ Overlap
           \/ u = Guest
           \/ \A r \in Sockets : owner[r] = u => ~Serving(r)
        /\ sock' = [sock EXCEPT ![s] = "open"]
        /\ active' = [active EXCEPT ![u] = s]
        /\ pubsubs' = [pubsubs EXCEPT ![u] = s]
        /\ tpc' = [tpc EXCEPT ![Route(s)] = IF u = Guest THEN "subscribe" ELSE "sadd"]
        /\ UNCHANGED <<listeners, pendings, redisVars, tpub, lsock, pend, abandoned>>

(* The sadd, then the task for pending transactions.                       *)
AddOnline(s) ==
    /\ tpc[Route(s)] = "sadd"
    /\ online' = online \cup {owner[s]}
    /\ pendings' = [pendings EXCEPT ![owner[s]] = s]
    /\ pend' = [pend EXCEPT ![s] = "run"]
    /\ tpc' = [tpc EXCEPT ![Route(s)] = "subscribe"]
    /\ UNCHANGED <<sock, active, pubsubs, listeners, subscribed, tpub, lsock, abandoned>>

(* The subscribe, then the listener task.                                  *)
Subscribe(s) ==
    /\ tpc[Route(s)] = "subscribe"
    /\ subscribed' = subscribed \cup {s}
    /\ listeners' = [listeners EXCEPT ![owner[s]] = s]
    /\ tpc' = [tpc EXCEPT ![Route(s)] = "receive", ![Listener(s)] = "created"]
    /\ UNCHANGED <<sock, active, pubsubs, pendings, online, tpub, lsock, pend, abandoned>>

----------------------------------------------------------------------------
(* disconnect(user), run by task t.                                        *)

(* Mutant: the listener is popped and not cancelled.                       *)
CancelListenerNot(t) ==
    LET u == UserOf(t)
    IN  /\ listeners' = [listeners EXCEPT ![u] = None]
        /\ tpc' = [tpc EXCEPT ![t] = IF u = Guest THEN "done" ELSE "srem"]
        /\ online' = online

(* From listener_tasks.pop to the srem.  A listener that cancels itself is *)
(* thrown out of that await, before or after redis has seen the command.   *)
CancelListener(t) ==
    LET u == UserOf(t)
        l == listeners[u]
        last == IF u = Guest THEN "done" ELSE "srem"
        cut == {online} \cup (IF t = Listener(l) THEN {online \ {u}} ELSE {})
    IN  /\ listeners' = [listeners EXCEPT ![u] = None]
        /\ tpc' = [x \in Tasks |->
                      IF x = Listener(l) THEN "done"
                      ELSE IF x = t THEN last ELSE tpc[x]]
        /\ online' \in cut

(* Mutant: disconnect returns at once when there is no pubsub to close.    *)
DisconnectReturns(t) ==
    LET u == UserOf(t)
    IN  /\ active' = [active EXCEPT ![u] = None]
        /\ pubsubs' = [pubsubs EXCEPT ![u] = None]
        /\ tpub' = [tpub EXCEPT ![t] = pubsubs[u]]
        /\ tpc' = [tpc EXCEPT ![t] = IF pubsubs[u] # None THEN "unsub" ELSE "done"]
        /\ UNCHANGED <<sock, pendings, listeners, redisVars, lsock, pend, abandoned>>

(* The pops of the socket and the pubsub; without a pubsub no await        *)
(* separates them from the cancellation of the listener.                   *)
Disconnect(t) ==
    LET u == UserOf(t)
    IN  /\ active' = [active EXCEPT ![u] = None]
        /\ pubsubs' = [pubsubs EXCEPT ![u] = None]
        /\ tpub' = [tpub EXCEPT ![t] = pubsubs[u]]
        /\ IF pubsubs[u] # None
           THEN /\ tpc' = [tpc EXCEPT ![t] = "unsub"]
                /\ UNCHANGED <<listeners, online>>
           ELSE CancelListener(t)
        /\ UNCHANGED <<sock, pendings, subscribed, lsock, pend, abandoned>>

Unsubscribe(t) ==
    /\ tpc[t] = "unsub"
    /\ subscribed' = subscribed \ {tpub[t]}
    /\ tpub' = [tpub EXCEPT ![t] = None]
    /\ CancelListener(t)
    /\ UNCHANGED <<sock, active, pubsubs, pendings, lsock, pend, abandoned>>

(* Mutant: the task for pending transactions is popped and not cancelled.  *)
RemoveOnlineOnly(t) ==
    LET u == UserOf(t)
    IN  /\ tpc[t] = "srem"
        /\ online' = online \ {u}
        /\ pendings' = [pendings EXCEPT ![u] = None]
        /\ tpc' = [tpc EXCEPT ![t] = "done"]
        /\ abandoned' = abandoned \ {u}
        /\ UNCHANGED <<sock, active, pubsubs, listeners, subscribed, tpub, lsock, pend>>

(* Mutant: the srem is done only for a user that left no task behind.      *)
RemoveOnlineIfIdle(t) ==
    LET u == UserOf(t)
    IN  /\ tpc[t] = "srem"
        /\ online' = IF pendings[u] = None THEN online \ {u} ELSE online
        /\ pendings' = [pendings EXCEPT ![u] = None]
        /\ pend' = [s \in Sockets |-> IF s = pendings[u] THEN "done" ELSE pend[s]]
        /\ tpc' = [tpc EXCEPT ![t] = "done"]
        /\ abandoned' = abandoned \ {u}
        /\ UNCHANGED <<sock, active, pubsubs, listeners, subscribed, tpub, lsock>>

(* The srem, then the cancellation of the pending-transactions task.       *)
RemoveOnline(t) ==
    LET u == UserOf(t)
    IN  /\ tpc[t] = "srem"
        /\ online' = online \ {u}
        /\ pendings' = [pendings EXCEPT ![u] = None]
        /\ pend' = [s \in Sockets |-> IF s = pendings[u] THEN "done" ELSE pend[s]]
        /\ tpc' = [tpc EXCEPT ![t] = "done"]
        /\ abandoned' = abandoned \ {u}
        /\ UNCHANGED <<sock, active, pubsubs, listeners, subscribed, tpub, lsock>>

(* receive_text raises WebSocketDisconnect.                                *)
RouteEnds(s) ==
    /\ tpc[Route(s)] = "receive" /\ sock[s] = "closed"
    /\ Disconnect(Route(s))

----------------------------------------------------------------------------
(* _pubsub_listener.                                                       *)

ListenerStarts(s) ==
    LET w == active[owner[s]]
    IN  /\ tpc[Listener(s)] = "created"
        /\ lsock' = [lsock EXCEPT ![s] = w]
        /\ tpc' = [tpc EXCEPT ![Listener(s)] = IF w = None THEN "done" ELSE "run"]
        /\ UNCHANGED <<sock, mapVars, redisVars, tpub, pend, abandoned>>

(* A message came in and the handler could not send it: the exception ends *)
(* the loop and the listener disconnects its user.                         *)
ListenerFails(s) ==
    /\ tpc[Listener(s)] = "run" /\ sock[lsock[s]] = "closed"
    /\ Disconnect(Listener(s))

PendingEnds(s) ==
    /\ pend[s] = "run"
    /\ pend' = [pend EXCEPT ![s] = "done"]
    /\ UNCHANGED <<sock, mapVars, redisVars, tpc, tpub, lsock, abandoned>>

----------------------------------------------------------------------------
(* The client and the faults.                                              *)

ClientCloses(s) ==
    /\ sock[s] = "open"
    /\ sock' = [sock EXCEPT ![s] = "closed"]
    /\ UNCHANGED <<mapVars, redisVars, taskVars, abandoned>>

(* A frame the reception handler raises on: the endpoint catches nothing   *)
(* but WebSocketDisconnect, so it ends without disconnect.                 *)
BadFrame(s) ==
    /\ "badframe" \in Faults
    /\ tpc[Route(s)] = "receive" /\ sock[s] = "open"
    /\ sock' = [sock EXCEPT ![s] = "closed"]
    /\ tpc' = [tpc EXCEPT ![Route(s)] = "done"]
    /\ abandoned' = abandoned \cup {owner[s]}
    /\ UNCHANGED <<mapVars, redisVars, tpub, lsock, pend>>

(* The server process dies: redis keeps the set, nothing at startup clears *)
(* it, and the subscriptions end with their connections.                   *)
Crash ==
    /\ "crash" \in Faults
    /\ \E s \in Sockets : Serving(s)
    /\ sock' = [s \in Sockets |-> IF sock[s] = "new" THEN "new" ELSE "closed"]
    /\ active' = [u \in Users |-> None] /\ pubsubs' = [u \in Users |-> None]
    /\ listeners' = [u \in Users |-> None] /\ pendings' = [u \in Users |-> None]
    /\ subscribed' = {}
    /\ tpc' = [t \in Tasks |-> IF tpc[t] = "off" THEN "off" ELSE "done"]
    /\ tpub' = [t \in Tasks |-> None]
    /\ pend' = [s \in Sockets |-> IF pend[s] = "off" THEN "off" ELSE "done"]
    /\ abandoned' = abandoned \cup {owner[s] : s \in {r \in Sockets : Serving(r)}}
    /\ UNCHANGED <<online, lsock>>

----------------------------------------------------------------------------
RouteStep(s) ==
    \/ AddOnline(s)
    \/ Subscribe(s)
    \/ RouteEnds(s)
    \/ Unsubscribe(Route(s))
    \/ RemoveOnline(Route(s))

ListenerStep(s) ==
    \/ ListenerStarts(s)
    \/ ListenerFails(s)
    \/ Unsubscribe(Listener(s))
    \/ RemoveOnline(Listener(s))

Environment(s) == Connect(s) \/ ClientCloses(s) \/ BadFrame(s)

Next ==
    \/ \E s \in Sockets :
          RouteStep(s) \/ ListenerStep(s) \/ PendingEnds(s) \/ Environment(s)
    \/ Crash

Spec == Init /\ [][Next]_vars

(* The event loop resumes every task whose await has returned, and every   *)
(* redis call returns.  Clients owe nothing; a listener fails only if a    *)
(* message comes in, which nobody promises.                                *)
FairSpec ==
    /\ Spec
    /\ \A s \in Sockets :
          /\ WF_vars(RouteStep(s))
          /\ WF_vars(Unsubscribe(Listener(s)) \/ RemoveOnline(Listener(s)))

----------------------------------------------------------------------------
(* Properties.                                                             *)

(* A user in the online set has a socket that still owes its srem, unless  *)
(* a bad frame or a crash ended a session without disconnect: whichever    *)
(* tasks run disconnect, and whichever of them is cancelled in the middle. *)
OnlineHasSession ==
    \A u \in online \ abandoned :
        \E s \in Sockets :
            /\ owner[s] = u
            /\ tpc[Route(s)] \in {"subscribe", "receive", "unsub", "srem"}

(* A user with one socket at a time is served while it is open: online,    *)
(* with the socket registered and a subscribed listener that sends to it.  *)
(* No leftover of an earlier session tears the new one down.               *)
ServedWhileOpen ==
    \A s \in Sockets :
        owner[s] # Guest /\ sock[s] = "open" /\ tpc[Route(s)] = "receive" =>
            /\ owner[s] \in online
            /\ s \in subscribed
            /\ active[owner[s]] = s /\ listeners[owner[s]] = s
            /\ \/ tpc[Listener(s)] = "created"
               \/ tpc[Listener(s)] = "run" /\ lsock[s] = s

(* With one socket at a time, no task outlives the session it was created  *)
(* for, although the listener and the receive loop both run disconnect and *)
(* the one may cancel the other half-way.                                  *)
NoOrphanTask ==
    \A s \in Sockets :
        owner[s] # Guest /\ tpc[Route(s)] = "done" =>
            tpc[Listener(s)] \in {"off", "done"} /\ pend[s] # "run"

(* A user whose socket closed leaves the online set, or another socket of  *)
(* the user is being served, also when the sessions overlap; the sessions  *)
(* that a bad frame or a crash ended without disconnect are the exception. *)
GoesOffline ==
    \A s \in Sockets :
        sock[s] = "closed" ~>
            \/ owner[s] \notin online \/ owner[s] \in abandoned
            \/ \E r \in Sockets : owner[r] = owner[s] /\ sock[r] = "open"

============================================================================
