---------------------- MODULE ConnectionManager_proofs ----------------------
(***************************************************************************)
(* Proofs about ConnectionManager, for any users, sockets, owners and      *)
(* faults, with or without overlapping sessions: the types, and that only  *)
(* a user with a session still to be disconnected is in the online set.    *)
(* Where sessions do not overlap and no frame is bad, also that a session  *)
(* is served while it is open, and that no task outlives it.               *)
(***************************************************************************)
EXTENDS ConnectionManager, TLAPS

(* The receive loop of a socket has not started before its connection.     *)
NewIsOff == \A s \in Sockets : sock[s] = "new" => tpc[Route(s)] = "off"

(* Guests are never put into the online set.                               *)
GuestOffline ==
    /\ Guest \notin online
    /\ \A s \in Sockets : tpc[Route(s)] = "sadd" => owner[s] # Guest

IInv == TypeOK /\ NewIsOff /\ GuestOffline /\ OnlineHasSession

----------------------------------------------------------------------------
(* Tasks are the routes and the listeners, no one is both, and two sockets *)
(* have different ones.                                                    *)
LEMMA TaskFacts ==
    /\ \A s \in Sockets : Route(s) \in Tasks /\ Listener(s) \in Tasks
    /\ \A s \in Sockets : UserOf(Route(s)) = owner[s] /\ UserOf(Listener(s)) = owner[s]
    /\ \A s, r : Route(s) # Listener(r)
    /\ \A s, r : Route(s) = Route(r) => s = r
    /\ \A t \in Tasks : UserOf(t) \in Users
BY UsersAssumption DEF Tasks, Route, Listener, UserOf

(* What the rest of disconnect after the pops changes: only listeners and  *)
(* the task that runs it move, and the latter towards the srem unless its  *)
(* user is a guest.                                                        *)
LEMMA CancelFacts ==
    ASSUME TypeOK, NEW t \in Tasks, CancelListener(t)
    PROVE  /\ listeners' \in [Users -> Maybe]
           /\ tpc' \in [Tasks -> Control]
           /\ online' \subseteq online
           /\ \A s \in Sockets : Route(s) # t => tpc'[Route(s)] = tpc[Route(s)]
           /\ \A s \in Sockets : Route(s) = t =>
                 tpc'[Route(s)] = IF owner[s] = Guest THEN "done" ELSE "srem"
<1>1. listeners' \in [Users -> Maybe]
  BY DEF TypeOK, CancelListener, Maybe
<1>2. tpc' \in [Tasks -> Control]
  BY DEF TypeOK, CancelListener, Control
<1>3. online' \subseteq online
  BY DEF CancelListener
<1>4. \A s \in Sockets : Route(s) # t => tpc'[Route(s)] = tpc[Route(s)]
  BY TaskFacts DEF CancelListener
<1>5. \A s \in Sockets : Route(s) = t =>
          tpc'[Route(s)] = IF owner[s] = Guest THEN "done" ELSE "srem"
  BY TaskFacts DEF CancelListener
<1>6. QED
  BY <1>1, <1>2, <1>3, <1>4, <1>5

(* The same for a whole disconnect up to its first await.                  *)
LEMMA DisconnectFacts ==
    ASSUME TypeOK, NEW t \in Tasks, Disconnect(t)
    PROVE  /\ TypeOK'
           /\ online' \subseteq online
           /\ \A s \in Sockets : Route(s) # t => tpc'[Route(s)] = tpc[Route(s)]
           /\ \A s \in Sockets : Route(s) = t =>
                 \/ tpc'[Route(s)] \in {"unsub", "srem"}
                 \/ tpc'[Route(s)] = "done" /\ owner[s] = Guest
           /\ sock' = sock /\ abandoned' = abandoned
<1> USE TaskFacts
<1>1. UserOf(t) \in Users
  OBVIOUS
<1>2. active' \in [Users -> Maybe] /\ pubsubs' \in [Users -> Maybe]
  BY DEF TypeOK, Disconnect, Maybe
<1>3. tpub' \in [Tasks -> Maybe]
  BY <1>1 DEF TypeOK, Disconnect
<1>4. sock' = sock /\ abandoned' = abandoned
  BY DEF Disconnect
<1>5. CASE pubsubs[UserOf(t)] # None
  <2>1. tpc' = [tpc EXCEPT ![t] = "unsub"] /\ listeners' = listeners /\ online' = online
    BY <1>5 DEF Disconnect
  <2>2. tpc' \in [Tasks -> Control]
    BY <2>1 DEF TypeOK, Control
  <2>3. TypeOK'
    BY <1>2, <1>3, <2>1, <2>2 DEF TypeOK, Disconnect
  <2>4. QED
    BY <1>4, <2>1, <2>3 DEF TypeOK
<1>6. CASE pubsubs[UserOf(t)] = None
  <2>1. CancelListener(t)
    BY <1>6 DEF Disconnect
  <2>2. TypeOK'
    BY <1>2, <1>3, <2>1, CancelFacts DEF TypeOK, Disconnect
  <2>3. QED
    BY <1>4, <2>1, <2>2, CancelFacts
<1>7. QED
  BY <1>5, <1>6

(* And for the step after the unsubscribe.                                 *)
LEMMA UnsubscribeFacts ==
    ASSUME TypeOK, NEW t \in Tasks, Unsubscribe(t)
    PROVE  /\ TypeOK'
           /\ online' \subseteq online
           /\ \A s \in Sockets : Route(s) # t => tpc'[Route(s)] = tpc[Route(s)]
           /\ \A s \in Sockets : Route(s) = t =>
                 \/ tpc'[Route(s)] \in {"unsub", "srem"}
                 \/ tpc'[Route(s)] = "done" /\ owner[s] = Guest
           /\ sock' = sock /\ abandoned' = abandoned
<1>1. CancelListener(t)
  BY DEF Unsubscribe
<1>2. subscribed' \subseteq Sockets
  BY DEF TypeOK, Unsubscribe
<1>3. tpub' \in [Tasks -> Maybe]
  BY DEF TypeOK, Unsubscribe, Maybe
<1>4. TypeOK'
  BY <1>1, <1>2, <1>3, CancelFacts DEF TypeOK, Unsubscribe
<1>5. QED
  BY <1>1, <1>4, CancelFacts DEF Unsubscribe

----------------------------------------------------------------------------
LEMMA TypeInit == Init => TypeOK
BY DEF Init, TypeOK, Maybe, Control

LEMMA TypeStep == TypeOK /\ [Next]_vars => TypeOK'
<1> SUFFICES ASSUME TypeOK, [Next]_vars PROVE TypeOK'
  OBVIOUS
<1> USE TaskFacts, UsersAssumption
<1>1. ASSUME NEW s \in Sockets, Connect(s) PROVE TypeOK'
  BY <1>1 DEF TypeOK, Connect, Maybe, Control, redisVars
<1>2. ASSUME NEW s \in Sockets, AddOnline(s) PROVE TypeOK'
  BY <1>2 DEF TypeOK, AddOnline, Maybe, Control
<1>3. ASSUME NEW s \in Sockets, Subscribe(s) PROVE TypeOK'
  BY <1>3 DEF TypeOK, Subscribe, Maybe, Control
<1>4. ASSUME NEW s \in Sockets, RouteEnds(s) PROVE TypeOK'
  BY <1>4, DisconnectFacts DEF RouteEnds
<1>5. ASSUME NEW t \in Tasks, Unsubscribe(t) PROVE TypeOK'
  BY <1>5, UnsubscribeFacts
<1>6. ASSUME NEW t \in Tasks, RemoveOnline(t) PROVE TypeOK'
  BY <1>6 DEF TypeOK, RemoveOnline, Maybe, Control
<1>7. ASSUME NEW s \in Sockets, ListenerStarts(s) PROVE TypeOK'
  BY <1>7 DEF TypeOK, ListenerStarts, Maybe, Control, mapVars, redisVars
<1>8. ASSUME NEW s \in Sockets, ListenerFails(s) PROVE TypeOK'
  BY <1>8, DisconnectFacts DEF ListenerFails
<1>9. ASSUME NEW s \in Sockets, PendingEnds(s) PROVE TypeOK'
  BY <1>9 DEF TypeOK, PendingEnds, mapVars, redisVars
<1>10. ASSUME NEW s \in Sockets, ClientCloses(s) PROVE TypeOK'
  BY <1>10 DEF TypeOK, ClientCloses, mapVars, redisVars, taskVars
<1>11. ASSUME NEW s \in Sockets, BadFrame(s) PROVE TypeOK'
  BY <1>11 DEF TypeOK, BadFrame, mapVars, redisVars, Control
<1>12. ASSUME Crash PROVE TypeOK'
  BY <1>12 DEF TypeOK, Crash, Maybe, Control, Serving
<1>13. CASE UNCHANGED vars
  BY <1>13 DEF TypeOK, vars, mapVars, redisVars, taskVars
<1>14. QED
  BY <1>1, <1>2, <1>3, <1>4, <1>5, <1>6, <1>7, <1>8, <1>9, <1>10, <1>11, <1>12, <1>13
     DEF Next, RouteStep, ListenerStep, Environment

----------------------------------------------------------------------------
LEMMA IInvInit == Init => IInv
<1>1. Init => NewIsOff /\ GuestOffline /\ OnlineHasSession
  BY TaskFacts DEF Init, NewIsOff, GuestOffline, OnlineHasSession
<1>2. QED
  BY <1>1, TypeInit DEF IInv

(* What every step of a task t that runs disconnect leaves of the          *)
(* invariant, from the facts about its route above.                        *)
LEMMA EndingStep ==
    ASSUME IInv, TypeOK', NEW t \in Tasks,
           online' \subseteq online, sock' = sock, abandoned' = abandoned,
           \A s \in Sockets : Route(s) # t => tpc'[Route(s)] = tpc[Route(s)],
           \A s \in Sockets : Route(s) = t =>
               /\ tpc[Route(s)] # "off"
               /\ \/ tpc'[Route(s)] \in {"unsub", "srem"}
                  \/ tpc'[Route(s)] = "done" /\ owner[s] = Guest
    PROVE  IInv'
<1>1. NewIsOff'
  BY DEF IInv, NewIsOff
<1>2. GuestOffline'
  BY DEF IInv, GuestOffline
<1>3. OnlineHasSession'
  <2> SUFFICES ASSUME NEW u \in online' \ abandoned'
               PROVE \E s \in Sockets : /\ owner[s] = u
                        /\ tpc'[Route(s)] \in {"subscribe", "receive", "unsub", "srem"}
    BY DEF OnlineHasSession
  <2>1. u \in online \ abandoned /\ u # Guest
    BY DEF IInv, GuestOffline
  <2>2. PICK s \in Sockets : /\ owner[s] = u
            /\ tpc[Route(s)] \in {"subscribe", "receive", "unsub", "srem"}
    BY <2>1 DEF IInv, OnlineHasSession
  <2>3. QED
    BY <2>1, <2>2
<1>4. QED
  BY <1>1, <1>2, <1>3 DEF IInv

LEMMA IInvStep == IInv /\ [Next]_vars => IInv'
<1> SUFFICES ASSUME IInv, [Next]_vars PROVE IInv'
  OBVIOUS
<1> USE TaskFacts, UsersAssumption
<1>0. TypeOK /\ TypeOK'
  BY TypeStep DEF IInv
<1>1. ASSUME NEW s \in Sockets, Connect(s) PROVE IInv'
  <2>1. tpc[Route(s)] = "off" /\ tpc'[Route(s)] \in {"subscribe", "sadd"}
    BY <1>0, <1>1 DEF TypeOK, Connect, IInv, NewIsOff
  <2>2. \A r \in Sockets \ {s} : tpc'[Route(r)] = tpc[Route(r)] /\ sock'[r] = sock[r]
    BY <1>0, <1>1 DEF TypeOK, Connect
  <2>3. sock'[s] = "open" /\ online' = online /\ abandoned' = abandoned
    BY <1>0, <1>1 DEF TypeOK, Connect, redisVars
  <2>4. tpc'[Route(s)] = "sadd" => owner[s] # Guest
    BY <1>0, <1>1 DEF TypeOK, Connect
  <2>5. NewIsOff' /\ GuestOffline'
    BY <2>1, <2>2, <2>3, <2>4 DEF IInv, NewIsOff, GuestOffline
  <2>6. OnlineHasSession'
    BY <2>1, <2>2, <2>3 DEF IInv, OnlineHasSession
  <2>7. QED
    BY <1>0, <2>5, <2>6 DEF IInv
<1>2. ASSUME NEW s \in Sockets, AddOnline(s) PROVE IInv'
  <2>1. tpc[Route(s)] = "sadd" /\ tpc'[Route(s)] = "subscribe"
    BY <1>0, <1>2 DEF TypeOK, AddOnline
  <2>2. \A r \in Sockets \ {s} : tpc'[Route(r)] = tpc[Route(r)]
    BY <1>0, <1>2 DEF TypeOK, AddOnline
  <2>3. sock' = sock /\ online' = online \cup {owner[s]} /\ abandoned' = abandoned
    BY <1>2 DEF AddOnline
  <2>4. NewIsOff' /\ GuestOffline'
    BY <2>1, <2>2, <2>3 DEF IInv, NewIsOff, GuestOffline
  <2>5. OnlineHasSession'
    BY <2>1, <2>2, <2>3 DEF IInv, OnlineHasSession
  <2>6. QED
    BY <1>0, <2>4, <2>5 DEF IInv
<1>3. ASSUME NEW s \in Sockets, Subscribe(s) PROVE IInv'
  <2>1. tpc[Route(s)] = "subscribe" /\ tpc'[Route(s)] = "receive"
    BY <1>0, <1>3 DEF TypeOK, Subscribe
  <2>2. \A r \in Sockets \ {s} : tpc'[Route(r)] = tpc[Route(r)]
    BY <1>0, <1>3 DEF TypeOK, Subscribe
  <2>3. sock' = sock /\ online' = online /\ abandoned' = abandoned
    BY <1>3 DEF Subscribe
  <2>4. NewIsOff' /\ GuestOffline'
    BY <2>1, <2>2, <2>3 DEF IInv, NewIsOff, GuestOffline
  <2>5. OnlineHasSession'
    BY <2>1, <2>2, <2>3 DEF IInv, OnlineHasSession
  <2>6. QED
    BY <1>0, <2>4, <2>5 DEF IInv
<1>4. ASSUME NEW s \in Sockets, RouteEnds(s) PROVE IInv'
  <2>1. Disconnect(Route(s)) /\ tpc[Route(s)] = "receive"
    BY <1>4 DEF RouteEnds
  <2>2. QED
    BY <1>0, <2>1, DisconnectFacts, EndingStep
<1>5. ASSUME NEW t \in Tasks, Unsubscribe(t) PROVE IInv'
  <2>1. tpc[t] = "unsub"
    BY <1>5 DEF Unsubscribe
  <2>2. QED
    BY <1>0, <1>5, <2>1, UnsubscribeFacts, EndingStep
<1>6. ASSUME NEW t \in Tasks, RemoveOnline(t) PROVE IInv'
  <2>1. tpc[t] = "srem" /\ sock' = sock
    BY <1>6 DEF RemoveOnline
  <2>2. /\ online' = online \ {UserOf(t)}
        /\ abandoned' = abandoned \ {UserOf(t)}
    BY <1>6 DEF RemoveOnline
  <2>3. tpc' = [tpc EXCEPT ![t] = "done"]
    BY <1>6 DEF RemoveOnline
  <2>4. \A s \in Sockets : Route(s) = t => tpc'[Route(s)] = "done"
    BY <1>0, <2>3 DEF TypeOK
  <2>5. \A s \in Sockets : Route(s) # t => tpc'[Route(s)] = tpc[Route(s)]
    BY <1>0, <2>3 DEF TypeOK
  <2>6. NewIsOff' /\ GuestOffline'
    BY <2>1, <2>2, <2>4, <2>5 DEF IInv, NewIsOff, GuestOffline
  <2>7. OnlineHasSession'
    <3> SUFFICES ASSUME NEW u \in online' \ abandoned'
                 PROVE \E s \in Sockets : /\ owner[s] = u
                          /\ tpc'[Route(s)] \in {"subscribe", "receive", "unsub", "srem"}
      BY DEF OnlineHasSession
    <3>1. u \in online \ abandoned /\ u # UserOf(t)
      BY <2>2
    <3>2. PICK s \in Sockets : /\ owner[s] = u
              /\ tpc[Route(s)] \in {"subscribe", "receive", "unsub", "srem"}
      BY <3>1 DEF IInv, OnlineHasSession
    <3>3. Route(s) # t
      BY <3>1, <3>2
    <3>4. QED
      BY <2>5, <3>2, <3>3
  <2>8. QED
    BY <1>0, <2>6, <2>7 DEF IInv
<1>7. ASSUME NEW s \in Sockets, ListenerStarts(s) PROVE IInv'
  <2>1. \A r \in Sockets : tpc'[Route(r)] = tpc[Route(r)]
    BY <1>0, <1>7 DEF TypeOK, ListenerStarts
  <2>2. sock' = sock /\ online' = online /\ abandoned' = abandoned
    BY <1>7 DEF ListenerStarts, redisVars
  <2>3. QED
    BY <1>0, <2>1, <2>2 DEF IInv, NewIsOff, GuestOffline, OnlineHasSession
<1>8. ASSUME NEW s \in Sockets, ListenerFails(s) PROVE IInv'
  <2>1. Disconnect(Listener(s))
    BY <1>8 DEF ListenerFails
  <2>2. QED
    BY <1>0, <2>1, DisconnectFacts, EndingStep
<1>9. ASSUME NEW s \in Sockets, PendingEnds(s) PROVE IInv'
  BY <1>0, <1>9 DEF PendingEnds, redisVars, IInv, NewIsOff, GuestOffline, OnlineHasSession
<1>10. ASSUME NEW s \in Sockets, ClientCloses(s) PROVE IInv'
  <2>1. \A r \in Sockets : sock'[r] = "new" => sock[r] = "new"
    BY <1>0, <1>10 DEF TypeOK, ClientCloses
  <2>2. tpc' = tpc /\ online' = online /\ abandoned' = abandoned
    BY <1>10 DEF ClientCloses, redisVars, taskVars
  <2>3. QED
    BY <1>0, <2>1, <2>2 DEF IInv, NewIsOff, GuestOffline, OnlineHasSession
<1>11. ASSUME NEW s \in Sockets, BadFrame(s) PROVE IInv'
  <2>1. tpc[Route(s)] = "receive" /\ tpc'[Route(s)] = "done" /\ sock'[s] = "closed"
    BY <1>0, <1>11 DEF TypeOK, BadFrame
  <2>2. \A r \in Sockets \ {s} : tpc'[Route(r)] = tpc[Route(r)] /\ sock'[r] = sock[r]
    BY <1>0, <1>11 DEF TypeOK, BadFrame
  <2>3. online' = online /\ abandoned' = abandoned \cup {owner[s]}
    BY <1>11 DEF BadFrame, redisVars
  <2>4. NewIsOff' /\ GuestOffline'
    BY <2>1, <2>2, <2>3 DEF IInv, NewIsOff, GuestOffline
  <2>5. OnlineHasSession'
    BY <2>2, <2>3 DEF IInv, OnlineHasSession
  <2>6. QED
    BY <1>0, <2>4, <2>5 DEF IInv
<1>12. ASSUME Crash PROVE IInv'
  <2>1. \A s \in Sockets :
            /\ sock'[s] = "new" => sock[s] = "new"
            /\ tpc'[Route(s)] = IF tpc[Route(s)] = "off" THEN "off" ELSE "done"
    BY <1>0, <1>12 DEF TypeOK, Crash
  <2>2. /\ online' = online
        /\ abandoned' = abandoned \cup {owner[s] : s \in {r \in Sockets : Serving(r)}}
    BY <1>12 DEF Crash
  <2>3. NewIsOff' /\ GuestOffline'
    BY <2>1, <2>2 DEF IInv, NewIsOff, GuestOffline
  <2>4. online' \ abandoned' = {}
    BY <2>2 DEF IInv, OnlineHasSession, Serving
  <2>5. QED
    BY <1>0, <2>3, <2>4 DEF IInv, OnlineHasSession
<1>13. CASE UNCHANGED vars
  BY <1>0, <1>13 DEF vars, redisVars, taskVars, IInv, NewIsOff, GuestOffline, OnlineHasSession
<1>14. QED
  BY <1>1, <1>2, <1>3, <1>4, <1>5, <1>6, <1>7, <1>8, <1>9, <1>10, <1>11, <1>12, <1>13
     DEF Next, RouteStep, ListenerStep, Environment

LEMMA IInvariant == Spec => []IInv
BY IInvInit, IInvStep, PTL DEF Spec

----------------------------------------------------------------------------
(* The maps, sets and control points keep their types whatever the         *)
(* sessions, the overlaps and the faults are.                              *)
THEOREM TypeCorrect == Spec => []TypeOK
BY IInvariant, PTL DEF IInv

(* Whichever tasks run disconnect, and whichever of them is cancelled in   *)
(* the middle, a user in the redis set of online users has a socket whose  *)
(* receive loop still owes the srem, unless a crash or a bad frame ended a *)
(* session of the user without disconnect.                                 *)
THEOREM OnlineSound == Spec => []OnlineHasSession
BY IInvariant, PTL DEF IInv

----------------------------------------------------------------------------
(* Sessions one at a time.  Guests share the entries of one user, so that  *)
(* a guest's socket is taken when it is the only one.                      *)
Sole(s) == owner[s] = Guest => \A r \in Sockets \ {s} : owner[r] # Guest

Resting == {"off", "done"}

(* What the maps and the tasks of a socket say of each other.              *)
Session(s) ==
    LET u == owner[s]
        route == tpc[Route(s)]
        listener == tpc[Listener(s)]
    IN  /\ route \notin {"created", "run"}
        /\ route = "off" <=> sock[s] = "new"
        /\ route \in {"unsub", "srem", "done"} => sock[s] = "closed"
        /\ route \in Resting => pend[s] # "run"
        /\ route = "sadd" => pend[s] # "run" /\ u # Guest
        /\ route \in {"sadd", "subscribe"} => active[u] = s
        /\ route = "subscribe" /\ u # Guest => u \in online
        /\ route \notin {"receive", "unsub"} => listener \in Resting
        /\ route \in {"receive", "unsub"} => active[u] \in {s, None}
        /\ pend[s] = "run" => pendings[u] = s /\ u # Guest
        /\ listener \in {"created", "run", "unsub"} \cup Resting
        /\ listener \notin Resting => listeners[u] = s
        /\ listener = "unsub" => sock[s] = "closed"
        /\ listener = "run" => lsock[s] = s
        /\ route = "receive" /\ sock[s] = "open" =>
              /\ u # Guest => u \in online
              /\ s \in subscribed
              /\ active[u] = s /\ listeners[u] = s
              /\ listener \in {"created", "run"}
SoleSessions == \A s \in Sockets : Sole(s) => Session(s)

(* What the maps hold of a user, and what a disconnect has popped, are of  *)
(* sockets of that user.                                                   *)
MapsAreOwn ==
    /\ \A v \in Users :
          /\ pubsubs[v] # None => owner[pubsubs[v]] = v
          /\ listeners[v] # None => owner[listeners[v]] = v
          /\ pendings[v] # None => owner[pendings[v]] = v
    /\ \A t \in Tasks : tpub[t] # None => owner[tpub[t]] = UserOf(t)

OneServed ==
    \A s, r \in Sockets :
        owner[s] = owner[r] /\ owner[s] # Guest /\ Serving(s) /\ Serving(r) => s = r

ServeInv == TypeOK /\ MapsAreOwn /\ OneServed /\ SoleSessions

(* What a step of the session of a socket leaves as it is.                 *)
Untouched(s) ==
    LET u == owner[s]
    IN  /\ tpc'[Route(s)] = tpc[Route(s)] /\ tpc'[Listener(s)] = tpc[Listener(s)]
        /\ sock'[s] = sock[s] /\ pend'[s] = pend[s] /\ lsock'[s] = lsock[s]
        /\ active'[u] = active[u] /\ listeners'[u] = listeners[u]
        /\ pendings'[u] = pendings[u]
        /\ u \in online' <=> u \in online
        /\ s \in subscribed' <=> s \in subscribed
Rests(s) ==
    /\ tpc'[Route(s)] = tpc[Route(s)] /\ tpc'[Listener(s)] \in {tpc[Listener(s)], "done"}
    /\ sock'[s] = sock[s] /\ pend'[s] \in {pend[s], "done"}
Spares(a) ==
    /\ \A s \in Sockets : owner[s] # owner[a] => Untouched(s)
    /\ \A s \in Sockets \ {a} : Rests(s)

LEMMA UntouchedStays ==
    ASSUME NEW s \in Sockets, Session(s), Untouched(s)
    PROVE  Session(s)'
BY DEF Session, Untouched

LEMMA RestStays ==
    ASSUME NEW s \in Sockets, Session(s), Rests(s), tpc[Route(s)] \in Resting
    PROVE  Session(s)'
BY DEF Session, Rests, Resting

(* A step of the session of a socket keeps the invariant, if it keeps what *)
(* is said of that socket and of the maps.                                 *)
LEMMA SoleStep ==
    ASSUME ServeInv, NEW a \in Sockets, Spares(a), TypeOK', MapsAreOwn',
           \/ Serving(a)
           \/ owner[a] = Guest
           \/ \A r \in Sockets : owner[r] = owner[a] => ~Serving(r),
           Sole(a) => Session(a)'
    PROVE  ServeInv'
<1>1. \A s \in Sockets \ {a} : owner[s] = owner[a] /\ owner[a] # Guest => tpc[Route(s)] \in Resting
  BY DEF ServeInv, OneServed, Serving, Resting
<1>2. OneServed'
  BY <1>1 DEF ServeInv, OneServed, Serving, Resting, Spares, Rests
<1>3. ASSUME NEW s \in Sockets, Sole(s)
      PROVE  Session(s)'
  <2>1. CASE s = a
    BY <1>3, <2>1
  <2>2. CASE owner[s] # owner[a]
    BY <1>3, <2>2, UntouchedStays DEF ServeInv, SoleSessions, Spares
  <2>3. CASE s # a /\ owner[s] = owner[a]
    <3>1. owner[a] # Guest
      BY <1>3, <2>3 DEF Sole
    <3>2. QED
      BY <1>1, <1>3, <2>3, <3>1, RestStays DEF ServeInv, SoleSessions, Spares
  <2>4. QED
    BY <2>1, <2>2, <2>3
<1>4. QED
  BY <1>2, <1>3 DEF ServeInv, SoleSessions, Sole

(* The cancellation of the listener stays with the user of the task.       *)
LEMMA CancelSpares ==
    ASSUME TypeOK, MapsAreOwn, NEW a \in Sockets, NEW t \in {Route(a), Listener(a)},
           CancelListener(t)
    PROVE  /\ listeners' = [listeners EXCEPT ![owner[a]] = None]
           /\ \A s \in Sockets : tpc'[Route(s)] =
                 IF t = Route(s) THEN IF owner[a] = Guest THEN "done" ELSE "srem" ELSE tpc[Route(s)]
           /\ \A s \in Sockets : listeners[owner[a]] = s => tpc'[Listener(s)] = "done"
           /\ \A s \in Sockets : listeners[owner[a]] # s /\ t # Listener(s) =>
                 tpc'[Listener(s)] = tpc[Listener(s)]
           /\ \A s \in Sockets : owner[s] # owner[a] => tpc'[Listener(s)] = tpc[Listener(s)]
           /\ \A v \in Users \ {owner[a]} : v \in online' <=> v \in online
<1>1. UserOf(t) = owner[a] /\ t \in Tasks /\ owner[a] \in Users
  BY TaskFacts, UsersAssumption
<1>2. \A s, r : Listener(s) = Listener(r) => s = r
  BY DEF Listener
<1>3. listeners' = [listeners EXCEPT ![owner[a]] = None]
  BY <1>1 DEF CancelListener
<1>4. tpc' = [x \in Tasks |-> IF x = Listener(listeners[owner[a]]) THEN "done"
                              ELSE IF x = t THEN IF owner[a] = Guest THEN "done" ELSE "srem"
                              ELSE tpc[x]]
  BY <1>1 DEF CancelListener
<1>5. \A v \in Users \ {owner[a]} : v \in online' <=> v \in online
  BY <1>1 DEF CancelListener
<1>6. \A s \in Sockets : tpc'[Route(s)] =
         IF t = Route(s) THEN IF owner[a] = Guest THEN "done" ELSE "srem" ELSE tpc[Route(s)]
  BY <1>4, TaskFacts
<1>7. \A s \in Sockets : listeners[owner[a]] = s => tpc'[Listener(s)] = "done"
  BY <1>4, TaskFacts
<1>8. \A s \in Sockets : listeners[owner[a]] # s /\ t # Listener(s) =>
         tpc'[Listener(s)] = tpc[Listener(s)]
  BY <1>2, <1>4, TaskFacts
<1>9. ASSUME NEW s \in Sockets, owner[s] # owner[a]
      PROVE  tpc'[Listener(s)] = tpc[Listener(s)]
  <2>1. listeners[owner[a]] # s
    BY <1>1, <1>9, NoneAssumption DEF MapsAreOwn
  <2>2. t # Listener(s)
    BY <1>1, <1>9, TaskFacts
  <2>3. QED
    BY <1>8, <2>1, <2>2
<1>10. QED
  BY <1>3, <1>5, <1>6, <1>7, <1>8, <1>9

LEMMA ServeInvInit == Init => ServeInv
<1>1. Init => MapsAreOwn /\ OneServed
  BY TaskFacts DEF Init, MapsAreOwn, OneServed, Serving
<1>2. Init => SoleSessions
  BY TaskFacts DEF Init, SoleSessions, Session, Resting
<1>3. QED
  BY <1>1, <1>2, TypeInit DEF ServeInv

LEMMA ConnectServes ==
    ASSUME ServeInv, ~Overlap, NEW a \in Sockets, Connect(a), TypeOK'
    PROVE  ServeInv'
<1> USE TaskFacts, UsersAssumption, NoneAssumption
<1>0. TypeOK /\ MapsAreOwn /\ owner[a] \in Users
  BY DEF ServeInv
<1>1. /\ sock[a] = "new" /\ sock' = [sock EXCEPT ![a] = "open"]
      /\ active' = [active EXCEPT ![owner[a]] = a]
      /\ pubsubs' = [pubsubs EXCEPT ![owner[a]] = a]
      /\ tpc' = [tpc EXCEPT ![Route(a)] = IF owner[a] = Guest THEN "subscribe" ELSE "sadd"]
      /\ UNCHANGED <<listeners, pendings, online, subscribed, tpub, lsock, pend>>
  BY DEF Connect, redisVars
<1>2. Spares(a)
  BY <1>0, <1>1 DEF Spares, Untouched, Rests, TypeOK
<1>3. MapsAreOwn'
  BY <1>0, <1>1 DEF MapsAreOwn, TypeOK
<1>4. Sole(a) => Session(a)'
  <2> SUFFICES ASSUME Sole(a) PROVE Session(a)'
    OBVIOUS
  <2>1. Session(a)
    BY DEF ServeInv, SoleSessions
  <2>2. tpc[Route(a)] = "off"
    BY <1>1, <2>1 DEF Session
  <2>3. tpc'[Route(a)] \in {"sadd", "subscribe"} /\ (tpc'[Route(a)] = "subscribe" <=> owner[a] = Guest)
        /\ tpc'[Listener(a)] = tpc[Listener(a)] /\ sock'[a] = "open" /\ active'[owner[a]] = a
    BY <1>0, <1>1 DEF TypeOK
  <2>4. QED
    BY <1>1, <2>1, <2>2, <2>3 DEF Session, Resting
<1>5. \/ owner[a] = Guest
      \/ \A r \in Sockets : owner[r] = owner[a] => ~Serving(r)
  BY DEF Connect
<1>6. QED
  BY <1>2, <1>3, <1>4, <1>5, SoleStep

LEMMA OpeningServes ==
    ASSUME ServeInv, NEW a \in Sockets, AddOnline(a) \/ Subscribe(a), TypeOK'
    PROVE  ServeInv'
<1> USE TaskFacts, UsersAssumption, NoneAssumption
<1>0. TypeOK /\ MapsAreOwn /\ owner[a] \in Users
  BY DEF ServeInv
<1>1. CASE AddOnline(a)
  <2>1. Spares(a)
    BY <1>0, <1>1 DEF AddOnline, Spares, Untouched, Rests, TypeOK
  <2>2. MapsAreOwn'
    BY <1>0, <1>1 DEF AddOnline, MapsAreOwn, TypeOK
  <2>3. /\ tpc'[Route(a)] = "subscribe" /\ tpc'[Listener(a)] = tpc[Listener(a)]
        /\ owner[a] \in online' /\ pendings'[owner[a]] = a
    BY <1>0, <1>1 DEF AddOnline, TypeOK
  <2>4. tpc[Route(a)] = "sadd" /\ UNCHANGED <<sock, active, listeners, lsock>>
    BY <1>1 DEF AddOnline
  <2>5. Session(a) => Session(a)'
    BY <2>3, <2>4 DEF Session, Resting
  <2>6. QED
    BY <1>1, <2>1, <2>2, <2>5, SoleStep DEF ServeInv, SoleSessions, AddOnline, Serving
<1>2. CASE Subscribe(a)
  <2>1. Spares(a)
    <3>1. \A s \in Sockets \ {a} : /\ tpc'[Route(s)] = tpc[Route(s)]
                                   /\ tpc'[Listener(s)] = tpc[Listener(s)]
      BY <1>0, <1>2 DEF Subscribe, TypeOK, Route, Listener
    <3>2. QED
      BY <1>0, <1>2, <3>1 DEF Subscribe, Spares, Untouched, Rests, TypeOK
  <2>2. MapsAreOwn'
    BY <1>0, <1>2 DEF Subscribe, MapsAreOwn, TypeOK
  <2>3. tpc'[Route(a)] = "receive" /\ tpc'[Listener(a)] = "created"
    BY <1>0, <1>2 DEF Subscribe, TypeOK
  <2>4. Session(a) => Session(a)'
    BY <1>0, <1>2, <2>3 DEF Subscribe, Session, Resting, TypeOK
  <2>5. QED
    BY <1>2, <2>1, <2>2, <2>4, SoleStep DEF ServeInv, SoleSessions, Subscribe, Serving
<1>3. QED
  BY <1>1, <1>2

(* What the steps of disconnect leave alone, and of the maps.              *)
LEMMA EndingSpares ==
    ASSUME TypeOK, MapsAreOwn, NEW a \in Sockets, NEW t \in {Route(a), Listener(a)},
           Disconnect(t) \/ Unsubscribe(t)
    PROVE  Spares(a) /\ MapsAreOwn'
<1>0. /\ t \in Tasks /\ UserOf(t) = owner[a] /\ owner[a] \in Users
      /\ \A s \in Sockets : owner[s] \in Users
      /\ \A s \in Sockets \ {a} : t # Route(s) /\ t # Listener(s)
  BY TaskFacts, UsersAssumption DEF Route, Listener
<1>1. /\ \A v \in Users : /\ pubsubs'[v] \in {pubsubs[v], None}
                          /\ v # owner[a] => active'[v] = active[v] /\ pubsubs'[v] = pubsubs[v]
      /\ UNCHANGED <<sock, lsock, pendings, pend>>
  BY <1>0 DEF Disconnect, Unsubscribe, TypeOK
<1>2. \A x \in Tasks : tpub'[x] = tpub[x] \/ tpub'[x] = None \/ (x = t /\ tpub'[x] = pubsubs[owner[a]])
  BY <1>0 DEF Disconnect, Unsubscribe, TypeOK
<1>3. \A s \in Sockets : owner[s] # owner[a] => (s \in subscribed' <=> s \in subscribed)
  <2>1. \A s \in Sockets : owner[s] # owner[a] => tpub[t] # s
    BY <1>0, NoneAssumption DEF MapsAreOwn
  <2>2. QED
    BY <2>1 DEF Disconnect, Unsubscribe
<1>4. /\ \A v \in Users : /\ listeners'[v] \in {listeners[v], None}
                          /\ v # owner[a] => listeners'[v] = listeners[v]
      /\ \A v \in Users \ {owner[a]} : v \in online' <=> v \in online
      /\ \A s \in Sockets : /\ s # a => tpc'[Route(s)] = tpc[Route(s)]
                            /\ s # a => tpc'[Listener(s)] \in {tpc[Listener(s)], "done"}
                            /\ owner[s] # owner[a] => tpc'[Listener(s)] = tpc[Listener(s)]
  <2>1. CASE CancelListener(t)
    <3>1. listeners' = [listeners EXCEPT ![owner[a]] = None]
      BY <2>1, CancelSpares
    <3>2. \A s \in Sockets : /\ s # a => tpc'[Route(s)] = tpc[Route(s)]
                             /\ s # a => tpc'[Listener(s)] \in {tpc[Listener(s)], "done"}
                             /\ owner[s] # owner[a] => tpc'[Listener(s)] = tpc[Listener(s)]
      BY <1>0, <2>1, CancelSpares
    <3>3. \A v \in Users \ {owner[a]} : v \in online' <=> v \in online
      BY <2>1, CancelSpares
    <3>4. QED
      BY <1>0, <3>1, <3>2, <3>3 DEF TypeOK
  <2>2. CASE UNCHANGED <<listeners, online>> /\ tpc' = [tpc EXCEPT ![t] = "unsub"]
    BY <1>0, <2>2, TaskFacts DEF TypeOK
  <2>3. QED
    BY <1>0, <2>1, <2>2 DEF Disconnect, Unsubscribe
<1>5. MapsAreOwn'
  <2>1. \A v \in Users : /\ pubsubs'[v] # None => owner[pubsubs'[v]] = v
                         /\ listeners'[v] # None => owner[listeners'[v]] = v
                         /\ pendings'[v] # None => owner[pendings'[v]] = v
    BY <1>1, <1>4 DEF MapsAreOwn
  <2>2. \A x \in Tasks : tpub'[x] # None => owner[tpub'[x]] = UserOf(x)
    BY <1>0, <1>2 DEF MapsAreOwn
  <2>3. QED
    BY <2>1, <2>2 DEF MapsAreOwn, UserOf
<1>6. ASSUME NEW s \in Sockets, owner[s] # owner[a]
      PROVE  Untouched(s)
  <2>1. owner[s] \in Users \ {owner[a]} /\ s # a
    BY <1>0, <1>6
  <2>2. tpc'[Route(s)] = tpc[Route(s)] /\ tpc'[Listener(s)] = tpc[Listener(s)]
    BY <1>4, <1>6, <2>1
  <2>3. QED
    BY <1>1, <1>3, <1>4, <1>6, <2>1, <2>2 DEF Untouched
<1>7. ASSUME NEW s \in Sockets \ {a}
      PROVE  Rests(s)
  BY <1>1, <1>4 DEF Rests
<1>8. QED
  BY <1>5, <1>6, <1>7 DEF Spares

(* The receive loop and the listener of a socket end.                      *)
LEMMA RouteEndServes ==
    ASSUME ServeInv, NEW a \in Sockets, RouteEnds(a) \/ Unsubscribe(Route(a)), TypeOK'
    PROVE  ServeInv'
<1> USE TaskFacts, UsersAssumption, NoneAssumption
<1>0. TypeOK /\ MapsAreOwn /\ owner[a] \in Users /\ Route(a) \in {Route(a), Listener(a)}
  BY DEF ServeInv
<1>1. (Disconnect(Route(a)) \/ Unsubscribe(Route(a))) /\ tpc[Route(a)] \in {"receive", "unsub"}
  BY DEF RouteEnds, Unsubscribe
<1>2. Spares(a) /\ MapsAreOwn'
  BY <1>0, <1>1, EndingSpares
<1>3. Sole(a) => Session(a)'
  <2> SUFFICES ASSUME Session(a) PROVE Session(a)'
    BY DEF ServeInv, SoleSessions
  <2>1. sock[a] = "closed" /\ UNCHANGED <<sock, lsock, pendings, pend>>
        /\ active'[owner[a]] \in {active[owner[a]], None}
    BY <1>0 DEF RouteEnds, Disconnect, Unsubscribe, Session, TypeOK
  <2>2. CASE tpc' = [tpc EXCEPT ![Route(a)] = "unsub"] /\ UNCHANGED listeners
    <3>1. tpc'[Route(a)] = "unsub" /\ tpc'[Listener(a)] = tpc[Listener(a)]
      BY <1>0, <2>2 DEF TypeOK
    <3>2. QED
      BY <1>1, <2>1, <2>2, <3>1 DEF Session, Resting
  <2>3. CASE CancelListener(Route(a))
    <3>1. tpc'[Route(a)] \in {"done", "srem"} /\ (tpc'[Route(a)] = "done" => owner[a] = Guest)
      BY <1>0, <2>3, CancelSpares
    <3>2. tpc'[Listener(a)] \in Resting
      BY <1>0, <2>3, CancelSpares DEF Session, Resting
    <3>3. QED
      BY <1>1, <2>1, <3>1, <3>2 DEF Session, Resting
  <2>4. QED
    BY <1>0, <1>1, <2>2, <2>3 DEF Disconnect, Unsubscribe
<1>4. QED
  BY <1>1, <1>2, <1>3, SoleStep DEF Serving

LEMMA ListenerEndServes ==
    ASSUME ServeInv, NEW a \in Sockets, ListenerFails(a) \/ Unsubscribe(Listener(a)), TypeOK'
    PROVE  ServeInv'
<1> USE TaskFacts, UsersAssumption, NoneAssumption
<1>0. TypeOK /\ MapsAreOwn /\ owner[a] \in Users /\ Listener(a) \in {Route(a), Listener(a)}
  BY DEF ServeInv
<1>1. (Disconnect(Listener(a)) \/ Unsubscribe(Listener(a))) /\ tpc[Listener(a)] \in {"run", "unsub"}
  BY DEF ListenerFails, Unsubscribe
<1>2. Spares(a) /\ MapsAreOwn'
  BY <1>0, <1>1, EndingSpares
<1>3. Session(a) => Session(a)' /\ Serving(a)
  <2> SUFFICES ASSUME Session(a) PROVE Session(a)' /\ Serving(a)
    OBVIOUS
  <2>1. tpc[Route(a)] \in {"receive", "unsub"} /\ Serving(a) /\ listeners[owner[a]] = a
    BY <1>1 DEF Session, Resting, Serving
  <2>2. sock[a] = "closed" /\ UNCHANGED <<sock, lsock, pendings, pend>>
        /\ active'[owner[a]] \in {active[owner[a]], None}
    BY <1>0, <1>1 DEF ListenerFails, Disconnect, Unsubscribe, Session, TypeOK
  <2>3. CASE tpc' = [tpc EXCEPT ![Listener(a)] = "unsub"] /\ UNCHANGED listeners
    <3>1. tpc'[Route(a)] = tpc[Route(a)] /\ tpc'[Listener(a)] = "unsub"
      BY <1>0, <2>3 DEF TypeOK
    <3>2. QED
      BY <2>1, <2>2, <2>3, <3>1 DEF Session, Resting
  <2>4. CASE CancelListener(Listener(a))
    <3>1. tpc'[Route(a)] = tpc[Route(a)] /\ tpc'[Listener(a)] = "done"
      BY <1>0, <2>1, <2>4, CancelSpares
    <3>2. QED
      BY <2>1, <2>2, <3>1 DEF Session, Resting
  <2>5. QED
    BY <1>0, <1>1, <2>1, <2>3, <2>4 DEF Disconnect, Unsubscribe
<1>4. QED
  BY <1>2, <1>3, SoleStep DEF ServeInv, SoleSessions, Sole

LEMMA RemovalServes ==
    ASSUME ServeInv, NEW a \in Sockets, NEW t \in {Route(a), Listener(a)}, RemoveOnline(t), TypeOK'
    PROVE  ServeInv'
<1>0. /\ TypeOK /\ MapsAreOwn /\ owner[a] \in Users
      /\ t \in Tasks /\ UserOf(t) = owner[a]
      /\ \A s \in Sockets \ {a} : t # Route(s) /\ t # Listener(s)
  BY TaskFacts, UsersAssumption DEF ServeInv, Route, Listener
<1>1. /\ tpc[t] = "srem" /\ tpc' = [tpc EXCEPT ![t] = "done"]
      /\ online' = online \ {owner[a]}
      /\ pendings' = [pendings EXCEPT ![owner[a]] = None]
      /\ pend' = [s \in Sockets |-> IF s = pendings[owner[a]] THEN "done" ELSE pend[s]]
      /\ UNCHANGED <<sock, active, pubsubs, listeners, subscribed, tpub, lsock>>
  BY <1>0 DEF RemoveOnline
<1>2. \A s \in Sockets \ {a} : tpc'[Route(s)] = tpc[Route(s)] /\ tpc'[Listener(s)] = tpc[Listener(s)]
  BY <1>0, <1>1, TaskFacts DEF TypeOK
<1>3. \A s \in Sockets : owner[s] # owner[a] => s # pendings[owner[a]]
  BY <1>0, NoneAssumption DEF MapsAreOwn
<1>4. Spares(a)
  BY <1>0, <1>1, <1>2, <1>3, UsersAssumption DEF Spares, Untouched, Rests, TypeOK
<1>5. MapsAreOwn'
  BY <1>0, <1>1 DEF MapsAreOwn, TypeOK, UserOf
<1>6. Session(a) => Session(a)' /\ Serving(a)
  <2> SUFFICES ASSUME Session(a) PROVE Session(a)' /\ Serving(a)
    OBVIOUS
  <2>1. t = Route(a)
    BY <1>1 DEF Session, Resting
  <2>2. tpc[Route(a)] = "srem" /\ tpc'[Route(a)] = "done" /\ tpc'[Listener(a)] = tpc[Listener(a)]
    BY <1>0, <1>1, <2>1, TaskFacts DEF TypeOK
  <2>3. pend'[a] # "run"
    BY <1>0, <1>1 DEF Session, TypeOK
  <2>4. QED
    BY <1>1, <2>2, <2>3 DEF Session, Resting, Serving
<1>7. QED
  BY <1>4, <1>5, <1>6, SoleStep DEF ServeInv, SoleSessions, Sole

LEMMA OtherServes ==
    ASSUME ServeInv, NEW a \in Sockets, TypeOK',
           ListenerStarts(a) \/ PendingEnds(a) \/ ClientCloses(a)
    PROVE  ServeInv'
<1>0. TypeOK /\ MapsAreOwn /\ owner[a] \in Users /\ Listener(a) \in Tasks /\ Route(a) \in Tasks
  BY TaskFacts, UsersAssumption DEF ServeInv
<1>1. /\ \A s \in Sockets : /\ tpc'[Route(s)] = tpc[Route(s)]
                            /\ s # a => tpc'[Listener(s)] = tpc[Listener(s)]
                            /\ s # a => lsock'[s] = lsock[s] /\ sock'[s] = sock[s] /\ pend'[s] = pend[s]
      /\ UNCHANGED <<mapVars, redisVars, tpub>>
  BY <1>0, TaskFacts DEF ListenerStarts, PendingEnds, ClientCloses, TypeOK, taskVars, Listener
<1>2. Spares(a)
  BY <1>1 DEF Spares, Untouched, Rests, mapVars, redisVars
<1>3. MapsAreOwn'
  BY <1>0, <1>1 DEF MapsAreOwn, mapVars, UserOf
<1>4. Session(a) => Session(a)' /\ Serving(a)
  <2> SUFFICES ASSUME Session(a) PROVE Session(a)' /\ Serving(a)
    OBVIOUS
  <2>1. CASE ListenerStarts(a)
    <3>1. tpc[Listener(a)] = "created" /\ UNCHANGED <<sock, pend>> /\ lsock'[a] = active[owner[a]]
          /\ tpc'[Listener(a)] = IF active[owner[a]] = None THEN "done" ELSE "run"
      BY <1>0, <2>1 DEF ListenerStarts, TypeOK
    <3>2. tpc[Route(a)] \in {"receive", "unsub"} /\ active[owner[a]] \in {a, None} /\ a # None
      BY <3>1, NoneAssumption DEF Session, Resting
    <3>3. QED
      BY <1>1, <3>1, <3>2 DEF Session, Resting, Serving, mapVars, redisVars
  <2>2. CASE PendingEnds(a)
    <3>1. pend[a] = "run" /\ pend'[a] = "done" /\ UNCHANGED <<sock, tpc, lsock>>
      BY <1>0, <2>2 DEF PendingEnds, TypeOK
    <3>2. QED
      BY <1>1, <3>1 DEF Session, Resting, Serving, mapVars, redisVars
  <2>3. CASE ClientCloses(a)
    <3>1. sock[a] = "open" /\ sock'[a] = "closed" /\ UNCHANGED <<pend, tpc, lsock>>
      BY <1>0, <2>3 DEF ClientCloses, TypeOK, taskVars
    <3>2. tpc[Route(a)] \notin Resting
      BY <3>1 DEF Session, Resting
    <3>3. QED
      BY <1>1, <3>1, <3>2 DEF Session, Resting, Serving, mapVars, redisVars
  <2>4. QED
    BY <2>1, <2>2, <2>3
<1>5. QED
  BY <1>2, <1>3, <1>4, SoleStep DEF ServeInv, SoleSessions, Sole

LEMMA CrashServes ==
    ASSUME ServeInv, Crash, TypeOK'
    PROVE  ServeInv'
<1>0. TypeOK
  BY DEF ServeInv
<1>1. /\ \A v \in Users : active'[v] = None /\ pubsubs'[v] = None /\ listeners'[v] = None /\ pendings'[v] = None
      /\ \A t \in Tasks : tpc'[t] = (IF tpc[t] = "off" THEN "off" ELSE "done") /\ tpub'[t] = None
      /\ \A s \in Sockets : /\ sock'[s] = IF sock[s] = "new" THEN "new" ELSE "closed"
                            /\ pend'[s] # "run"
  BY DEF Crash
<1>2. \A s \in Sockets : /\ tpc'[Route(s)] = IF tpc[Route(s)] = "off" THEN "off" ELSE "done"
                         /\ tpc'[Listener(s)] = IF tpc[Listener(s)] = "off" THEN "off" ELSE "done"
  BY <1>1, TaskFacts
<1>3. MapsAreOwn' /\ OneServed'
  BY <1>1, <1>2 DEF MapsAreOwn, OneServed, Serving
<1>4. ASSUME NEW s \in Sockets, Session(s)
      PROVE  Session(s)'
  BY <1>1, <1>2, <1>4 DEF Session, Resting
<1>5. QED
  BY <1>3, <1>4 DEF ServeInv, SoleSessions

LEMMA ServeInvStep ==
    ASSUME ~Overlap, "badframe" \notin Faults, ServeInv, [Next]_vars
    PROVE  ServeInv'
<1>0. TypeOK'
  BY TypeStep DEF ServeInv
<1>1. ASSUME NEW s \in Sockets, RouteStep(s)
      PROVE  ServeInv'
  BY <1>0, <1>1, OpeningServes, RouteEndServes, RemovalServes DEF RouteStep
<1>2. ASSUME NEW s \in Sockets, ListenerStep(s)
      PROVE  ServeInv'
  BY <1>0, <1>2, OtherServes, ListenerEndServes, RemovalServes DEF ListenerStep
<1>3. ASSUME NEW s \in Sockets, PendingEnds(s) \/ Environment(s)
      PROVE  ServeInv'
  BY <1>0, <1>3, OtherServes, ConnectServes DEF Environment, BadFrame
<1>4. CASE UNCHANGED vars
  <2>1. MapsAreOwn' /\ OneServed'
    BY <1>4 DEF vars, mapVars, taskVars, ServeInv, MapsAreOwn, OneServed, Serving, UserOf
  <2>2. SoleSessions'
    BY <1>4 DEF vars, mapVars, redisVars, taskVars, ServeInv, SoleSessions, Session
  <2>3. QED
    BY <1>0, <2>1, <2>2 DEF ServeInv
<1>5. QED
  BY <1>0, <1>1, <1>2, <1>3, <1>4, CrashServes DEF Next

LEMMA SoleInvariant == ~Overlap /\ "badframe" \notin Faults /\ Spec => []ServeInv
<1> SUFFICES ASSUME ~Overlap, "badframe" \notin Faults
             PROVE  Spec => []ServeInv
  OBVIOUS
<1>1. ServeInv /\ [Next]_vars => ServeInv'
  BY ServeInvStep
<1>2. QED
  BY <1>1, ServeInvInit, PTL DEF Spec

(* A user who opens one socket at a time is served while it is open: no    *)
(* task left of an earlier session, and no disconnect that the receive     *)
(* loop and the listener both run, tears down what a later one set up.     *)
THEOREM SoleServed == ~Overlap /\ "badframe" \notin Faults /\ Spec => []ServedWhileOpen
<1>1. ServeInv => ServedWhileOpen
  BY TaskFacts DEF ServeInv, SoleSessions, Session, Sole, ServedWhileOpen
<1>2. QED
  BY <1>1, SoleInvariant, PTL

(* Nor does the listener or the task for pending transactions outlive the  *)
(* session it was created for, a crash included.                           *)
THEOREM SoleLeavesNothing == ~Overlap /\ "badframe" \notin Faults /\ Spec => []NoOrphanTask
<1>1. ServeInv => NoOrphanTask
  BY DEF ServeInv, SoleSessions, Session, Sole, NoOrphanTask, Resting
<1>2. QED
  BY <1>1, SoleInvariant, PTL

=============================================================================
