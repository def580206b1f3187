--------------------------- MODULE Delivery_proofs ---------------------------
(***************************************************************************)
(* Proofs about what the sessions deliver: chat objects first, then the    *)
(* broadcasts.  They hold for any users, sockets, messages and requests,   *)
(* whether or not sessions overlap and whichever faults happen, and rest   *)
(* on what is proved of the sessions themselves.                           *)
(***************************************************************************)
EXTENDS ChatDelivery, Broadcasts, ConnectionManager_proofs

(* The delivery of chat objects.                                           *)

(* A message comes to its addressee on one of two ways: a listener got it  *)
(* from redis, or a token of it is in a pool, or was read there.           *)
Published(m) ==
    \/ m \in live
    \/ \E s \in Sockets : m \in inbox[s] \cup {hand[s]}
Pooled(m) ==
    \/ m \in shown
    \/ \E u \in Users : m \in pool[u]
    \/ \E n \in Messages : m \in psnap[n]
    \/ \E s \in Sockets : m \in batch[s]

(* Its call has ended on that way, and there is no other.                  *)
WayInv ==
    \A m \in Messages :
        /\ Published(m) \/ Pooled(m) => mpc[m] = "done"
        /\ ~(Published(m) /\ Pooled(m))

(* Tokens are in the pool of the addressee, and what they stand for is, or *)
(* was, in the cache.                                                      *)
TokensInv ==
    /\ \A u \in Users : \A m \in pool[u] : target[m] = u /\ store[m] # "none"
    /\ \A n \in Messages : \A m \in psnap[n] : target[m] = target[n] /\ store[m] # "none"
    /\ \A m \in Messages : mpc[m] \in {"poolread", "poolwrite"} => store[m] # "none"

(* How far a listener is with the message it handles.                      *)
HandlingInv ==
    \A s \in Sockets :
        /\ lstep[s] = "sent" => hand[s] \in live
        /\ lstep[s] = "raise" => hand[s] \in misfiled

DeliveryInv == ChatTypeOK /\ IInv /\ WayInv /\ TokensInv /\ HandlingInv /\ MissedOnlyAsListed

----------------------------------------------------------------------------
(* Every step of the chat is one of the sessions, or leaves them.          *)
LEMMA ChatStepIsSession == [ChatNext]_allVars => [Next]_vars
<1> SUFFICES ASSUME [ChatNext]_allVars PROVE [Next]_vars
  OBVIOUS
<1>1. ASSUME NEW m \in Messages, HandleChat(m)
      PROVE  UNCHANGED vars
  BY <1>1 DEF HandleChat, CheckOnline, Publish, StoreUndelivered, PoolRead, PoolWrite
<1>2. ASSUME NEW s \in Sockets, PubsubChat(s)
      PROVE  UNCHANGED vars \/ ListenerFails(s)
  BY <1>2 DEF PubsubChat, ListenerTakes, ListenerSends, ListenerCaches, ListenerMisfiles, ListenerRaises
<1>3. ASSUME NEW s \in Sockets, PendingChat(s)
      PROVE  UNCHANGED vars \/ PendingEnds(s)
  BY <1>3 DEF PendingChat, DispatchRead, DispatchSend, DispatchOffload, DispatchEnds, NotificationRaises
<1>4. ASSUME NEW s \in Sockets, SessionStep(s)
      PROVE  RouteStep(s) \/ ListenerStep(s) \/ Environment(s)
  BY <1>4 DEF SessionStep, ListenerStep
<1>5. QED
  BY <1>1, <1>2, <1>3, <1>4 DEF ChatNext, Next, ListenerStep, ServerDies, allVars

(* The chat implements the sessions: whatever it does to the websockets,   *)
(* the maps and the tasks is a step that ConnectionManager allows.         *)
THEOREM ChatIsSessions == ChatSpec => SessionsRefined
<1>1. ChatInit => Init
  BY DEF ChatInit
<1>2. QED
  BY <1>1, ChatStepIsSession, PTL DEF ChatSpec, SessionsRefined, Spec

----------------------------------------------------------------------------
LEMMA DeliveryInit == ChatInit => DeliveryInv
<1> SUFFICES ASSUME ChatInit PROVE DeliveryInv
  OBVIOUS
<1>1. IInv
  BY IInvInit DEF ChatInit
<1>2. ChatTypeOK
  BY DEF ChatInit, ChatTypeOK
<1>3. WayInv /\ TokensInv /\ HandlingInv /\ MissedOnlyAsListed
  BY TargetAssumption DEF ChatInit, WayInv, Published, Pooled, TokensInv, HandlingInv, MissedOnlyAsListed
<1>4. QED
  BY <1>1, <1>2, <1>3 DEF DeliveryInv

LEMMA ChatTypeNext == ChatTypeOK /\ TypeOK /\ [ChatNext]_allVars => ChatTypeOK'
<1> SUFFICES ASSUME ChatTypeOK, TypeOK, [ChatNext]_allVars PROVE ChatTypeOK'
  OBVIOUS
<1>1. ASSUME NEW m \in Messages, HandleChat(m)
      PROVE  ChatTypeOK'
  <2>1. CASE CheckOnline(m)
    BY <2>1 DEF CheckOnline, ChatTypeOK, listenerVars, dispatchVars
  <2>2. CASE Publish(m)
    BY <2>2 DEF Publish, ChatTypeOK, dispatchVars
  <2>3. CASE StoreUndelivered(m)
    BY <2>3 DEF StoreUndelivered, ChatTypeOK, listenerVars, dispatchVars
  <2>4. CASE PoolRead(m)
    BY <2>4, TargetAssumption DEF PoolRead, ChatTypeOK, listenerVars, dispatchVars
  <2>5. CASE PoolWrite(m)
    BY <2>5, TargetAssumption DEF PoolWrite, ChatTypeOK, listenerVars, dispatchVars
  <2>6. QED
    BY <1>1, <2>1, <2>2, <2>3, <2>4, <2>5 DEF HandleChat
<1>2. ASSUME NEW s \in Sockets, PubsubChat(s)
      PROVE  ChatTypeOK'
  <2>1. CASE \E m \in Messages : ListenerTakes(s, m)
    BY <2>1 DEF ListenerTakes, ChatTypeOK, handlerVars, dispatchVars
  <2>2. CASE ListenerSends(s)
    BY <2>2 DEF ListenerSends, ChatTypeOK, handlerVars, dispatchVars
  <2>3. CASE ListenerCaches(s)
    BY <2>3 DEF ListenerCaches, ChatTypeOK, dispatchVars
  <2>4. CASE ListenerMisfiles(s)
    BY <2>4 DEF ListenerMisfiles, ChatTypeOK, dispatchVars
  <2>5. CASE ListenerRaises(s)
    BY <2>5 DEF ListenerRaises, ChatTypeOK, handlerVars, dispatchVars
  <2>6. QED
    BY <1>2, <2>1, <2>2, <2>3, <2>4, <2>5 DEF PubsubChat
<1>3. ASSUME NEW s \in Sockets, PendingChat(s)
      PROVE  ChatTypeOK'
  <2>1. CASE DispatchRead(s)
    BY <2>1, UsersAssumption DEF DispatchRead, ChatTypeOK, handlerVars, listenerVars, Dialogues
  <2>2. CASE DispatchSend(s)
    BY <2>2 DEF DispatchSend, ChatTypeOK, handlerVars, listenerVars
  <2>3. CASE \E d \in Dialogues : DispatchOffload(s, d)
    BY <2>3 DEF DispatchOffload, ChatTypeOK, listenerVars
  <2>4. CASE DispatchEnds(s) \/ NotificationRaises(s)
    BY <2>4 DEF DispatchEnds, NotificationRaises, ChatTypeOK, chatVars, handlerVars, listenerVars, dispatchVars
  <2>5. QED
    BY <1>3, <2>1, <2>2, <2>3, <2>4 DEF PendingChat
<1>4. CASE UNCHANGED chatVars
  BY <1>4 DEF ChatTypeOK, chatVars, handlerVars, listenerVars, dispatchVars
<1>5. CASE ServerDies
  BY <1>5 DEF ServerDies, ChatTypeOK, listenerVars, dispatchVars
<1>6. QED
  BY <1>1, <1>2, <1>3, <1>4, <1>5 DEF ChatNext, SessionStep, allVars

----------------------------------------------------------------------------
(* What the call of handle_chat does to the two ways.                      *)
LEMMA HandleStep ==
    ASSUME DeliveryInv, ChatTypeOK', IInv', NEW m \in Messages, HandleChat(m)
    PROVE  DeliveryInv'
<1>0. ChatTypeOK /\ WayInv /\ TokensInv /\ HandlingInv /\ MissedOnlyAsListed /\ TypeOK
  BY DEF DeliveryInv, IInv
<1>1. CASE CheckOnline(m)
  <2>1. /\ mpc[m] = "new" /\ mpc' = [mpc EXCEPT ![m] = IF target[m] \in online THEN "publish" ELSE "store"]
        /\ UNCHANGED <<psnap, store, pool, overwritten, listenerVars, dispatchVars>>
    BY <1>1 DEF CheckOnline
  <2>2. WayInv'
    BY <1>0, <2>1 DEF ChatTypeOK, WayInv, Published, Pooled, listenerVars, dispatchVars
  <2>3. TokensInv' /\ HandlingInv'
    BY <1>0, <2>1 DEF ChatTypeOK, TokensInv, HandlingInv, listenerVars
  <2>4. MissedOnlyAsListed'
    BY <1>0, <2>1 DEF ChatTypeOK, MissedOnlyAsListed, listenerVars, dispatchVars
  <2>5. QED
    BY <2>2, <2>3, <2>4 DEF DeliveryInv
<1>2. CASE Publish(m)
  <2> DEFINE got == {s \in subscribed : owner[s] = target[m]}
  <2>1. /\ mpc[m] = "publish" /\ mpc' = [mpc EXCEPT ![m] = "done"]
        /\ inbox' = [s \in Sockets |-> IF s \in got THEN inbox[s] \cup {m} ELSE inbox[s]]
        /\ unheard' = IF got = {} THEN unheard \cup {m} ELSE unheard
        /\ UNCHANGED <<psnap, store, pool, overwritten, hand, lstep, live, misfiled, dispatchVars>>
    BY <1>2 DEF Publish
  <2>2. ~Pooled(m)
    BY <1>0, <2>1 DEF WayInv
  <2>3. \A n \in Messages : Pooled(n)' <=> Pooled(n)
    BY <2>1 DEF Pooled, dispatchVars
  <2>4. \A n \in Messages \ {m} : Published(n)' <=> Published(n)
    BY <1>0, <2>1 DEF Published, ChatTypeOK
  <2>5. \A n \in Messages : mpc'[n] = IF n = m THEN "done" ELSE mpc[n]
    BY <1>0, <2>1 DEF ChatTypeOK
  <2>6. WayInv'
    BY <1>0, <2>2, <2>3, <2>4, <2>5 DEF WayInv
  <2>7. TokensInv' /\ HandlingInv'
    BY <1>0, <2>1, <2>5 DEF TokensInv, HandlingInv
  <2>8. MissedOnlyAsListed'
    <3>1. m \in unheard' \/ \E s \in Sockets : m \in inbox'[s]
      BY <1>0, <2>1 DEF TypeOK
    <3>2. \A s \in Sockets : inbox[s] \subseteq inbox'[s]
      BY <2>1
    <3>3. UNCHANGED <<store, pool, overwritten, hand, live, misfiled, shown>> /\ unheard \subseteq unheard'
      BY <2>1 DEF dispatchVars
    <3>4. QED
      BY <1>0, <2>5, <3>1, <3>2, <3>3 DEF MissedOnlyAsListed
  <2>9. QED
    BY <2>6, <2>7, <2>8 DEF DeliveryInv
<1>3. CASE StoreUndelivered(m)
  <2>1. /\ mpc[m] = "store" /\ mpc' = [mpc EXCEPT ![m] = "poolread"]
        /\ store' = [store EXCEPT ![m] = "cached"]
        /\ UNCHANGED <<psnap, pool, overwritten, listenerVars, dispatchVars>>
    BY <1>3 DEF StoreUndelivered
  <2>2. /\ \A n \in Messages : /\ mpc'[n] = IF n = m THEN "poolread" ELSE mpc[n]
                               /\ store'[n] = IF n = m THEN "cached" ELSE store[n]
    BY <1>0, <2>1 DEF ChatTypeOK
  <2>3. WayInv'
    BY <1>0, <2>1, <2>2 DEF WayInv, Published, Pooled, listenerVars, dispatchVars
  <2>4. TokensInv' /\ HandlingInv'
    BY <1>0, <2>1, <2>2 DEF ChatTypeOK, TokensInv, HandlingInv, listenerVars
  <2>5. MissedOnlyAsListed'
    BY <1>0, <2>1, <2>2 DEF MissedOnlyAsListed, listenerVars, dispatchVars
  <2>6. QED
    BY <2>3, <2>4, <2>5 DEF DeliveryInv
<1>4. CASE PoolRead(m)
  <2>1. /\ mpc[m] = "poolread" /\ mpc' = [mpc EXCEPT ![m] = "poolwrite"]
        /\ psnap' = [psnap EXCEPT ![m] = pool[target[m]]]
        /\ UNCHANGED <<store, pool, overwritten, listenerVars, dispatchVars>>
    BY <1>4 DEF PoolRead
  <2>2. \A n \in Messages : /\ mpc'[n] = IF n = m THEN "poolwrite" ELSE mpc[n]
                            /\ psnap'[n] = IF n = m THEN pool[target[m]] ELSE psnap[n]
    BY <1>0, <2>1 DEF ChatTypeOK
  <2>3. target[m] \in Users
    BY TargetAssumption
  <2>4. \A n \in Messages : Pooled(n)' => Pooled(n)
    BY <2>1, <2>2, <2>3 DEF Pooled, dispatchVars
  <2>5. WayInv'
    BY <1>0, <2>1, <2>2, <2>4 DEF WayInv, Published, listenerVars
  <2>6. TokensInv' /\ HandlingInv'
    BY <1>0, <2>1, <2>2, <2>3 DEF TokensInv, HandlingInv, listenerVars
  <2>7. MissedOnlyAsListed'
    BY <1>0, <2>1, <2>2 DEF MissedOnlyAsListed, listenerVars, dispatchVars
  <2>8. QED
    BY <2>5, <2>6, <2>7 DEF DeliveryInv
<1>5. CASE PoolWrite(m)
  <2> DEFINE u == target[m]
             tokens == psnap[m] \cup {m}
  <2>1. /\ mpc[m] = "poolwrite" /\ mpc' = [mpc EXCEPT ![m] = "done"]
        /\ pool' = [pool EXCEPT ![u] = tokens] /\ psnap' = [psnap EXCEPT ![m] = {}]
        /\ overwritten' = (overwritten \cup pool[u]) \ tokens
        /\ UNCHANGED <<store, listenerVars, dispatchVars>>
    BY <1>5 DEF PoolWrite
  <2>2. u \in Users
    BY TargetAssumption
  <2>3. /\ \A n \in Messages : /\ mpc'[n] = IF n = m THEN "done" ELSE mpc[n]
                               /\ psnap'[n] = IF n = m THEN {} ELSE psnap[n]
        /\ \A v \in Users : pool'[v] = IF v = u THEN tokens ELSE pool[v]
    BY <1>0, <2>1, <2>2 DEF ChatTypeOK
  <2>4. \A n \in tokens : n \in Messages /\ target[n] = u /\ store[n] # "none"
    BY <1>0, <2>1 DEF ChatTypeOK, TokensInv
  <2>5. \A n \in Messages : Pooled(n)' => Pooled(n) \/ n = m
    BY <2>1, <2>2, <2>3 DEF Pooled, dispatchVars
  <2>6. WayInv'
    BY <1>0, <2>1, <2>3, <2>5 DEF WayInv, Published, listenerVars
  <2>7. TokensInv' /\ HandlingInv'
    BY <1>0, <2>1, <2>3, <2>4 DEF TokensInv, HandlingInv, listenerVars
  <2>8. ASSUME NEW n \in Messages, mpc'[n] = "done"
        PROVE  \/ n \in live' \cup shown'
               \/ \E s \in Sockets : n \in inbox'[s] \cup {hand'[s]}
               \/ store'[n] = "cached" /\ n \in pool'[target[n]]
               \/ store'[n] = "db"
               \/ n \in unheard' \cup misfiled' \cup overwritten'
    <3>1. UNCHANGED <<store, live, shown, inbox, hand, unheard, misfiled>>
      BY <2>1 DEF listenerVars, dispatchVars
    <3>2. CASE n \in tokens
      <4>1. store[n] \in {"cached", "db"}
        BY <1>0, <2>4, <3>2 DEF ChatTypeOK
      <4>2. n \in pool'[target[n]]
        BY <2>2, <2>3, <2>4, <3>2
      <4>3. QED
        BY <3>1, <4>1, <4>2
    <3>3. CASE n \notin tokens
      <4>1. mpc[n] = "done"
        BY <2>3, <2>8, <3>3
      <4>2. n \in pool[target[n]] => n \in pool'[target[n]] \/ n \in overwritten'
        BY <2>1, <2>3, <3>3, TargetAssumption
      <4>3. n \in overwritten => n \in overwritten'
        BY <2>1, <3>3
      <4>4. QED
        BY <1>0, <3>1, <4>1, <4>2, <4>3 DEF MissedOnlyAsListed
    <3>4. QED
      BY <3>2, <3>3
  <2>9. MissedOnlyAsListed'
    BY <2>8 DEF MissedOnlyAsListed
  <2>10. QED
    BY <2>6, <2>7, <2>9 DEF DeliveryInv
<1>6. QED
  BY <1>1, <1>2, <1>3, <1>4, <1>5 DEF HandleChat

(* What a listener does to them.                                           *)
LEMMA ListenerStepKeeps ==
    ASSUME DeliveryInv, ChatTypeOK', IInv', NEW s \in Sockets, PubsubChat(s)
    PROVE  DeliveryInv'
<1>0. ChatTypeOK /\ WayInv /\ TokensInv /\ HandlingInv /\ MissedOnlyAsListed
  BY DEF DeliveryInv
<1>1. ASSUME NEW m \in Messages, ListenerTakes(s, m)
      PROVE  DeliveryInv'
  <2>1. /\ hand[s] = None /\ m \in inbox[s]
        /\ \A x \in Sockets : /\ inbox'[x] = IF x = s THEN inbox[s] \ {m} ELSE inbox[x]
                              /\ hand'[x] = IF x = s THEN m ELSE hand[x]
        /\ UNCHANGED <<handlerVars, lstep, live, unheard, misfiled, dispatchVars>>
    BY <1>0, <1>1 DEF ListenerTakes, ChatTypeOK
  <2>2. \A n \in Messages :
           (\E x \in Sockets : n \in inbox'[x] \cup {hand'[x]}) <=> \E x \in Sockets : n \in inbox[x] \cup {hand[x]}
    BY <2>1, TargetAssumption
  <2>3. WayInv'
    BY <1>0, <2>1, <2>2 DEF WayInv, Published, Pooled, handlerVars, dispatchVars
  <2>4. TokensInv'
    BY <1>0, <2>1 DEF TokensInv, handlerVars
  <2>5. HandlingInv'
    BY <1>0, <2>1, TargetAssumption DEF HandlingInv, ChatTypeOK
  <2>6. MissedOnlyAsListed'
    BY <1>0, <2>1, <2>2 DEF MissedOnlyAsListed, handlerVars, dispatchVars
  <2>7. QED
    BY <2>3, <2>4, <2>5, <2>6 DEF DeliveryInv
<1>2. CASE ListenerSends(s)
  <2>1. /\ hand[s] \in Messages /\ lstep[s] = "idle" /\ live' = live \cup {hand[s]}
        /\ lstep' = [lstep EXCEPT ![s] = "sent"]
        /\ UNCHANGED <<handlerVars, inbox, hand, unheard, misfiled, dispatchVars>>
    BY <1>0, <1>2 DEF ListenerSends, ChatTypeOK
  <2>2. \A n \in Messages : Published(n)' => Published(n)
    BY <2>1 DEF Published
  <2>3. WayInv'
    BY <1>0, <2>1, <2>2 DEF WayInv, Pooled, handlerVars, dispatchVars
  <2>4. TokensInv' /\ HandlingInv'
    BY <1>0, <2>1 DEF TokensInv, HandlingInv, ChatTypeOK, handlerVars
  <2>5. MissedOnlyAsListed'
    BY <1>0, <2>1 DEF MissedOnlyAsListed, handlerVars, dispatchVars
  <2>6. QED
    BY <2>3, <2>4, <2>5 DEF DeliveryInv
<1>3. CASE ListenerCaches(s)
  <2>1. /\ lstep[s] = "sent" /\ store' = [store EXCEPT ![hand[s]] = "cached"]
        /\ hand' = [hand EXCEPT ![s] = None] /\ lstep' = [lstep EXCEPT ![s] = "idle"]
        /\ UNCHANGED <<mpc, psnap, pool, overwritten, inbox, live, unheard, misfiled, dispatchVars>>
    BY <1>3 DEF ListenerCaches
  <2>2. hand[s] \in live
    BY <1>0, <2>1 DEF HandlingInv
  <2>3. \A n \in Messages : /\ store'[n] = IF n = hand[s] THEN "cached" ELSE store[n]
                            /\ Published(n)' => Published(n)
    BY <1>0, <2>1, TargetAssumption DEF Published, ChatTypeOK
  <2>4. WayInv'
    BY <1>0, <2>1, <2>3 DEF WayInv, Pooled, dispatchVars
  <2>5. TokensInv'
    BY <1>0, <2>1, <2>3 DEF TokensInv, ChatTypeOK
  <2>6. HandlingInv'
    BY <1>0, <2>1 DEF HandlingInv, ChatTypeOK
  <2>7. MissedOnlyAsListed'
    <3>1. \A n \in Messages \ {hand[s]} : \A x \in Sockets : hand[x] = n => hand'[x] = n
      BY <1>0, <2>1 DEF ChatTypeOK
    <3>2. QED
      BY <1>0, <2>1, <2>2, <2>3, <3>1 DEF MissedOnlyAsListed, dispatchVars
  <2>8. QED
    BY <2>4, <2>5, <2>6, <2>7 DEF DeliveryInv
<1>4. CASE ListenerMisfiles(s)
  <2>1. /\ lstep[s] = "idle" /\ hand[s] \in Messages /\ store' = [store EXCEPT ![hand[s]] = "cached"]
        /\ misfiled' = misfiled \cup {hand[s]} /\ lstep' = [lstep EXCEPT ![s] = "raise"]
        /\ UNCHANGED <<mpc, psnap, pool, overwritten, inbox, hand, live, unheard, dispatchVars>>
    BY <1>0, <1>4 DEF ListenerMisfiles, ChatTypeOK
  <2>2. \A n \in Messages : store'[n] = IF n = hand[s] THEN "cached" ELSE store[n]
    BY <1>0, <2>1 DEF ChatTypeOK
  <2>3. WayInv'
    BY <1>0, <2>1 DEF WayInv, Published, Pooled, dispatchVars
  <2>4. TokensInv'
    BY <1>0, <2>1, <2>2 DEF TokensInv, ChatTypeOK
  <2>5. HandlingInv'
    BY <1>0, <2>1 DEF HandlingInv, ChatTypeOK
  <2>6. MissedOnlyAsListed'
    BY <1>0, <2>1, <2>2 DEF MissedOnlyAsListed, dispatchVars
  <2>7. QED
    BY <2>3, <2>4, <2>5, <2>6 DEF DeliveryInv
<1>5. CASE ListenerRaises(s)
  <2>1. /\ lstep[s] = "raise" /\ hand' = [hand EXCEPT ![s] = None] /\ lstep' = [lstep EXCEPT ![s] = "idle"]
        /\ UNCHANGED <<handlerVars, inbox, live, unheard, misfiled, dispatchVars>>
    BY <1>5 DEF ListenerRaises
  <2>2. hand[s] \in misfiled
    BY <1>0, <2>1 DEF HandlingInv
  <2>3. \A n \in Messages : Published(n)' => Published(n)
    BY <1>0, <2>1, TargetAssumption DEF Published, ChatTypeOK
  <2>4. WayInv'
    BY <1>0, <2>1, <2>3 DEF WayInv, Pooled, handlerVars, dispatchVars
  <2>5. TokensInv' /\ HandlingInv'
    BY <1>0, <2>1 DEF TokensInv, HandlingInv, ChatTypeOK, handlerVars
  <2>6. MissedOnlyAsListed'
    <3>1. \A n \in Messages \ {hand[s]} : \A x \in Sockets : hand[x] = n => hand'[x] = n
      BY <1>0, <2>1 DEF ChatTypeOK
    <3>2. QED
      BY <1>0, <2>1, <2>2, <3>1 DEF MissedOnlyAsListed, handlerVars, dispatchVars
  <2>7. QED
    BY <2>4, <2>5, <2>6 DEF DeliveryInv
<1>6. QED
  BY <1>1, <1>2, <1>3, <1>4, <1>5 DEF PubsubChat

(* And what the next connection does.                                      *)
LEMMA PendingStepKeeps ==
    ASSUME DeliveryInv, ChatTypeOK', IInv', NEW s \in Sockets, PendingChat(s)
    PROVE  DeliveryInv'
<1>0. ChatTypeOK /\ WayInv /\ TokensInv /\ HandlingInv /\ MissedOnlyAsListed /\ owner[s] \in Users
  BY UsersAssumption DEF DeliveryInv
<1>1. CASE DispatchRead(s)
  <2>1. /\ UNCHANGED <<handlerVars, listenerVars, shown>>
        /\ batch' = [batch EXCEPT ![s] = {m \in pool[owner[s]] : store[m] = "cached"}]
    BY <1>1 DEF DispatchRead
  <2>2. \A x \in Sockets : batch'[x] \subseteq batch[x] \cup pool[owner[s]]
    BY <1>0, <2>1 DEF ChatTypeOK
  <2>3. \A n \in Messages : Pooled(n)' => Pooled(n)
    BY <1>0, <2>1, <2>2 DEF Pooled, handlerVars
  <2>4. WayInv'
    BY <1>0, <2>1, <2>3 DEF WayInv, Published, handlerVars, listenerVars
  <2>5. TokensInv' /\ HandlingInv' /\ MissedOnlyAsListed'
    BY <1>0, <2>1 DEF TokensInv, HandlingInv, MissedOnlyAsListed, handlerVars, listenerVars
  <2>6. QED
    BY <2>4, <2>5 DEF DeliveryInv
<1>2. CASE DispatchSend(s)
  <2>1. shown' = shown \cup batch[s] /\ UNCHANGED <<handlerVars, listenerVars, batch>>
    BY <1>2 DEF DispatchSend
  <2>2. \A n \in Messages : Pooled(n)' => Pooled(n)
    BY <2>1 DEF Pooled, handlerVars
  <2>3. WayInv'
    BY <1>0, <2>1, <2>2 DEF WayInv, Published, handlerVars, listenerVars
  <2>4. TokensInv' /\ HandlingInv' /\ MissedOnlyAsListed'
    BY <1>0, <2>1 DEF TokensInv, HandlingInv, MissedOnlyAsListed, handlerVars, listenerVars
  <2>5. QED
    BY <2>3, <2>4 DEF DeliveryInv
<1>3. CASE \E d \in Dialogues : DispatchOffload(s, d)
  <2>1. /\ UNCHANGED <<mpc, psnap, pool, overwritten, listenerVars, batch, shown>>
        /\ \A m \in Messages : store'[m] = store[m] \/ (store[m] = "cached" /\ store'[m] = "db")
    BY <1>3 DEF DispatchOffload
  <2>2. WayInv'
    BY <1>0, <2>1 DEF WayInv, Published, Pooled, listenerVars
  <2>3. TokensInv' /\ HandlingInv'
    BY <1>0, <2>1 DEF TokensInv, HandlingInv, listenerVars, ChatTypeOK
  <2>4. MissedOnlyAsListed'
    BY <1>0, <2>1 DEF MissedOnlyAsListed, listenerVars
  <2>5. QED
    BY <2>2, <2>3, <2>4 DEF DeliveryInv
<1>4. CASE DispatchEnds(s) \/ NotificationRaises(s)
  BY <1>0, <1>4 DEF DispatchEnds, NotificationRaises, chatVars, handlerVars, listenerVars, dispatchVars,
     DeliveryInv, WayInv, Published, Pooled, TokensInv, HandlingInv, MissedOnlyAsListed
<1>5. QED
  BY <1>1, <1>2, <1>3, <1>4 DEF PendingChat

LEMMA DeliveryNext == DeliveryInv /\ [ChatNext]_allVars => DeliveryInv'
<1> SUFFICES ASSUME DeliveryInv, [ChatNext]_allVars PROVE DeliveryInv'
  OBVIOUS
<1>0. ChatTypeOK' /\ IInv'
  BY ChatTypeNext, ChatStepIsSession, IInvStep DEF DeliveryInv, IInv
<1>1. ASSUME UNCHANGED chatVars
      PROVE  DeliveryInv'
  BY <1>0, <1>1 DEF chatVars, handlerVars, listenerVars, dispatchVars,
     DeliveryInv, WayInv, Published, Pooled, TokensInv, HandlingInv, MissedOnlyAsListed
<1>2. CASE ServerDies
  <2>1. /\ UNCHANGED <<psnap, store, pool, overwritten, listenerVars, dispatchVars>>
        /\ \A m \in Messages : mpc'[m] = IF mpc[m] \in {"new", "done"} THEN mpc[m] ELSE "dead"
    BY <1>2 DEF ServerDies
  <2>2. WayInv' /\ TokensInv' /\ HandlingInv'
    BY <2>1 DEF DeliveryInv, WayInv, Published, Pooled, TokensInv, HandlingInv, listenerVars, dispatchVars
  <2>3. MissedOnlyAsListed'
    BY <2>1 DEF DeliveryInv, MissedOnlyAsListed, listenerVars, dispatchVars
  <2>4. QED
    BY <1>0, <2>2, <2>3 DEF DeliveryInv
<1>3. QED
  BY <1>0, <1>1, <1>2, HandleStep, ListenerStepKeeps, PendingStepKeeps DEF ChatNext, SessionStep, allVars

LEMMA DeliveryInvariant == ChatSpec => []DeliveryInv
BY DeliveryInit, DeliveryNext, PTL DEF ChatSpec

(* The types of the delivery of chat objects.                              *)
THEOREM ChatTypeCorrect == ChatSpec => []ChatTypeOK
BY DeliveryInvariant, PTL DEF DeliveryInv

(* A message that handle_chat was done with is sent, in hand, queued or in *)
(* the database, or was lost in one of the listed ways and in no other.    *)
THEOREM AllMissedListed == ChatSpec => []MissedOnlyAsListed
BY DeliveryInvariant, PTL DEF DeliveryInv

(* What a listener sent is never dispatched again by a later connection.   *)
THEOREM SentOneWay == ChatSpec => []OneWay
<1>1. DeliveryInv => OneWay
  BY DEF DeliveryInv, WayInv, Published, Pooled, OneWay, ChatTypeOK
<1>2. QED
  BY <1>1, DeliveryInvariant, PTL

(* The server publishes to nobody only while the addressee is not online,  *)
(* has a session that opens or closes, or had one that ended without       *)
(* disconnect.                                                             *)
THEOREM UnheardInWindow == ChatSpec => UnheardOnlyInWindow
<1> DEFINE Window(m) ==
        \/ target[m] \in abandoned
        \/ target[m] \notin online
        \/ \E s \in Sockets : owner[s] = target[m]
              /\ tpc[Route(s)] \in {"subscribe", "receive", "unsub", "srem"}
              /\ s \notin subscribed
<1>1. ASSUME OnlineHasSession, ChatNext, NEW m \in Messages, m \in unheard' \ unheard
      PROVE  Window(m)
  <2>1. PICK n \in Messages : Publish(n)
    BY <1>1 DEF ChatNext, HandleChat, CheckOnline, StoreUndelivered, PoolRead, PoolWrite, listenerVars,
       PubsubChat, ListenerTakes, ListenerSends, ListenerCaches, ListenerMisfiles, ListenerRaises,
       PendingChat, DispatchRead, DispatchSend, DispatchOffload, DispatchEnds, NotificationRaises,
       SessionStep, ServerDies, chatVars
  <2>2. n = m /\ {s \in subscribed : owner[s] = target[m]} = {}
    BY <1>1, <2>1 DEF Publish
  <2>3. QED
    BY <1>1, <2>2 DEF OnlineHasSession
<1>2. DeliveryInv /\ [ChatNext]_allVars =>
         [\A m \in Messages : m \in unheard' \ unheard => Window(m)]_allVars
  BY <1>1 DEF DeliveryInv, IInv
<1>3. QED
  BY <1>2, DeliveryInvariant, PTL DEF ChatSpec, UnheardOnlyInWindow

------------------------------------------------------------------------------
(* The broadcasts: no delivery to a socket is dropped.                      *)

CastTypeOK ==
    /\ rpc \in [Requests -> {"new", "saved", "answered", "failed"}]
    /\ kind \in [Requests -> {"property", "roommate", None}]
    /\ zset \in [Requests -> Nat] /\ clock \in Nat
    /\ taken \in [Sockets -> SUBSET Requests]
    /\ task \in [Sockets -> Requests \cup {None}]
    /\ recorded \subseteq Sockets

(* What a listener holds was delivered to its socket.                      *)
HeldWasHeard ==
    \A s \in Sockets :
        /\ \A r \in taken[s] : <<s, r>> \in heard
        /\ task[s] # None => <<s, task[s]>> \in heard

(* The request a listener has recorded is one to agents, and is recorded.  *)
RecordedIsScored ==
    \A s \in recorded :
        task[s] # None /\ kind[task[s]] = "property" /\ (zset[task[s]] # 0 \/ task[s] \in swept)

(* Nothing is delivered before it is committed, or sent undelivered.       *)
HeardWasSaved ==
    /\ \A s \in Sockets, r \in Requests : <<s, r>> \in heard => rpc[r] # "new"
    /\ \A s \in Sockets, r \in Requests : <<s, r>> \in sent => <<s, r>> \in heard

CastInv ==
    CastTypeOK /\ HeldWasHeard /\ RecordedIsScored /\ HeardWasSaved /\ RecordedUntilSwept

LEMMA CastInvInit == CastInit => CastInv
BY DEF CastInit, CastInv, CastTypeOK, HeldWasHeard, RecordedIsScored, HeardWasSaved,
       RecordedUntilSwept

(* A step of a session at most takes from a listener what it holds.        *)
LEMMA ForgetStep ==
    ASSUME CastInv, rpc' = rpc \/ rpc' = [r \in Requests |-> IF rpc[r] = "saved" THEN "failed" ELSE rpc[r]],
           UNCHANGED <<kind, recordVars, heard, sent>>,
           \A s \in Sockets :
              /\ taken'[s] \subseteq taken[s]
              /\ task'[s] \in {task[s], None}
              /\ task'[s] # task[s] => s \notin recorded',
           recorded' \subseteq recorded,
           taken' \in [Sockets -> SUBSET Requests], task' \in [Sockets -> Requests \cup {None}]
    PROVE  CastInv'
<1> USE DEF CastInv, recordVars
<1>1. CastTypeOK'
  BY DEF CastTypeOK
<1>2. HeldWasHeard'
  BY DEF HeldWasHeard
<1>3. RecordedIsScored'
  BY DEF RecordedIsScored, CastTypeOK
<1>4. HeardWasSaved'
  BY DEF HeardWasSaved, CastTypeOK
<1>5. RecordedUntilSwept'
  BY DEF RecordedUntilSwept
<1>6. QED
  BY <1>1, <1>2, <1>3, <1>4, <1>5

LEMMA PostStep ==
    ASSUME CastInv, NEW r \in Requests, PostRequest(r)
    PROVE  CastInv'
<1> USE DEF CastInv, CastTypeOK, recordVars, hearVars
<1>1. CASE Save(r)
  <2>1. PICK k \in {"property", "roommate"} : kind' = [kind EXCEPT ![r] = k]
    BY <1>1 DEF Save
  <2>2. /\ UNCHANGED <<zset, clock, swept, taken, task, recorded, heard, sent>>
        /\ rpc[r] = "new" /\ rpc' = [rpc EXCEPT ![r] = "saved"]
    BY <1>1 DEF Save
  <2>3. \A s \in Sockets : <<s, r>> \notin heard /\ <<s, r>> \notin sent
    BY <2>2 DEF HeardWasSaved
  <2>4. CastTypeOK'
    BY <2>1, <2>2
  <2>5. HeldWasHeard' /\ HeardWasSaved'
    BY <2>2 DEF HeldWasHeard, HeardWasSaved
  <2>6. RecordedIsScored'
    BY <2>1, <2>2, <2>3 DEF RecordedIsScored, HeldWasHeard
  <2>7. zset[r] = 0
    BY <2>3 DEF RecordedUntilSwept
  <2>8. RecordedUntilSwept'
    BY <2>1, <2>2, <2>3, <2>7 DEF RecordedUntilSwept
  <2>9. QED
    BY <2>4, <2>5, <2>6, <2>8
<1>2. CASE Post(r)
  <2>1. /\ UNCHANGED <<kind, zset, clock, swept, task, recorded, sent>>
        /\ rpc' = [rpc EXCEPT ![r] = "answered"]
        /\ taken' = [s \in Sockets |-> IF s \in Channel(r) THEN taken[s] \cup {r} ELSE taken[s]]
        /\ heard' = heard \cup (Channel(r) \X {r})
    BY <1>2 DEF Post
  <2>2. CastTypeOK'
    BY <2>1
  <2>3. HeldWasHeard'
    BY <2>1 DEF HeldWasHeard
  <2>4. RecordedIsScored'
    BY <2>1 DEF RecordedIsScored
  <2>5. HeardWasSaved'
    BY <2>1 DEF HeardWasSaved
  <2>6. RecordedUntilSwept'
    BY <2>1 DEF RecordedUntilSwept
  <2>7. QED
    BY <2>2, <2>3, <2>4, <2>5, <2>6
<1>3. CASE PostFails(r)
  BY <1>3 DEF PostFails, HeldWasHeard, RecordedIsScored, HeardWasSaved, RecordedUntilSwept
<1>4. QED
  BY <1>1, <1>2, <1>3 DEF PostRequest

LEMMA ListenStep ==
    ASSUME CastInv, NEW s \in Sockets, PubsubRequest(s)
    PROVE  CastInv'
<1> USE DEF CastInv, CastTypeOK, recordVars, postVars
<1>1. CASE \E r \in Requests : Takes(s, r)
  <2>1. PICK r \in Requests : Takes(s, r)
    BY <1>1
  <2>2. s \notin recorded
    BY <2>1 DEF Takes, RecordedIsScored
  <2>3. CastTypeOK'
    BY <2>1 DEF Takes
  <2>4. HeldWasHeard'
    BY <2>1 DEF Takes, HeldWasHeard
  <2>5. RecordedIsScored'
    BY <2>1, <2>2 DEF Takes, RecordedIsScored
  <2>6. HeardWasSaved' /\ RecordedUntilSwept'
    BY <2>1 DEF Takes, HeardWasSaved, RecordedUntilSwept
  <2>7. QED
    BY <2>3, <2>4, <2>5, <2>6
<1>2. CASE Records(s)
  <2> DEFINE r == task[s]
  <2>1. /\ UNCHANGED <<rpc, kind, taken, task, heard, sent>>
        /\ r \in Requests /\ r # None /\ kind[r] = "property"
        /\ clock' = clock + 1 /\ zset' = [zset EXCEPT ![r] = clock + 1]
        /\ swept' = swept \ {r} /\ recorded' = recorded \cup {s}
    BY <1>2 DEF Records
  <2>2. clock + 1 # 0 /\ clock + 1 \in Nat
    OBVIOUS
  <2>3. CastTypeOK'
    BY <2>1, <2>2
  <2>4. HeldWasHeard' /\ HeardWasSaved'
    BY <2>1 DEF HeldWasHeard, HeardWasSaved
  <2>5. RecordedIsScored'
    BY <2>1, <2>2 DEF RecordedIsScored
  <2>6. <<s, r>> \in heard
    BY <2>1 DEF HeldWasHeard
  <2>7. RecordedUntilSwept'
    BY <2>1, <2>2, <2>6 DEF RecordedUntilSwept
  <2>8. QED
    BY <2>3, <2>4, <2>5, <2>7
<1>3. CASE Sends(s)
  <2> DEFINE r == task[s]
  <2>1. /\ UNCHANGED <<rpc, kind, zset, clock, swept, taken, heard>>
        /\ r \in Requests /\ r # None /\ (kind[r] = "property" => s \in recorded)
        /\ sent' = sent \/ sent' = sent \cup {<<s, r>>}
        /\ task' = [task EXCEPT ![s] = None] /\ recorded' = recorded \ {s}
    BY <1>3 DEF Sends
  <2>2. CastTypeOK'
    BY <2>1
  <2>3. <<s, r>> \in heard
    BY <2>1 DEF HeldWasHeard
  <2>4. HeldWasHeard' /\ HeardWasSaved'
    BY <2>1, <2>3 DEF HeldWasHeard, HeardWasSaved
  <2>5. RecordedIsScored'
    BY <2>1 DEF RecordedIsScored
  <2>6. kind[r] = "property" => zset[r] # 0 \/ r \in swept
    BY <2>1 DEF RecordedIsScored
  <2> HIDE DEF r
  <2>7. ASSUME NEW q \in Requests, NEW t \in Sockets, <<t, q>> \in sent'
        PROVE  <<t, q>> \in sent \/ q = r
    BY <2>1, <2>7
  <2>8. RecordedUntilSwept'
    <3>1. ASSUME NEW q \in Requests, kind[q] = "property", \E t \in Sockets : <<t, q>> \in sent'
          PROVE  zset[q] # 0 \/ q \in swept
      BY <2>6, <2>7, <3>1 DEF RecordedUntilSwept
    <3>2. QED
      BY <2>1, <3>1 DEF RecordedUntilSwept
  <2>9. QED
    BY <2>2, <2>4, <2>5, <2>8
<1>4. CASE SendRaises(s)
  <2>1. s \notin recorded
    BY <1>4 DEF SendRaises, RecordedIsScored
  <2>2. /\ UNCHANGED <<rpc, kind, recordVars, heard, sent, taken, recorded>>
        /\ task' = [task EXCEPT ![s] = None]
    BY <1>4 DEF SendRaises
  <2>3. QED
    BY <2>1, <2>2, ForgetStep
<1>5. QED
  BY <1>1, <1>2, <1>3, <1>4 DEF PubsubRequest

LEMMA SweepStep ==
    ASSUME CastInv, Sweep
    PROVE  CastInv'
<1> USE DEF CastInv, CastTypeOK, hearVars, postVars
<1>1. PICK old \in SUBSET Requests :
          /\ zset' = [r \in Requests |-> IF r \in old THEN 0 ELSE zset[r]]
          /\ swept' = swept \cup old
          /\ UNCHANGED <<rpc, kind, clock, taken, task, recorded, heard, sent>>
  BY DEF Sweep
<1>2. CastTypeOK'
  BY <1>1
<1>3. HeldWasHeard' /\ HeardWasSaved'
  BY <1>1 DEF HeldWasHeard, HeardWasSaved
<1>4. RecordedIsScored'
  BY <1>1 DEF RecordedIsScored
<1>5. RecordedUntilSwept'
  BY <1>1 DEF RecordedUntilSwept
<1>6. QED
  BY <1>2, <1>3, <1>4, <1>5

LEMMA CastInvNext == CastInv /\ [CastNext]_everyVar => CastInv'
<1> SUFFICES ASSUME CastInv, [CastNext]_everyVar
             PROVE  CastInv'
  OBVIOUS
<1>1. ASSUME \E r \in Requests : PostRequest(r)
      PROVE  CastInv'
  BY <1>1, PostStep
<1>2. ASSUME NEW s \in Sockets, PubsubRequest(s)
      PROVE  CastInv'
  BY <1>2, ListenStep
<1>3. ASSUME UNCHANGED <<rpc, kind, recordVars, hearVars>>
      PROVE  CastInv'
  BY <1>3, ForgetStep DEF hearVars, CastInv, CastTypeOK
<1>4. ASSUME NEW s \in Sockets, PendingTransactions(s) \/ ConnectsSince(s)
      PROVE  CastInv'
  BY <1>3, <1>4 DEF PendingTransactions, DispatchNotifications, DispatchChat, ConnectsSince,
                    castVars, postVars
<1>5. ASSUME Forget, UNCHANGED <<kind, recordVars, heard, sent>>,
             rpc' = rpc \/ rpc' = [r \in Requests |-> IF rpc[r] = "saved" THEN "failed" ELSE rpc[r]]
      PROVE  CastInv'
  <2>1. /\ taken' \in [Sockets -> SUBSET Requests] /\ task' \in [Sockets -> Requests \cup {None}]
        /\ recorded' \subseteq recorded
        /\ \A s \in Sockets :
              /\ taken'[s] \subseteq taken[s] /\ task'[s] \in {task[s], None}
              /\ task'[s] # task[s] => s \notin recorded'
    BY <1>5 DEF Forget, CastInv, CastTypeOK
  <2>2. QED
    BY <1>5, <2>1, ForgetStep
<1>6. ASSUME NEW s \in Sockets, CastSession(s)
      PROVE  CastInv'
  BY <1>5, <1>6 DEF CastSession, postVars
<1>7. CASE ServerCrashes
  BY <1>5, <1>7 DEF ServerCrashes
<1>8. CASE Sweep
  BY <1>8, SweepStep
<1>9. CASE UNCHANGED everyVar
  BY <1>3, <1>9 DEF everyVar, castVars, postVars
<1>10. QED
  BY <1>1, <1>2, <1>4, <1>6, <1>7, <1>8, <1>9 DEF CastNext

(* A property request that any agent was sent stays in the sorted set      *)
(* until a sweep removes it, and the set holds nothing that redis did not  *)
(* deliver to some agent, however the listeners of several agents,         *)
(* crashes, disconnections and sweeps interleave.                          *)
THEOREM SentIsRecorded == CastSpec => []RecordedUntilSwept
<1>1. CastInv => RecordedUntilSwept
  BY DEF CastInv
<1>2. QED
  BY CastInvInit, CastInvNext, <1>1, PTL DEF CastSpec

----------------------------------------------------------------------------
(* Every step of the broadcasts is one of the sessions, or leaves them.    *)
LEMMA CastStepIsSession == [CastNext]_everyVar => [Next]_vars
<1> SUFFICES ASSUME [CastNext]_everyVar PROVE [Next]_vars
  OBVIOUS
<1>1. ASSUME NEW r \in Requests, PostRequest(r)
      PROVE  UNCHANGED vars
  BY <1>1 DEF PostRequest, Save, Post, PostFails
<1>2. ASSUME NEW s \in Sockets, PubsubRequest(s)
      PROVE  UNCHANGED vars \/ ListenerFails(s)
  BY <1>2 DEF PubsubRequest, Takes, Records, Sends, SendRaises
<1>3. ASSUME NEW s \in Sockets, PendingTransactions(s)
      PROVE  UNCHANGED vars \/ PendingEnds(s)
  BY <1>3 DEF PendingTransactions, DispatchNotifications, DispatchChat
<1>4. ASSUME NEW s \in Sockets, ConnectsSince(s) \/ CastSession(s)
      PROVE  RouteStep(s) \/ ListenerStep(s) \/ Environment(s)
  BY <1>4 DEF ConnectsSince, CastSession, SocketStep, ListenerStep, Environment
<1>5. Sweep => UNCHANGED vars
  BY DEF Sweep
<1>6. QED
  BY <1>1, <1>2, <1>3, <1>4, <1>5 DEF CastNext, Next, ListenerStep, ServerCrashes, everyVar

(* The broadcasts implement the sessions: what is proved of the websocket  *)
(* sessions holds while requests are published to them, and only the       *)
(* failing of a listener is taken by a message of theirs.                  *)
THEOREM CastsAreSessions == CastSpec => Spec
<1>1. CastInit => Init
  BY DEF CastInit
<1>2. QED
  BY <1>1, CastStepIsSession, PTL DEF CastSpec, Spec

----------------------------------------------------------------------------
(* Nothing is delivered to a socket before its pubsub is subscribed.       *)
Opening == {"off", "sadd", "subscribe"}
HeardAfterSubscribe ==
    \A s \in Sockets :
        s \in subscribed \/ (\E r \in Requests : <<s, r>> \in heard) => tpc[Route(s)] \notin Opening

(* A listener that handles a message runs.                                 *)
HandlersRun == \A s \in Sockets : task[s] # None /\ Sole(s) => tpc[Listener(s)] = "run"

(* What was delivered to a socket that is being served.                    *)
Kept(s, r) == <<s, r>> \in sent \/ r \in taken[s] \/ task[s] = r
Served(s) == tpc[Route(s)] = "receive" /\ sock[s] = "open"
ServedHear == \A s \in Sockets, r \in Requests : <<s, r>> \in heard /\ Sole(s) /\ Served(s) => Kept(s, r)

HeardInv ==
    CastInv /\ ServeInv /\ IInv /\ HeardAfterSubscribe /\ HandlersRun /\ ServedHear

(* A session step that opens no session moves no task back.                *)
Onward(s) ==
    /\ sock'[s] = "open" => sock[s] = "open"
    /\ subscribed' \subseteq subscribed
    /\ \A x \in Tasks : tpc'[x] = tpc[x] \/ tpc'[x] \in {"run", "unsub", "srem", "done"}
Moves(s) ==
    /\ tpc'[Route(s)] \in Opening => tpc[Route(s)] \in Opening
    /\ s \in subscribed' => s \in subscribed \/ tpc'[Route(s)] \notin Opening
    /\ tpc'[Listener(s)] = "created" => tpc[Listener(s)] = "created" \/ tpc[Route(s)] \in Opening
    /\ Served(s)' => Served(s) \/ tpc[Route(s)] \in Opening

LEMMA OnwardSteps ==
    ASSUME TypeOK, [Next]_vars, NEW s \in Sockets,
           ~\E a \in Sockets : Connect(a) \/ AddOnline(a) \/ Subscribe(a)
    PROVE  Onward(s)
<1>0. \A a \in Sockets : Route(a) \in Tasks /\ Listener(a) \in Tasks
  BY TaskFacts
<1>1. ASSUME NEW t \in Tasks, Disconnect(t) \/ Unsubscribe(t)
      PROVE  Onward(s)
  <2>1. CASE CancelListener(t)
    BY <1>1, <2>1 DEF CancelListener, Disconnect, Unsubscribe, Onward
  <2>2. CASE tpc' = [tpc EXCEPT ![t] = "unsub"]
    BY <1>1, <2>2 DEF Disconnect, Unsubscribe, Onward, TypeOK
  <2>3. QED
    BY <1>1, <2>1, <2>2 DEF Disconnect, Unsubscribe
<1>2. ASSUME NEW t \in Tasks, RemoveOnline(t)
      PROVE  Onward(s)
  BY <1>2 DEF RemoveOnline, Onward, TypeOK
<1>3. ASSUME NEW a \in Sockets,
             ListenerStarts(a) \/ PendingEnds(a) \/ ClientCloses(a) \/ BadFrame(a)
      PROVE  Onward(s)
  BY <1>0, <1>3 DEF ListenerStarts, PendingEnds, ClientCloses, BadFrame, Onward, TypeOK,
                    redisVars, taskVars
<1>4. CASE Crash
  BY <1>4 DEF Crash, Onward, TypeOK
<1>5. CASE UNCHANGED vars
  BY <1>5 DEF vars, redisVars, taskVars, Onward
<1>6. QED
  BY <1>0, <1>1, <1>2, <1>3, <1>4, <1>5
     DEF Next, RouteStep, ListenerStep, Environment, RouteEnds, ListenerFails

LEMMA RouteMoves ==
    ASSUME IInv, [Next]_vars, NEW s \in Sockets
    PROVE  Moves(s)
<1>0. TypeOK /\ Route(s) \in Tasks /\ Listener(s) \in Tasks
  BY TaskFacts DEF IInv
<1>1. ASSUME NEW a \in Sockets, Connect(a) \/ AddOnline(a) \/ Subscribe(a)
      PROVE  Moves(s)
  <2>1. CASE s = a
    <3>1. tpc[Route(s)] \in Opening
      BY <1>1, <2>1 DEF IInv, NewIsOff, Connect, AddOnline, Subscribe, Opening
    <3>2. s \in subscribed' => s \in subscribed \/ tpc'[Route(s)] = "receive"
      BY <1>0, <1>1, <2>1, TaskFacts DEF Connect, AddOnline, Subscribe, TypeOK, redisVars
    <3>3. QED
      BY <3>1, <3>2 DEF Moves, Opening
  <2>2. CASE s # a
    <3>1. tpc'[Route(s)] = tpc[Route(s)] /\ tpc'[Listener(s)] = tpc[Listener(s)]
      BY <1>0, <1>1, <2>2 DEF Connect, AddOnline, Subscribe, TypeOK, Route, Listener
    <3>2. sock'[s] = sock[s] /\ (s \in subscribed' => s \in subscribed)
      BY <1>0, <1>1, <2>2 DEF Connect, AddOnline, Subscribe, TypeOK, redisVars
    <3>3. QED
      BY <3>1, <3>2 DEF Moves, Served
  <2>3. QED
    BY <2>1, <2>2
<1>2. CASE ~\E a \in Sockets : Connect(a) \/ AddOnline(a) \/ Subscribe(a)
  <2>1. Onward(s)
    BY <1>0, <1>2, OnwardSteps
  <2>2. QED
    BY <1>0, <2>1 DEF Onward, Moves, Served, Opening
<1>3. QED
  BY <1>1, <1>2

LEMMA HeardInvInit == CastInit => HeardInv
<1>1. CastInit => HeardAfterSubscribe /\ HandlersRun /\ ServedHear
  BY DEF CastInit, Init, HeardAfterSubscribe, HandlersRun, ServedHear
<1>2. CastInit => Init
  BY DEF CastInit
<1>3. QED
  BY <1>1, <1>2, CastInvInit, ServeInvInit, IInvInit DEF HeardInv

LEMMA HeardInvNext ==
    ASSUME ~Overlap, "badframe" \notin Faults, HeardInv, [CastNext]_everyVar
    PROVE  HeardInv'
<1>0. CastInv' /\ ServeInv' /\ IInv' /\ [Next]_vars
  BY CastInvNext, CastStepIsSession, ServeInvStep, IInvStep DEF HeardInv
<1>1. \A s \in Sockets : Moves(s)
  BY <1>0, RouteMoves DEF HeardInv
<1>2. CastTypeOK /\ TypeOK /\ (\A s \in Sockets : Sole(s) => Session(s))
  BY DEF HeardInv, CastInv, IInv, ServeInv, SoleSessions
<1>3. ASSUME NEW r \in Requests, PostRequest(r)
      PROVE  HeardAfterSubscribe' /\ HandlersRun' /\ ServedHear'
  <2>1. CASE Post(r)
    <3>1. /\ UNCHANGED <<subscribed, tpc, sock, task, sent>>
          /\ taken' = [s \in Sockets |-> IF s \in Channel(r) THEN taken[s] \cup {r} ELSE taken[s]]
          /\ heard' = heard \cup (Channel(r) \X {r})
          /\ Channel(r) \subseteq subscribed
      BY <2>1 DEF Post, vars, redisVars, taskVars, Channel
    <3>2. HeardAfterSubscribe' /\ HandlersRun'
      BY <3>1 DEF HeardInv, HeardAfterSubscribe, HandlersRun
    <3>3. ServedHear'
      BY <3>1 DEF HeardInv, ServedHear, Served, Kept
    <3>4. QED
      BY <3>2, <3>3
  <2>2. CASE Save(r) \/ PostFails(r)
    BY <2>2 DEF Save, PostFails, vars, redisVars, taskVars, hearVars, HeardInv, HeardAfterSubscribe,
                HandlersRun, ServedHear, Served, Kept
  <2>3. QED
    BY <1>3, <2>1, <2>2 DEF PostRequest
<1>4. ASSUME UNCHANGED heard
      PROVE  HeardAfterSubscribe'
  BY <1>1, <1>4 DEF HeardInv, HeardAfterSubscribe, Moves
<1>5. ASSUME NEW s \in Sockets, NEW r \in Requests, Takes(s, r)
      PROVE  HandlersRun' /\ ServedHear'
  <2>1. /\ UNCHANGED <<subscribed, tpc, sock, sent, heard>> /\ tpc[Listener(s)] = "run" /\ task[s] = None
        /\ taken' = [taken EXCEPT ![s] = @ \ {r}] /\ task' = [task EXCEPT ![s] = r]
    BY <1>5 DEF Takes, vars, redisVars, taskVars
  <2>2. HandlersRun'
    BY <1>2, <2>1 DEF HeardInv, HandlersRun, CastTypeOK, Sole
  <2>3. ServedHear'
    BY <1>2, <2>1, BroadcastAssumption DEF HeardInv, ServedHear, Served, Kept, CastTypeOK, Sole
  <2>4. QED
    BY <2>2, <2>3
<1>6. ASSUME NEW s \in Sockets, Records(s)
      PROVE  HandlersRun' /\ ServedHear'
  BY <1>6 DEF Records, vars, redisVars, taskVars, HeardInv, HandlersRun, ServedHear, Served, Kept, Sole
<1>7. ASSUME NEW s \in Sockets, Sends(s)
      PROVE  HandlersRun' /\ ServedHear'
  <2>1. /\ UNCHANGED <<subscribed, tpc, sock, lsock, heard, taken>> /\ tpc[Listener(s)] = "run"
        /\ sent' = IF sock[lsock[s]] = "open" THEN sent \cup {<<s, task[s]>>} ELSE sent
        /\ task' = [task EXCEPT ![s] = None]
    BY <1>7 DEF Sends, vars, redisVars, taskVars
  <2>2. HandlersRun'
    BY <1>2, <2>1 DEF HeardInv, HandlersRun, CastTypeOK, Sole
  <2>3. Sole(s) /\ Served(s) => <<s, task[s]>> \in sent'
    BY <1>2, <2>1 DEF Session, Served, Resting
  <2>4. ServedHear'
    BY <1>2, <2>1, <2>3 DEF HeardInv, ServedHear, Served, Kept, CastTypeOK, Sole
  <2>5. QED
    BY <2>2, <2>4
<1>8. ASSUME NEW s \in Sockets, SendRaises(s)
      PROVE  HandlersRun' /\ ServedHear'
  <2>1. /\ UNCHANGED <<taken, recorded, heard, sent>> /\ task' = [task EXCEPT ![s] = None]
        /\ ListenerFails(s) /\ tpc[Listener(s)] = "run" /\ sock[lsock[s]] = "closed" /\ sock' = sock
    BY <1>8 DEF SendRaises, ListenerFails, Disconnect
  <2>2. Sole(s) => ~Served(s)
    BY <1>2, <2>1 DEF Session, Served, Resting
  <2>3. ASSUME NEW x \in Sockets \ {s}, Sole(x), tpc[Listener(x)] = "run"
        PROVE  tpc'[Listener(x)] = "run"
    <3>1. listeners[owner[x]] = x
      BY <1>2, <2>3 DEF Session, Resting
    <3>2. owner[x] # owner[s]
      BY <1>2, <2>1, <2>3, <3>1 DEF Sole, Session, Resting
    <3>3. Spares(s)
      BY <1>2, <2>1, EndingSpares DEF HeardInv, ServeInv, ListenerFails
    <3>4. QED
      BY <2>3, <3>2, <3>3 DEF Spares, Untouched
  <2>4. HandlersRun'
    BY <1>2, <2>1, <2>3 DEF HeardInv, HandlersRun, CastTypeOK, Sole
  <2>5. ServedHear'
    <3>1. ASSUME NEW x \in Sockets, NEW r \in Requests, <<x, r>> \in heard, Sole(x), Served(x)'
          PROVE  Kept(x, r)'
      <4>1. Served(x)
        BY <1>1, <3>1 DEF HeardInv, HeardAfterSubscribe, Moves
      <4>2. x # s /\ Kept(x, r)
        BY <2>2, <3>1, <4>1 DEF HeardInv, ServedHear
      <4>3. QED
        BY <1>2, <2>1, <4>2 DEF Kept, CastTypeOK
    <3>2. QED
      BY <2>1, <3>1 DEF ServedHear, Sole
  <2>6. QED
    BY <2>4, <2>5
<1>9. ASSUME NEW s \in Sockets, PendingTransactions(s) \/ ConnectsSince(s)
      PROVE  HandlersRun' /\ ServedHear' /\ UNCHANGED heard
  <2>1. UNCHANGED <<taken, task, heard, sent>>
    BY <1>9 DEF PendingTransactions, DispatchNotifications, DispatchChat, ConnectsSince, castVars, hearVars
  <2>2. \A x \in Sockets : tpc'[Listener(x)] = tpc[Listener(x)]
    BY <1>2, <1>9, TaskFacts DEF PendingTransactions, DispatchNotifications, DispatchChat, ConnectsSince,
       Connect, PendingEnds, vars, taskVars, TypeOK
  <2>3. HandlersRun'
    BY <2>1, <2>2 DEF HeardInv, HandlersRun, Sole
  <2>4. ServedHear'
    BY <1>1, <2>1 DEF HeardInv, ServedHear, HeardAfterSubscribe, Moves, Kept, Sole
  <2>5. QED
    BY <2>1, <2>3, <2>4
<1>10. ASSUME Forget, UNCHANGED <<heard, sent>>
       PROVE  HandlersRun' /\ ServedHear'
  <2>1. HandlersRun'
    BY <1>10 DEF Forget, HandlersRun
  <2>2. ASSUME NEW s \in Sockets, NEW r \in Requests, <<s, r>> \in heard, Sole(s), Served(s)'
        PROVE  Kept(s, r)'
    <3>1. tpc[Route(s)] \notin Opening /\ Served(s)
      BY <1>1, <2>2 DEF HeardInv, HeardAfterSubscribe, Moves
    <3>2. s \in subscribed' /\ tpc'[Listener(s)] \in {"created", "run"}
      BY <1>0, <2>2 DEF ServeInv, SoleSessions, Session, Sole, Served
    <3>3. task[s] # None => tpc'[Listener(s)] = "run"
      BY <1>1, <2>2, <3>1, <3>2 DEF HeardInv, HandlersRun, Moves
    <3>4. taken'[s] = taken[s] /\ (task[s] # None => task'[s] = task[s])
      BY <1>10, <3>2, <3>3 DEF Forget
    <3>5. task[s] # None \/ task'[s] = None
      BY <1>10 DEF Forget
    <3>6. QED
      BY <1>10, <2>2, <3>1, <3>4, <3>5 DEF HeardInv, ServedHear, Kept
  <2>3. QED
    BY <1>10, <2>1, <2>2 DEF ServedHear, Sole
<1>11. ASSUME NEW s \in Sockets, CastSession(s)
       PROVE  HandlersRun' /\ ServedHear' /\ UNCHANGED heard
  BY <1>10, <1>11 DEF CastSession
<1>12. ASSUME ServerCrashes
       PROVE  HeardAfterSubscribe' /\ HandlersRun' /\ ServedHear'
  BY <1>4, <1>10, <1>12 DEF ServerCrashes
<1>13. ASSUME Sweep \/ UNCHANGED everyVar
       PROVE  HeardAfterSubscribe' /\ HandlersRun' /\ ServedHear'
  BY <1>13 DEF Sweep, everyVar, castVars, vars, redisVars, taskVars, hearVars, HeardInv, HeardAfterSubscribe,
     HandlersRun, ServedHear, Served, Kept, Sole
<1>14. ASSUME NEW s \in Sockets, PubsubRequest(s)
       PROVE  HandlersRun' /\ ServedHear' /\ UNCHANGED heard
  BY <1>5, <1>6, <1>7, <1>8, <1>14 DEF PubsubRequest, Takes, Records, Sends, SendRaises
<1>15. HeardAfterSubscribe' /\ HandlersRun' /\ ServedHear'
  BY <1>3, <1>4, <1>9, <1>11, <1>12, <1>13, <1>14 DEF CastNext
<1>16. QED
  BY <1>0, <1>15 DEF HeardInv

(* What redis delivered to a socket that does not share its user with an   *)
(* open one was sent to it or is still held for it, as long as the socket  *)
(* is open and its listener runs: however publishing, listening, closing,  *)
(* reconnecting and crashes interleave.                                    *)
THEOREM HeardKept == "badframe" \notin Faults /\ CastSpec => []HeardIsKept
<1>1. ASSUME ~Overlap, "badframe" \notin Faults
      PROVE  CastSpec => []HeardIsKept
  <2>1. HeardInv => HeardIsKept
    <3> SUFFICES ASSUME HeardInv, NEW s \in Sockets, NEW r \in Requests, <<s, r>> \in heard, Alone(s),
                        sock[s] # "closed"
                 PROVE  Kept(s, r)
      BY DEF HeardIsKept, Kept
    <3>1. Sole(s) /\ Session(s)
      BY DEF Alone, Sole, HeardInv, ServeInv, SoleSessions
    <3>2. tpc[Route(s)] \notin Opening
      BY DEF HeardInv, HeardAfterSubscribe
    <3>3. Served(s)
      BY <3>1, <3>2, TaskFacts DEF HeardInv, IInv, TypeOK, Control, Session, Opening, Served
    <3>4. QED
      BY <3>1, <3>3 DEF HeardInv, ServedHear
  <2>2. HeardInv /\ [CastNext]_everyVar => HeardInv'
    BY <1>1, HeardInvNext
  <2>3. QED
    BY <2>1, <2>2, HeardInvInit, PTL DEF CastSpec
<1>2. ASSUME Overlap
      PROVE  CastSpec => []HeardIsKept
  <2>1. HeardIsKept
    BY <1>2 DEF HeardIsKept, Alone
  <2>2. QED
    BY <2>1, PTL
<1>3. QED
  BY <1>1, <1>2
==============================================================================
