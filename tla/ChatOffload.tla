---------------------------- MODULE ChatOffload ----------------------------
(***************************************************************************)
(* The chat write-behind cache of ONE dialogue: the redis hash             *)
(* chat_{min}_{max}, whose "messages" field is one JSON object keyed by    *)
(* server timestamp, written by cache_dialogue (chat/utils/store.py) and   *)
(* moved to the postgres tables threads and messages by offload_dialogue   *)
(* (chat/utils/offload_chat_data.py).  Keys, locks and threads of two      *)
(* dialogues are disjoint, so one dialogue is the whole protocol.          *)
(*                                                                         *)
(* Every await of the two functions is a point where other tasks run, so   *)
(* each redis or database call is an action of its own.                    *)
(***************************************************************************)
EXTENDS Naturals

CONSTANTS
    Messages,     \* server timestamps: the keys of the "messages" object
    Writers,      \* tasks inside cache_dialogue (listeners, receive loops)
    Offloaders,   \* tasks inside offload_dialogue (pending dispatches)
    LastStatus,   \* a chat object is cached once per status: sent = 1,
                  \* delivered = 2, read = 3, up to this one
    Failures      \* the failures the environment produces

ASSUME FailuresAssumption == Failures \subseteq {"dberror", "cancel", "crash"}
ASSUME LastStatusAssumption == LastStatus \in Nat

VARIABLES
    cache,     \* the "messages" field: per timestamp the chat object, or none
    lazy,      \* whether the hash has a lazy_timestamp field
    lock,      \* whether the key offloading:{dialogue_key} exists
    threads,   \* Thread rows that have both participants
    rows,      \* Message rows per server timestamp
    rowStatus, \* the status last written to a row of the timestamp
    wpc, wsnap, witem,    \* cache_dialogue: control, object read, own item
    opc, osnap,           \* offload_dialogue: control, cached_messages
    sent,      \* history: last status handed to cache_dialogue
    newest,    \* history: highest status cache_dialogue has written
    spoiled,   \* history: interferences and failures that hit a message
    leaked     \* history: a task left without giving the lock back

redisVars == <<cache, lazy, lock>>
dbVars == <<threads, rows, rowStatus>>
writerVars == <<wpc, wsnap, witem>>
offloadVars == <<opc, osnap>>
histVars == <<sent, newest, spoiled, leaked>>
vars == <<redisVars, dbVars, writerVars, offloadVars, histVars>>

(* A chat object is its status and whether it carries its database id,     *)
(* which is what offload_dialogue looks at; status 0 stands for no object. *)
Status == 0..LastStatus
Entry == [status : Status, id : BOOLEAN]
Absent == [status |-> 0, id |-> FALSE]
Empty == [m \in Messages |-> Absent]
Item == [ts : Messages, entry : Entry]
NoItem == <<>>

Fresh(e) == e.status > 0 /\ ~e.id

(* Control points of offload_dialogue; from removed to thread the snapshot *)
(* is the only copy of the messages it holds.                              *)
Holding == {"removed", "nothread", "thread"}
Critical == {"locked", "read", "committed", "cleanup", "release"} \cup Holding

Causes ==
    {"overwrite", "reordered", "unread", "bareReceipt", "cleanup", "dropped"}

TypeOK ==
    /\ cache \in [Messages -> Entry]
    /\ lazy \in BOOLEAN
    /\ lock \in BOOLEAN
    /\ threads \in Nat
    /\ rows \in [Messages -> Nat]
    /\ rowStatus \in [Messages -> Status]
    /\ wpc \in [Writers -> {"idle", "read", "lazy"}]
    /\ wsnap \in [Writers -> [Messages -> Entry]]
    /\ witem \in [Writers -> Item \cup {NoItem}]
    /\ \A w \in Writers : wpc[w] = "read" => witem[w] # NoItem
    /\ opc \in [Offloaders -> Critical \cup {"idle"}]
    /\ osnap \in [Offloaders -> [Messages -> Entry]]
    /\ sent \in [Messages -> Status]
    /\ newest \in [Messages -> Status]
    /\ spoiled \subseteq Causes
    /\ leaked \in BOOLEAN

Init ==
    /\ cache = Empty /\ lazy = FALSE /\ lock = FALSE
    /\ threads = 0
    /\ rows = [m \in Messages |-> 0] /\ rowStatus = [m \in Messages |-> 0]
    /\ wpc = [w \in Writers |-> "idle"]
    /\ wsnap = [w \in Writers |-> Empty]
    /\ witem = [w \in Writers |-> NoItem]
    /\ opc = [o \in Offloaders |-> "idle"]
    /\ osnap = [o \in Offloaders |-> Empty]
    /\ sent = [m \in Messages |-> 0] /\ newest = [m \in Messages |-> 0]
    /\ spoiled = {} /\ leaked = FALSE

Spoil(cause, hit) == spoiled' = IF hit THEN spoiled \cup {cause} ELSE spoiled

(* Timestamp m has left the cache as a new message: it has a row, or an    *)
(* offload is about to insert one.                                         *)
Taken(m) ==
    \/ rows[m] > 0
    \/ \E o \in Offloaders : opc[o] \in Holding /\ Fresh(osnap[o][m])

----------------------------------------------------------------------------
(* cache_dialogue: hget, modify, hset, and a lazy_timestamp on a new hash. *)

(* The hget.  The client sends the statuses of a message in order, each    *)
(* once, but different tasks cache them; a receipt carries the id only if  *)
(* its client loaded the message from the database.                        *)
CacheRead(w, m, id) ==
    /\ wpc[w] = "idle"
    /\ sent[m] < LastStatus
    /\ id => rows[m] > 0
    /\ sent' = [sent EXCEPT ![m] = @ + 1]
    /\ wsnap' = [wsnap EXCEPT ![w] = cache]
    /\ witem' = [witem EXCEPT ![w] =
                    [ts |-> m, entry |-> [status |-> sent[m] + 1, id |-> id]]]
    /\ wpc' = [wpc EXCEPT ![w] = "read"]
    /\ UNCHANGED <<redisVars, dbVars, offloadVars, newest, spoiled, leaked>>

(* The hset of the whole object as it was read, with the own item put in.  *)
CacheWrite(w) ==
    LET m == witem[w].ts
        e == witem[w].entry
        hits == {c \in Causes :
                    \/ c = "overwrite" /\ cache # wsnap[w]
                    \/ c = "reordered" /\ e.status < newest[m]
                    \/ c = "bareReceipt" /\ Fresh(e) /\ Taken(m)}
    IN  /\ wpc[w] = "read"
        /\ cache' = [wsnap[w] EXCEPT ![m] = e]
        /\ wpc' = [wpc EXCEPT ![w] = IF wsnap[w] = Empty THEN "lazy" ELSE "idle"]
        /\ wsnap' = [wsnap EXCEPT ![w] = Empty]
        /\ witem' = [witem EXCEPT ![w] = NoItem]
        /\ newest' = [newest EXCEPT ![m] = IF e.status > @ THEN e.status ELSE @]
        /\ spoiled' = spoiled \cup hits
        /\ UNCHANGED <<lazy, lock, dbVars, offloadVars, sent, leaked>>

CacheSetLazy(w) ==
    /\ wpc[w] = "lazy"
    /\ lazy' = TRUE
    /\ wpc' = [wpc EXCEPT ![w] = "idle"]
    /\ UNCHANGED <<cache, lock, dbVars, wsnap, witem, offloadVars, histVars>>

----------------------------------------------------------------------------
(* dispatch_pending_chat, its lazy-offload part.  The comparison of the    *)
(* current milliseconds with a lazy_timestamp in seconds always succeeds.  *)

DispatchSetLazy ==
    /\ ~lazy
    /\ lazy' = TRUE
    /\ UNCHANGED <<cache, lock, dbVars, writerVars, offloadVars, histVars>>

(* The expiry given to the lock is a unix timestamp, not a duration: the   *)
(* key outlives every session that could wait for it.                      *)
OffloadAcquire(o) ==
    /\ opc[o] = "idle" /\ lazy /\ ~lock
    /\ lock' = TRUE
    /\ opc' = [opc EXCEPT ![o] = "locked"]
    /\ UNCHANGED <<cache, lazy, dbVars, writerVars, osnap, histVars>>

OffloadRead(o) ==
    /\ opc[o] = "locked"
    /\ osnap' = [osnap EXCEPT ![o] = cache]
    /\ opc' = [opc EXCEPT ![o] = IF cache = Empty THEN "release" ELSE "read"]
    /\ UNCHANGED <<redisVars, dbVars, writerVars, histVars>>

OffloadRemove(o) ==
    /\ opc[o] = "read"
    /\ cache' = Empty
    /\ opc' = [opc EXCEPT ![o] = "removed"]
    /\ Spoil("unread", cache # osnap[o])
    /\ UNCHANGED <<lazy, lock, dbVars, writerVars, osnap, sent, newest, leaked>>

(* Mutant: the SELECT misses the thread, its participants being read in    *)
(* one order only.                                                         *)
FindThreadMissed(o) ==
    /\ opc[o] = "removed"
    /\ opc' = [opc EXCEPT ![o] = "nothread"]
    /\ UNCHANGED <<redisVars, dbVars, writerVars, osnap, histVars>>

FindThread(o) ==
    /\ opc[o] = "removed"
    /\ opc' = [opc EXCEPT ![o] = IF threads = 0 THEN "nothread" ELSE "thread"]
    /\ UNCHANGED <<redisVars, dbVars, writerVars, osnap, histVars>>

CreateThread(o) ==
    /\ opc[o] = "nothread"
    /\ threads' = threads + 1
    /\ opc' = [opc EXCEPT ![o] = "thread"]
    /\ UNCHANGED <<redisVars, rows, rowStatus, writerVars, osnap, histVars>>

(* Mutant: an item that carries an id is inserted as well.                 *)
CommitRowsInsertAll(o) ==
    /\ opc[o] = "thread"
    /\ rows' = [m \in Messages |->
                   rows[m] + IF osnap[o][m].status > 0 THEN 1 ELSE 0]
    /\ rowStatus' = [m \in Messages |->
                        IF osnap[o][m].status > 0
                            THEN osnap[o][m].status ELSE rowStatus[m]]
    /\ opc' = [opc EXCEPT ![o] = "committed"]
    /\ osnap' = [osnap EXCEPT ![o] = Empty]
    /\ UNCHANGED <<redisVars, threads, writerVars, histVars>>

(* One transaction: a row per fresh item, an UPDATE by id per known item.  *)
CommitRows(o) ==
    /\ opc[o] = "thread"
    /\ rows' = [m \in Messages |->
                   rows[m] + IF Fresh(osnap[o][m]) THEN 1 ELSE 0]
    /\ rowStatus' = [m \in Messages |->
                        IF osnap[o][m].status > 0
                            THEN osnap[o][m].status ELSE rowStatus[m]]
    /\ opc' = [opc EXCEPT ![o] = "committed"]
    /\ osnap' = [osnap EXCEPT ![o] = Empty]
    /\ UNCHANGED <<redisVars, threads, writerVars, histVars>>

Recheck(o) ==
    /\ opc[o] = "committed"
    /\ opc' = [opc EXCEPT ![o] = IF cache = Empty THEN "cleanup" ELSE "release"]
    /\ UNCHANGED <<redisVars, dbVars, writerVars, osnap, histVars>>

(* The delete of the whole hash, lazy_timestamp included.                  *)
Cleanup(o) ==
    /\ opc[o] = "cleanup"
    /\ cache' = Empty
    /\ lazy' = FALSE
    /\ opc' = [opc EXCEPT ![o] = "release"]
    /\ Spoil("cleanup", cache # Empty)
    /\ UNCHANGED <<lock, dbVars, writerVars, osnap, sent, newest, leaked>>

(* The finally clause deletes the lock key whoever set it.                 *)
Release(o) ==
    /\ opc[o] = "release"
    /\ lock' = FALSE
    /\ opc' = [opc EXCEPT ![o] = "idle"]
    /\ osnap' = [osnap EXCEPT ![o] = Empty]
    /\ UNCHANGED <<cache, lazy, dbVars, writerVars, histVars>>

----------------------------------------------------------------------------
(* Failures.                                                               *)

(* Mutant: without the finally clause an error leaves the lock.            *)
DbErrorKeepsLock(o) ==
    /\ "dberror" \in Failures
    /\ opc[o] \in Holding
    /\ opc' = [opc EXCEPT ![o] = "idle"]
    /\ osnap' = [osnap EXCEPT ![o] = Empty]
    /\ Spoil("dropped", TRUE)
    /\ UNCHANGED <<redisVars, dbVars, writerVars, sent, newest, leaked>>

(* A database call raises: the except clause passes a dict to hset, which  *)
(* the client rejects before sending, so nothing is put back.              *)
DbError(o) ==
    /\ "dberror" \in Failures
    /\ opc[o] \in Holding
    /\ opc' = [opc EXCEPT ![o] = "release"]
    /\ osnap' = [osnap EXCEPT ![o] = Empty]
    /\ Spoil("dropped", TRUE)
    /\ UNCHANGED <<redisVars, dbVars, writerVars, sent, newest, leaked>>

(* disconnect cancels the pending task: CancelledError passes the except   *)
(* clause and runs only the finally clause.                                *)
Cancel(o) ==
    /\ "cancel" \in Failures
    /\ opc[o] \in Critical \ {"release"}
    /\ opc' = [opc EXCEPT ![o] = "release"]
    /\ osnap' = [osnap EXCEPT ![o] = Empty]
    /\ Spoil("dropped", opc[o] \in Holding)
    /\ UNCHANGED <<redisVars, dbVars, writerVars, sent, newest, leaked>>

(* The cancellation arrives while the SET NX or the final DEL is awaited:  *)
(* outside the try, or already in its finally, so the lock stays.          *)
CancelAtLock(o) ==
    /\ "cancel" \in Failures
    /\ \/ opc[o] = "idle" /\ lazy /\ ~lock
       \/ opc[o] = "release"
    /\ lock' = TRUE
    /\ leaked' = TRUE
    /\ opc' = [opc EXCEPT ![o] = "idle"]
    /\ osnap' = [osnap EXCEPT ![o] = Empty]
    /\ UNCHANGED <<cache, lazy, dbVars, writerVars, sent, newest, spoiled>>

(* disconnect cancels the listener inside cache_dialogue.                  *)
CancelWriter(w) ==
    /\ "cancel" \in Failures
    /\ wpc[w] # "idle"
    /\ wpc' = [wpc EXCEPT ![w] = "idle"]
    /\ wsnap' = [wsnap EXCEPT ![w] = Empty]
    /\ witem' = [witem EXCEPT ![w] = NoItem]
    /\ UNCHANGED <<redisVars, dbVars, offloadVars, histVars>>

(* The server process dies: every task is gone, redis and postgres stay.   *)
Crash ==
    /\ "crash" \in Failures
    /\ \/ \E w \in Writers : wpc[w] # "idle"
       \/ \E o \in Offloaders : opc[o] # "idle"
    /\ wpc' = [w \in Writers |-> "idle"]
    /\ wsnap' = [w \in Writers |-> Empty]
    /\ witem' = [w \in Writers |-> NoItem]
    /\ opc' = [o \in Offloaders |-> "idle"]
    /\ osnap' = [o \in Offloaders |-> Empty]
    /\ Spoil("dropped", \E o \in Offloaders : opc[o] \in Holding)
    /\ leaked' = (leaked \/ \E o \in Offloaders : opc[o] \in Critical)
    /\ UNCHANGED <<redisVars, dbVars, sent, newest>>

----------------------------------------------------------------------------
CacheDialogue(w) ==
    \/ \E m \in Messages, id \in BOOLEAN : CacheRead(w, m, id)
    \/ CacheWrite(w)
    \/ CacheSetLazy(w)
    \/ CancelWriter(w)

(* The steps offload_dialogue takes once it holds the lock.                *)
OffloadStep(o) ==
    \/ OffloadRead(o)
    \/ OffloadRemove(o)
    \/ FindThread(o)
    \/ CreateThread(o)
    \/ CommitRows(o)
    \/ Recheck(o)
    \/ Cleanup(o)
    \/ Release(o)

Failure(o) == DbError(o) \/ Cancel(o) \/ CancelAtLock(o)

Next ==
    \/ \E w \in Writers : CacheDialogue(w)
    \/ DispatchSetLazy
    \/ \E o \in Offloaders : OffloadAcquire(o) \/ OffloadStep(o) \/ Failure(o)
    \/ Crash

Spec == Init /\ [][Next]_vars

----------------------------------------------------------------------------
(* Properties.                                                             *)

(* At most one task of the dialogue is between acquire_redis_lock and      *)
(* release_redis_lock, whatever fails: a task that was refused the lock    *)
(* returns before the try whose finally clause deletes it.                 *)
OneOffloader ==
    \A o1, o2 \in Offloaders :
        opc[o1] \in Critical /\ opc[o2] \in Critical => o1 = o2

(* Two participants share one Thread row, although get_or_create_thread_id *)
(* reads and inserts in two steps and the table has no such constraint.    *)
OneThread == threads <= 1

(* The newest status that cache_dialogue wrote for a message is in the     *)
(* cache, in the hands of the offload that removed it, or in the database. *)
Conserved ==
    \A m \in Messages :
        \/ newest[m] = cache[m].status
        \/ newest[m] = rowStatus[m]
        \/ \E o \in Offloaders :
               opc[o] \in Holding /\ newest[m] = osnap[o][m].status

OneRowEach == \A m \in Messages : rows[m] <= 1

(* The write-behind cache loses no status of a message and inserts no      *)
(* message twice unless one of the named interferences or failures hit it: *)
(* a hset over a changed object, statuses cached out of order, a hdel of   *)
(* items not read, a receipt without id after the offload, a cleanup of a  *)
(* refilled hash, or an offload that died with messages in its hands.      *)
StoredOnceUnlessSpoiled == spoiled = {} => Conserved /\ OneRowEach

(* The lock of the dialogue is held by a task that will give it back,      *)
(* unless a cancellation struck at the SET or the DEL itself or the server *)
(* died: the finally clause covers every other way out of the function.    *)
LockHeldOrLeaked ==
    lock => leaked \/ \E o \in Offloaders : opc[o] \in Critical

----------------------------------------------------------------------------
(* What a comment of the code promises, checked alone.                     *)

(* offload_chat_data.py:150 "Restore chat object into Redis for retry":    *)
(* a failed offload alone loses nothing.                                   *)
RestoredForRetry == spoiled \subseteq {"dropped"} => Conserved

============================================================================
