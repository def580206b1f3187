------------------------- MODULE ChatOffload_proofs -------------------------
(***************************************************************************)
(* Proofs about ChatOffload for every set of messages, writers and         *)
(* offloading tasks, every number of statuses and every set of failures.   *)
(***************************************************************************)
EXTENDS ChatOffload, TLAPS

(* The lock key exists while a task is between acquire and release, and    *)
(* one task at most is: what makes every snapshot the property of one.     *)
LockInv ==
    /\ \A o \in Offloaders : opc[o] \in Critical => lock
    /\ OneOffloader
    /\ LockHeldOrLeaked

(* The task that found no thread is the one that may create it.            *)
ThreadInv ==
    /\ threads \in {0, 1}
    /\ \A o \in Offloaders : opc[o] = "nothread" => threads = 0

(* Where the statuses are while nothing was spoiled: the cache never holds *)
(* an old status, a new message is in one place before it has its row, and *)
(* a snapshot is outdated only by a newer object in the cache.             *)
CleanInv ==
    spoiled = {} =>
        /\ Conserved
        /\ OneRowEach
        /\ \A m \in Messages :
              /\ cache[m].status \in {0, newest[m]}
              /\ Taken(m) => ~Fresh(cache[m])
              /\ \A o \in Offloaders : opc[o] \in Holding =>
                    /\ Fresh(osnap[o][m]) => rows[m] = 0
                    /\ osnap[o][m].status > 0 =>
                          newest[m] \in {osnap[o][m].status, cache[m].status}

IInv == TypeOK /\ LockInv /\ ThreadInv /\ CleanInv

----------------------------------------------------------------------------
(* The empty object is an object without entries.                          *)
LEMMA EmptyType ==
    /\ 0 \in Status
    /\ Absent \in Entry /\ Absent.status = 0 /\ ~Absent.id
    /\ Empty \in [Messages -> Entry]
    /\ \A m \in Messages : Empty[m] = Absent
<1>1. 0 \in Status
  BY LastStatusAssumption DEF Status, LastStatusAssumption
<1>2. QED
  BY <1>1 DEF Empty, Absent, Entry

(* Every state has the declared type.                                      *)
LEMMA TypeInit == Init => TypeOK
<1> SUFFICES ASSUME Init PROVE TypeOK
  OBVIOUS
<1> USE EmptyType DEF Init
<1>1. lazy \in BOOLEAN /\ lock \in BOOLEAN
  OBVIOUS
<1>2. /\ cache \in [Messages -> Entry]
      /\ threads \in Nat /\ rows \in [Messages -> Nat]
      /\ rowStatus \in [Messages -> Status]
      /\ sent \in [Messages -> Status] /\ newest \in [Messages -> Status]
      /\ spoiled \subseteq Causes /\ leaked \in BOOLEAN
  OBVIOUS
<1>3. /\ wpc \in [Writers -> {"idle", "read", "lazy"}]
      /\ wsnap \in [Writers -> [Messages -> Entry]]
      /\ witem \in [Writers -> Item \cup {NoItem}]
      /\ \A w \in Writers : wpc[w] = "read" => witem[w] # NoItem
  OBVIOUS
<1>4. /\ opc \in [Offloaders -> Critical \cup {"idle"}]
      /\ osnap \in [Offloaders -> [Messages -> Entry]]
  OBVIOUS
<1>5. QED
  BY <1>1, <1>2, <1>3, <1>4 DEF TypeOK

LEMMA TypeStep == TypeOK /\ [Next]_vars => TypeOK'
<1> SUFFICES ASSUME TypeOK, [Next]_vars PROVE TypeOK'
    OBVIOUS
<1> USE EmptyType DEF TypeOK, redisVars, dbVars, writerVars, offloadVars, histVars
<1>1. ASSUME NEW w \in Writers, NEW m \in Messages, NEW id \in BOOLEAN,
             CacheRead(w, m, id)
      PROVE  TypeOK'
  <2>1. sent[m] + 1 \in Status
    BY <1>1, LastStatusAssumption DEF CacheRead, Status, LastStatusAssumption
  <2>2. [ts |-> m, entry |-> [status |-> sent[m] + 1, id |-> id]] \in Item
    BY <2>1 DEF Item, Entry
  <2> DEFINE it == [ts |-> m, entry |-> [status |-> sent[m] + 1, id |-> id]]
  <2>3. it # NoItem
    BY DEF NoItem
  <2>4. witem' = [witem EXCEPT ![w] = it] /\ sent' = [sent EXCEPT ![m] = sent[m] + 1]
    BY <1>1 DEF CacheRead
  <2> HIDE DEF it
  <2>5. witem' \in [Writers -> Item \cup {NoItem}] /\ witem'[w] # NoItem
    BY <2>2, <2>3, <2>4 DEF it
  <2>6. QED
    BY <1>1, <2>1, <2>3, <2>4, <2>5 DEF CacheRead
<1>2. ASSUME NEW w \in Writers, CacheWrite(w) PROVE TypeOK'
  <2>1. witem[w] \in Item
    BY <1>2 DEF CacheWrite
  <2>2. witem[w].ts \in Messages /\ witem[w].entry \in Entry
    BY <2>1 DEF Item
  <2>3. witem[w].entry.status \in Status
    BY <2>2 DEF Entry
  <2>4. QED
    BY <1>2, <2>2, <2>3 DEF CacheWrite
<1>3. ASSUME NEW w \in Writers, CacheSetLazy(w) PROVE TypeOK'
    BY <1>3 DEF CacheSetLazy
<1>4. ASSUME NEW w \in Writers, CancelWriter(w) PROVE TypeOK'
    BY <1>4 DEF CancelWriter
<1>5. CASE DispatchSetLazy
    BY <1>5 DEF DispatchSetLazy
<1>6. ASSUME NEW o \in Offloaders, OffloadAcquire(o) PROVE TypeOK'
    BY <1>6 DEF OffloadAcquire, Spoil, Causes, Critical, Holding
<1>7. ASSUME NEW o \in Offloaders, OffloadRead(o) PROVE TypeOK'
    BY <1>7 DEF OffloadRead, Spoil, Causes, Critical, Holding
<1>8. ASSUME NEW o \in Offloaders, OffloadRemove(o) PROVE TypeOK'
    BY <1>8 DEF OffloadRemove, Spoil, Causes, Critical, Holding
<1>9. ASSUME NEW o \in Offloaders, FindThread(o) PROVE TypeOK'
    BY <1>9 DEF FindThread, Spoil, Causes, Critical, Holding
<1>10. ASSUME NEW o \in Offloaders, CreateThread(o) PROVE TypeOK'
    BY <1>10 DEF CreateThread, Spoil, Causes, Critical, Holding
<1>11. ASSUME NEW o \in Offloaders, CommitRows(o) PROVE TypeOK'
  <2>1. \A m \in Messages : osnap[o][m].status \in Status
    BY DEF Entry
  <2>2. rows' \in [Messages -> Nat]
    BY <1>11 DEF CommitRows
  <2>3. rowStatus' \in [Messages -> Status]
    BY <1>11, <2>1 DEF CommitRows
  <2>4. opc' \in [Offloaders -> Critical \cup {"idle"}]
    BY <1>11 DEF CommitRows, Critical
  <2>5. QED
    BY <1>11, <2>2, <2>3, <2>4 DEF CommitRows
<1>12. ASSUME NEW o \in Offloaders, Recheck(o) PROVE TypeOK'
    BY <1>12 DEF Recheck, Spoil, Causes, Critical, Holding
<1>13. ASSUME NEW o \in Offloaders, Cleanup(o) PROVE TypeOK'
    BY <1>13 DEF Cleanup, Spoil, Causes, Critical, Holding
<1>14. ASSUME NEW o \in Offloaders, Release(o) PROVE TypeOK'
    BY <1>14 DEF Release, Spoil, Causes, Critical, Holding
<1>15. ASSUME NEW o \in Offloaders, DbError(o) PROVE TypeOK'
    BY <1>15 DEF DbError, Spoil, Causes, Critical, Holding
<1>16. ASSUME NEW o \in Offloaders, Cancel(o) PROVE TypeOK'
    BY <1>16 DEF Cancel, Spoil, Causes, Critical, Holding
<1>17. ASSUME NEW o \in Offloaders, CancelAtLock(o) PROVE TypeOK'
    BY <1>17 DEF CancelAtLock, Spoil, Causes, Critical, Holding
<1>18. CASE Crash
    BY <1>18 DEF Crash, Spoil, Causes, Critical
<1>19. CASE UNCHANGED vars
    BY <1>19 DEF vars
<1>20. QED
    BY <1>1, <1>2, <1>3, <1>4, <1>5, <1>6, <1>7, <1>8, <1>9, <1>10, <1>11, <1>12, <1>13, <1>14, <1>15, <1>16, <1>17, <1>18, <1>19 DEF Next, CacheDialogue, OffloadStep, Failure

----------------------------------------------------------------------------
(* Mutual exclusion of the offloads of a dialogue and, from it, that no    *)
(* two of them create the thread.                                          *)
LEMMA LockStep == TypeOK /\ LockInv /\ [Next]_vars => LockInv'
<1> SUFFICES ASSUME TypeOK, LockInv, [Next]_vars PROVE LockInv'
  OBVIOUS
<1> USE DEF LockInv, OneOffloader, LockHeldOrLeaked, TypeOK, redisVars, histVars, Critical, Holding
<1>1. ASSUME NEW w \in Writers, CacheDialogue(w) PROVE LockInv'
  BY <1>1 DEF CacheDialogue, CacheRead, CacheWrite, CacheSetLazy, CancelWriter,
              offloadVars
<1>2. CASE DispatchSetLazy
  BY <1>2 DEF DispatchSetLazy, offloadVars
<1>3. ASSUME NEW o \in Offloaders, OffloadAcquire(o) PROVE LockInv'
  BY <1>3 DEF OffloadAcquire
<1>4. ASSUME NEW o \in Offloaders, OffloadStep(o) PROVE LockInv'
  <2>1. CASE OffloadRead(o)
    BY <2>1 DEF OffloadRead
  <2>2. CASE OffloadRemove(o)
    BY <2>2 DEF OffloadRemove
  <2>3. CASE FindThread(o)
    BY <2>3 DEF FindThread
  <2>4. CASE CreateThread(o)
    BY <2>4 DEF CreateThread
  <2>5. CASE CommitRows(o)
    BY <2>5 DEF CommitRows
  <2>6. CASE Recheck(o)
    BY <2>6 DEF Recheck
  <2>7. CASE Cleanup(o)
    BY <2>7 DEF Cleanup
  <2>8. CASE Release(o)
    BY <2>8 DEF Release
  <2>9. QED
    BY <1>4, <2>1, <2>2, <2>3, <2>4, <2>5, <2>6, <2>7, <2>8 DEF OffloadStep
<1>5. ASSUME NEW o \in Offloaders, Failure(o) PROVE LockInv'
  BY <1>5 DEF Failure, DbError, Cancel, CancelAtLock
<1>6. CASE Crash
  BY <1>6 DEF Crash
<1>7. CASE UNCHANGED vars
  BY <1>7 DEF vars, offloadVars
<1>8. QED
  BY <1>1, <1>2, <1>3, <1>4, <1>5, <1>6, <1>7 DEF Next

LEMMA ThreadStep == TypeOK /\ LockInv /\ ThreadInv /\ [Next]_vars => ThreadInv'
<1> SUFFICES ASSUME TypeOK, LockInv, ThreadInv, [Next]_vars PROVE ThreadInv'
  OBVIOUS
<1> USE DEF ThreadInv, TypeOK, dbVars
<1>1. ASSUME NEW w \in Writers, CacheDialogue(w) PROVE ThreadInv'
  BY <1>1 DEF CacheDialogue, CacheRead, CacheWrite, CacheSetLazy, CancelWriter,
              offloadVars
<1>2. CASE DispatchSetLazy
  BY <1>2 DEF DispatchSetLazy, offloadVars
<1>3. ASSUME NEW o \in Offloaders, OffloadAcquire(o) PROVE ThreadInv'
  BY <1>3 DEF OffloadAcquire
<1>4. ASSUME NEW o \in Offloaders, OffloadStep(o) PROVE ThreadInv'
  <2>1. CASE CreateThread(o)
    BY <2>1 DEF CreateThread, LockInv, OneOffloader, Critical, Holding
  <2>2. CASE FindThread(o)
    BY <2>2 DEF FindThread
  <2>3. CASE OffloadRead(o) \/ OffloadRemove(o) \/ CommitRows(o)
    BY <2>3 DEF OffloadRead, OffloadRemove, CommitRows
  <2>4. CASE Recheck(o) \/ Cleanup(o) \/ Release(o)
    BY <2>4 DEF Recheck, Cleanup, Release
  <2>5. QED
    BY <1>4, <2>1, <2>2, <2>3, <2>4 DEF OffloadStep
<1>5. ASSUME NEW o \in Offloaders, Failure(o) PROVE ThreadInv'
  BY <1>5 DEF Failure, DbError, Cancel, CancelAtLock
<1>6. CASE Crash
  BY <1>6 DEF Crash
<1>7. CASE UNCHANGED vars
  BY <1>7 DEF vars, offloadVars
<1>8. QED
  BY <1>1, <1>2, <1>3, <1>4, <1>5, <1>6, <1>7 DEF Next

----------------------------------------------------------------------------
(* A step that moves no message keeps CleanInv.                            *)
LEMMA CleanFrame ==
    ASSUME CleanInv, spoiled' = {} => spoiled = {},
           UNCHANGED <<cache, rows, rowStatus, newest>>,
           \A o \in Offloaders : opc'[o] \in Holding <=> opc[o] \in Holding,
           \A o \in Offloaders : opc[o] \in Holding => osnap'[o] = osnap[o]
    PROVE  CleanInv'
<1> SUFFICES ASSUME spoiled' = {} PROVE CleanInv'
  BY DEF CleanInv
<1> USE DEF CleanInv
<1>1. spoiled = {}
  OBVIOUS
<1>2. Conserved'
  BY <1>1 DEF Conserved
<1>3. OneRowEach'
  BY <1>1 DEF OneRowEach
<1>4. \A m \in Messages : Taken(m)' <=> Taken(m)
  BY DEF Taken
<1>5. QED
  BY <1>1, <1>2, <1>3, <1>4

(* A write over the object that was read: only the own message changes, it *)
(* gets its newest status, and it is not fresh once it was taken.          *)
LEMMA CleanWrite ==
    ASSUME IInv, NEW w \in Writers, CacheWrite(w) PROVE CleanInv'
<1> DEFINE m == witem[w].ts
           e == witem[w].entry
<1> SUFFICES ASSUME spoiled' = {} PROVE CleanInv'
  BY DEF CleanInv
<1>1. m \in Messages /\ e \in Entry /\ e.status \in Nat
  BY DEF IInv, TypeOK, CacheWrite, Item, Entry, Status
<1>2. /\ spoiled = {} /\ cache = wsnap[w] /\ ~(e.status < newest[m])
      /\ ~(Fresh(e) /\ Taken(m))
  BY DEF CacheWrite, Causes
<1>3. newest[m] \in Nat /\ newest \in [Messages -> Status] /\ cache \in [Messages -> Entry]
  BY <1>1 DEF IInv, TypeOK, Status
<1>4. cache' = [cache EXCEPT ![m] = e]
  BY <1>2 DEF CacheWrite
<1>5. newest' = [newest EXCEPT ![m] = e.status]
  <2>1. newest' = [newest EXCEPT ![m] =
                     IF e.status > newest[m] THEN e.status ELSE newest[m]]
    BY DEF CacheWrite
  <2>2. (IF e.status > newest[m] THEN e.status ELSE newest[m]) = e.status
    BY <1>1, <1>2, <1>3
  <2>3. QED
    BY <2>1, <2>2
<1>6. UNCHANGED <<rows, rowStatus, opc, osnap>>
  BY DEF CacheWrite, dbVars, offloadVars
<1> HIDE DEF m, e
<1> USE DEF IInv, CleanInv
<1>7. Conserved'
  BY <1>1, <1>2, <1>3, <1>4, <1>5, <1>6 DEF Conserved
<1>8. OneRowEach'
  BY <1>2, <1>6 DEF OneRowEach
<1>9. \A n \in Messages : Taken(n)' <=> Taken(n)
  BY <1>6 DEF Taken
<1>10. ASSUME NEW n \in Messages
       PROVE  /\ cache'[n].status \in {0, newest'[n]}
              /\ Taken(n)' => ~Fresh(cache'[n])
  BY <1>1, <1>2, <1>3, <1>4, <1>5, <1>9
<1>11. ASSUME NEW n \in Messages, NEW o \in Offloaders, opc'[o] \in Holding
       PROVE  /\ Fresh(osnap'[o][n]) => rows'[n] = 0
              /\ osnap'[o][n].status > 0 =>
                    newest'[n] \in {osnap'[o][n].status, cache'[n].status}
  BY <1>1, <1>2, <1>3, <1>4, <1>5, <1>6, <1>11
<1>12. QED
  BY <1>7, <1>8, <1>9, <1>10, <1>11

(* The removal of exactly what was read: the messages change hands.        *)
LEMMA CleanRemove ==
    ASSUME IInv, NEW o \in Offloaders, OffloadRemove(o) PROVE CleanInv'
<1> SUFFICES ASSUME spoiled' = {} PROVE CleanInv'
  BY DEF CleanInv
<1>1. spoiled = {} /\ osnap[o] = cache
  BY DEF OffloadRemove, Spoil
<1>2. /\ cache' = Empty /\ UNCHANGED <<rows, rowStatus, newest, osnap>>
      /\ opc \in [Offloaders -> Critical \cup {"idle"}]
      /\ opc[o] = "read" /\ opc' = [opc EXCEPT ![o] = "removed"]
  BY DEF OffloadRemove, dbVars, IInv, TypeOK
<1>3. \A p \in Offloaders : opc[p] \in Holding => FALSE
  BY <1>2 DEF IInv, LockInv, OneOffloader, Critical, Holding
<1>4. \A p \in Offloaders : opc'[p] \in Holding <=> p = o
  BY <1>2, <1>3 DEF Holding
<1> USE DEF IInv, CleanInv
<1>5. ASSUME NEW m \in Messages PROVE ~Fresh(Empty[m]) /\ Empty[m].status = 0
  BY EmptyType DEF Fresh
<1>6. \A m \in Messages : Fresh(osnap[o][m]) => rows[m] = 0
  <2> SUFFICES ASSUME NEW m \in Messages, Fresh(osnap[o][m]) PROVE rows[m] = 0
    OBVIOUS
  <2>1. ~Taken(m) /\ rows[m] \in Nat
    BY <1>1 DEF TypeOK
  <2>2. QED
    BY <2>1 DEF Taken
<1>7. Conserved'
  <2> SUFFICES ASSUME NEW m \in Messages
               PROVE  \/ newest[m] = rowStatus[m]
                      \/ newest[m] = osnap[o][m].status
    BY <1>2, <1>4 DEF Conserved
  <2>1. QED
    BY <1>1, <1>3 DEF Conserved
<1>8. OneRowEach'
  BY <1>1, <1>2 DEF OneRowEach
<1>9. \A m \in Messages : osnap[o][m].status > 0 => newest[m] = osnap[o][m].status
  BY <1>1
<1>10. QED
  BY <1>2, <1>4, <1>5, <1>6, <1>7, <1>8, <1>9

(* The commit: every fresh item of the snapshot gets its first row, and a  *)
(* status it writes is the newest or is already outdated by the cache.     *)
LEMMA CleanCommit ==
    ASSUME IInv, NEW o \in Offloaders, CommitRows(o) PROVE CleanInv'
<1> SUFFICES ASSUME spoiled' = {} PROVE CleanInv'
  BY DEF CleanInv
<1>1. /\ spoiled = {} /\ opc[o] = "thread"
      /\ UNCHANGED <<cache, newest>>
      /\ opc' = [opc EXCEPT ![o] = "committed"]
      /\ opc \in [Offloaders -> Critical \cup {"idle"}]
      /\ rows \in [Messages -> Nat]
  BY DEF CommitRows, redisVars, histVars, IInv, TypeOK
<1>2. \A m \in Messages :
         /\ rows'[m] = rows[m] + (IF Fresh(osnap[o][m]) THEN 1 ELSE 0)
         /\ rowStatus'[m] = IF osnap[o][m].status > 0
                               THEN osnap[o][m].status ELSE rowStatus[m]
         /\ osnap[o][m].status \in Nat /\ newest[m] \in Nat
         /\ cache[m].status \in Nat
  BY DEF CommitRows, IInv, TypeOK, Entry, Status
<1>3. \A p \in Offloaders : opc[p] \in Holding => p = o
  BY <1>1 DEF IInv, LockInv, OneOffloader, Critical, Holding
<1>4. \A p \in Offloaders : opc'[p] \notin Holding
  BY <1>1, <1>3 DEF Holding
<1>5. o \in Offloaders /\ opc[o] \in Holding
  BY <1>1 DEF Holding
<1> USE DEF IInv, CleanInv
<1>6. \A m \in Messages : /\ Fresh(osnap[o][m]) => rows[m] = 0
                          /\ osnap[o][m].status > 0 =>
                                newest[m] \in {osnap[o][m].status, cache[m].status}
                          /\ cache[m].status \in {0, newest[m]}
  BY <1>1, <1>5
<1>7. OneRowEach'
  BY <1>1, <1>2, <1>6 DEF OneRowEach
<1>8. Conserved'
  <2> SUFFICES ASSUME NEW m \in Messages
               PROVE  newest[m] = cache[m].status \/ newest[m] = rowStatus'[m]
    BY <1>1 DEF Conserved
  <2>1. \/ newest[m] = cache[m].status
        \/ newest[m] = rowStatus[m]
        \/ newest[m] = osnap[o][m].status
    BY <1>1, <1>3 DEF Conserved
  <2>2. QED
    BY <1>2, <1>6, <2>1
<1>9. \A m \in Messages : Taken(m)' => Taken(m)
  <2> SUFFICES ASSUME NEW m \in Messages, rows'[m] > 0 PROVE Taken(m)
    BY <1>4 DEF Taken
  <2>1. rows[m] > 0 \/ Fresh(osnap[o][m])
    BY <1>1, <1>2
  <2>2. QED
    BY <1>5, <2>1 DEF Taken
<1>10. QED
  BY <1>1, <1>4, <1>6, <1>7, <1>8, <1>9

(* The deletion of a hash that is still empty moves nothing.               *)
LEMMA CleanCleanup ==
    ASSUME IInv, NEW o \in Offloaders, Cleanup(o) PROVE CleanInv'
<1> SUFFICES ASSUME spoiled' = {} PROVE CleanInv'
  BY DEF CleanInv
<1>1. spoiled = {} /\ cache = Empty /\ cache' = Empty
  BY DEF Cleanup, Spoil
<1>2. QED
  BY <1>1, CleanFrame DEF Cleanup, dbVars, IInv, TypeOK, Holding

LEMMA CleanStep == IInv /\ [Next]_vars => CleanInv'
<1> SUFFICES ASSUME IInv, [Next]_vars PROVE CleanInv'
  OBVIOUS
<1> USE DEF redisVars, dbVars, offloadVars, histVars
<1>1. CleanInv /\ opc \in [Offloaders -> Critical \cup {"idle"}]
               /\ osnap \in [Offloaders -> [Messages -> Entry]]
  BY DEF IInv, TypeOK
<1>2. ASSUME NEW w \in Writers, CacheDialogue(w) PROVE CleanInv'
  <2>1. CASE CacheWrite(w)
    BY <2>1, CleanWrite
  <2>2. CASE \E m \in Messages, id \in BOOLEAN : CacheRead(w, m, id)
    BY <1>1, <2>2, CleanFrame DEF CacheRead
  <2>3. CASE CacheSetLazy(w)
    BY <1>1, <2>3, CleanFrame DEF CacheSetLazy
  <2>4. CASE CancelWriter(w)
    BY <1>1, <2>4, CleanFrame DEF CancelWriter
  <2>5. QED
    BY <1>2, <2>1, <2>2, <2>3, <2>4 DEF CacheDialogue
<1>3. CASE DispatchSetLazy
  BY <1>1, <1>3, CleanFrame DEF DispatchSetLazy
<1>4. ASSUME NEW o \in Offloaders, OffloadAcquire(o) PROVE CleanInv'
  BY <1>1, <1>4, CleanFrame DEF OffloadAcquire, Holding
<1>5. ASSUME NEW o \in Offloaders, OffloadStep(o) PROVE CleanInv'
  <2>1. CASE OffloadRead(o)
    BY <1>1, <2>1, CleanFrame DEF OffloadRead, Holding
  <2>2. CASE OffloadRemove(o)
    BY <2>2, CleanRemove
  <2>3. CASE FindThread(o)
    BY <1>1, <2>3, CleanFrame DEF FindThread, Holding
  <2>4. CASE CreateThread(o)
    BY <1>1, <2>4, CleanFrame DEF CreateThread, Holding
  <2>5. CASE CommitRows(o)
    BY <2>5, CleanCommit
  <2>6. CASE Recheck(o)
    BY <1>1, <2>6, CleanFrame DEF Recheck, Holding
  <2>7. CASE Cleanup(o)
    BY <2>7, CleanCleanup
  <2>8. CASE Release(o)
    BY <1>1, <2>8, CleanFrame DEF Release, Holding
  <2>9. QED
    BY <1>5, <2>1, <2>2, <2>3, <2>4, <2>5, <2>6, <2>7, <2>8 DEF OffloadStep
<1>6. ASSUME NEW o \in Offloaders, Failure(o) PROVE CleanInv'
  <2>1. CASE DbError(o)
    BY <2>1 DEF DbError, Spoil, CleanInv
  <2>2. CASE Cancel(o)
    <3>1. CASE opc[o] \in Holding
      BY <2>2, <3>1 DEF Cancel, Spoil, CleanInv
    <3>2. CASE opc[o] \notin Holding
      BY <1>1, <2>2, <3>2, CleanFrame DEF Cancel, Spoil, Holding
    <3>3. QED
      BY <3>1, <3>2
  <2>3. CASE CancelAtLock(o)
    BY <1>1, <2>3, CleanFrame DEF CancelAtLock, Holding
  <2>4. QED
    BY <1>6, <2>1, <2>2, <2>3 DEF Failure
<1>7. CASE Crash
  <2>1. CASE \E o \in Offloaders : opc[o] \in Holding
    BY <1>7, <2>1 DEF Crash, Spoil, CleanInv
  <2>2. CASE ~\E o \in Offloaders : opc[o] \in Holding
    BY <1>1, <1>7, <2>2, CleanFrame DEF Crash, Spoil, Holding
  <2>3. QED
    BY <2>1, <2>2
<1>8. CASE UNCHANGED vars
  BY <1>1, <1>8, CleanFrame DEF vars
<1>9. QED
  BY <1>2, <1>3, <1>4, <1>5, <1>6, <1>7, <1>8 DEF Next

----------------------------------------------------------------------------
(* The initial states satisfy the inductive invariant.                     *)
LEMMA IInvInit == Init => IInv
<1> SUFFICES ASSUME Init PROVE IInv
  OBVIOUS
<1>1. LockInv /\ ThreadInv
  BY DEF Init, LockInv, OneOffloader, LockHeldOrLeaked, ThreadInv, Critical, Holding
<1>2. CleanInv
  BY EmptyType DEF Init, CleanInv, Conserved, OneRowEach, Taken, Fresh, Holding
<1>3. QED
  BY <1>1, <1>2, TypeInit DEF IInv

LEMMA IInvariant == Spec => []IInv
<1>1. IInv /\ [Next]_vars => IInv'
  BY TypeStep, LockStep, ThreadStep, CleanStep DEF IInv
<1>2. QED
  BY IInvInit, <1>1, PTL DEF Spec

(* Every state of every behaviour is of the declared type.                 *)
THEOREM TypeCorrect == Spec => []TypeOK
<1>1. IInv => TypeOK
  BY DEF IInv
<1>2. QED
  BY IInvariant, <1>1, PTL

(* At most one offload_dialogue of a dialogue is past acquire_redis_lock,  *)
(* under database errors, cancellations and crashes.                       *)
THEOREM OffloadExclusive == Spec => []OneOffloader
<1>1. IInv => OneOffloader
  BY DEF IInv, LockInv
<1>2. QED
  BY IInvariant, <1>1, PTL

(* No way out of offload_dialogue but a cancellation at the lock calls and *)
(* the death of the server leaves the lock of the dialogue behind.         *)
THEOREM LockAccounted == Spec => []LockHeldOrLeaked
<1>1. IInv => LockHeldOrLeaked
  BY DEF IInv, LockInv
<1>2. QED
  BY IInvariant, <1>1, PTL

(* get_or_create_thread_id never gives a pair of users a second thread.    *)
THEOREM ThreadUnique == Spec => []OneThread
<1>1. IInv => OneThread
  BY DEF IInv, ThreadInv, OneThread
<1>2. QED
  BY IInvariant, <1>1, PTL

(* The write-behind cache keeps the newest status of every message and one *)
(* row per message, as long as none of the named causes struck.            *)
THEOREM StoredOnce == Spec => []StoredOnceUnlessSpoiled
<1>1. IInv => StoredOnceUnlessSpoiled
  BY DEF IInv, CleanInv, StoredOnceUnlessSpoiled
<1>2. QED
  BY IInvariant, <1>1, PTL

============================================================================
