-------------------------- MODULE Properties_proofs --------------------------
(***************************************************************************)
(* Proofs about properties, their images, likes and verification, for any  *)
(* finite sets of properties and calls, any limit and any workers.         *)
(*                                                                         *)
(* First the control of the calls (ControlInv), and for each kind of step  *)
(* a lemma that says what it does to the rows, the counts and the images,  *)
(* so that what follows need not open the actions again.  What the calls   *)
(* know of the tables is Base; each of the five theorems after it          *)
(* strengthens its property to an invariant on top of Base.                *)
(***************************************************************************)
EXTENDS Properties, FiniteSetTheorems, TLAPS

Inserting == {"create", "recreate", "assign"}

(* What the control of a call says of its request and of what it has seen. *)
ControlOf(c) ==
    /\ pc[c] = "idle" => op[c] = Nothing /\ reply[c] = "none"
    /\ pc[c] # "idle" => op[c].do \in Ops
    /\ op[c].agent # None <=> op[c].do \in Inserting
    /\ op[c].prop = None <=> op[c].do = "nothing" \/ (op[c].do = "create" /\ ~Committed(c))
    /\ pc[c] = "count" => op[c].do \in {"create", "recreate"}
    /\ pc[c] = "stats" => op[c].do \in Interactions
    /\ pc[c] = "flush" => op[c].do \in Inserting
    /\ pc[c] \in {"idle", "count", "stats", "load", "flush"} =>
          seen[c].row = NoRow /\ seen[c].img = None
    /\ pc[c] \in {"idle", "stats"} => seen[c].stat = None
    /\ seen[c].row.state \in {"unborn", "live"}
    /\ Inserts(c) => seen[c].row = NoRow /\ seen[c].img = None
    /\ pc[c] = "commit" /\ Inserts(c) => op[c].do \in Inserting
    /\ op[c].do = "create" => Inserts(c) /\ pc[c] # "load"
    /\ pc[c] = "refresh" => op[c].do \notin Interactions \cup {"delete"}
    /\ reply[c] = "ok" => pc[c] = "done"
    /\ seen[c].stat = None => ~seen[c].liked
ControlInv == \A c \in Calls : ControlOf(c)

NewRow(c, cover) == [NoRow EXCEPT !.state = "live", !.agent = op[c].agent, !.giver = c,
                                  !.by = c, !.cover = cover]
Gone == [NoRow EXCEPT !.state = "deleted"]

(* What a step of a call does, whatever it is.                             *)
Local(c) ==
    /\ Running(c) /\ pc'[c] # "idle"
    /\ \A d \in Calls \ {c} : /\ pc'[d] = pc[d] /\ reply'[d] = reply[d]
                              /\ seen'[d] = seen[d] /\ op'[d] = op[d]
    /\ op'[c].do = op[c].do /\ op'[c].agent = op[c].agent /\ op'[c].caller = op[c].caller
    /\ op[c].prop # None => op'[c] = op[c]
    /\ UNCHANGED <<cloud, met, routine>>
    /\ pc[c] \notin {"stats", "load"} => seen'[c] = seen[c]
    /\ Committed(c) => Committed(c)'

(* A step that commits nothing.                                            *)
Waits(c) == UNCHANGED <<tables, op>> /\ (Committed(c)' => Committed(c))

LEMMA PropKnown ==
    ASSUME TypeOK, ControlInv, NEW c \in Calls, op[c].do \notin {"nothing", "create"}
    PROVE  op[c].prop \in Props
BY DEF TypeOK, ControlInv, ControlOf, Requests

LEMMA WaitStep ==
    ASSUME TypeOK, NEW c \in Calls,
           \/ Count(c) \/ Stats(c)
           \/ LoadProperty(c) \/ LoadForVerdict(c) \/ LoadForDelete(c) \/ LoadAsset(c)
           \/ Flush(c) \/ Refresh(c) \/ Fail(c)
    PROVE  Local(c) /\ Waits(c)
<1> USE DEF TypeOK, Local, Waits, At, Running, Committed, Goes, Replies, tables, routine
<1>1. CASE Count(c)
  BY <1>1 DEF Count
<1>2. CASE Stats(c)
  BY <1>2 DEF Stats
<1>3. CASE LoadProperty(c)
  BY <1>3 DEF LoadProperty, Sees
<1>4. CASE LoadForVerdict(c)
  BY <1>4 DEF LoadForVerdict, Sees
<1>5. CASE LoadForDelete(c)
  BY <1>5 DEF LoadForDelete, Sees
<1>6. CASE LoadAsset(c)
  BY <1>6 DEF LoadAsset, Sees
<1>7. CASE Flush(c)
  BY <1>7 DEF Flush
<1>8. CASE Refresh(c)
  BY <1>8 DEF Refresh
<1>9. CASE Fail(c)
  BY <1>9 DEF Fail
<1>10. QED
  BY <1>1, <1>2, <1>3, <1>4, <1>5, <1>6, <1>7, <1>8, <1>9

Inserted(c, p) ==
    /\ At(c, "commit") /\ Inserts(c) /\ ~Live(p)
    /\ row' = [row EXCEPT ![p] = NewRow(c, IF op[c].do = "assign" THEN None ELSE c)]
    /\ pic' = IF op[c].do = "assign" THEN pic ELSE [pic EXCEPT ![c] = c]
    /\ op' = [op EXCEPT ![c].prop = p]
    /\ op[c].prop = None => row[p].state = "unborn"
    /\ op[c].prop # None => op[c].prop = p
    /\ Goes(c, "refresh")
    /\ UNCHANGED <<stat, outbox, cloud, seen, met, routine, faults>>

LEMMA Insertion ==
    ASSUME TypeOK, ControlInv, NEW c \in Calls, Insert(c)
    PROVE  /\ Local(c)
           /\ Waits(c) \/ \E p \in Props : Inserted(c, p)
<1>0. op \in [Calls -> Requests] /\ pc \in [Calls -> {"idle", "count", "stats", "load", "flush", "commit", "refresh", "done"}]
      /\ reply \in [Calls -> {"none", "ok", "refused", "error"}]
  BY DEF TypeOK
<1>1. PICK p \in IF op[c].prop = None THEN {q \in Props : row[q].state = "unborn"}
                 ELSE {op[c].prop} :
          IF Live(p) THEN Replies(c, "error") /\ UNCHANGED <<row, pic, op>>
          ELSE Inserted(c, p)
  BY PropertiesAssumption DEF Insert, Inserted, NewRow
<1>2. p \in Props /\ (op[c].prop # None => op[c].prop = p)
  BY <1>0, <1>1 DEF Requests
<1>3. At(c, "commit") /\ UNCHANGED <<stat, outbox, cloud, seen, met, routine, faults>>
  BY DEF Insert
<1>4. CASE Live(p)
  <2>1. Replies(c, "error") /\ UNCHANGED <<row, pic, op>>
    BY <1>1, <1>4
  <2>2. QED
    BY <1>0, <1>3, <2>1 DEF Local, Waits, Replies, At, Running, Committed, tables, routine
<1>5. CASE ~Live(p)
  <2>1. Inserted(c, p)
    BY <1>1, <1>5
  <2>2. op'[c] = [op[c] EXCEPT !.prop = p] /\ op[c] \in Requests
    BY <1>0, <2>1 DEF Inserted
  <2>3. op'[c].do = op[c].do /\ op'[c].agent = op[c].agent /\ op'[c].caller = op[c].caller
    BY <2>2 DEF Requests
  <2>4. op[c].prop # None => op'[c] = op[c]
    BY <1>2, <2>2 DEF Requests
  <2>5. \A d \in Calls \ {c} : op'[d] = op[d]
    BY <1>0, <2>1 DEF Inserted
  <2>6. QED
    BY <1>0, <1>2, <1>3, <2>1, <2>3, <2>4, <2>5 DEF Inserted, Local, Goes, At, Running, Committed
<1>6. QED
  BY <1>4, <1>5

LEMMA WriteStep ==
    ASSUME TypeOK, NEW c \in Calls,
           Rewrite(c) \/ Verdict(c) \/ Delete(c) \/ Interact(c)
    PROVE  /\ Local(c) /\ UNCHANGED op /\ seen' = seen /\ pc' # [pc EXCEPT ![c] = "commit"]
           /\ Waits(c) \/ (At(c, "commit") /\ ~Committed(c) /\ Committed(c)')
<1> USE DEF TypeOK, Local, Waits, At, Running, Committed, Goes, Replies, tables, routine
<1>1. CASE Rewrite(c)
  BY <1>1 DEF Rewrite
<1>2. CASE Verdict(c)
  BY <1>2 DEF Verdict
<1>3. CASE Delete(c)
  BY <1>3 DEF Delete
<1>4. CASE Interact(c)
  BY <1>4 DEF Interact
<1>5. QED
  BY <1>1, <1>2, <1>3, <1>4

LEMMA RowTypes ==
    ASSUME TypeOK, NEW c \in Calls, NEW r \in Rows
    PROVE  /\ Filled(r, c) \in Rows /\ Unverified(r, c) \in Rows /\ Judged(r, c) \in Rows
           /\ NoRow \in Rows /\ Gone \in Rows
           /\ \A i \in Images \cup {None} : NewRow(c, i) \in Rows
           /\ \A n \in Nat : [r EXCEPT !.likes = n] \in Rows
<1>1. op[c] \in Requests /\ seen[c] \in Sights /\ c \in Images
  BY DEF TypeOK, Images
<1>2. op[c].agent \in People \cup {None} /\ seen[c].row \in Rows
  BY <1>1 DEF Requests, Sights
<1>3. Filled(r, c) \in Rows
  BY <1>1, <1>2 DEF Filled, Rows, Column
<1>4. \A v, old, now \in BOOLEAN : Column(v, old, now) \in BOOLEAN
  BY DEF Column
<1>5. seen[c].row.verified \in BOOLEAN /\ seen[c].row.declined \in BOOLEAN /\ r.verified \in BOOLEAN /\ r.declined \in BOOLEAN
  BY <1>2 DEF Rows
<1>6. Unverified(r, c) \in Rows
  BY <1>4, <1>5 DEF Unverified, Rows
<1>7. Judged(r, c) \in Rows
  <2>1. \A v, d \in BOOLEAN : [r EXCEPT !.verified = v, !.declined = d] \in Rows
    BY DEF Rows
  <2>2. QED
    BY <1>4, <1>5, <2>1 DEF Judged
<1>8. NoRow \in Rows /\ Gone \in Rows
  BY DEF NoRow, Gone, Rows
<1>9. \A i \in Images \cup {None} : NewRow(c, i) \in Rows
  BY <1>2 DEF NewRow, NoRow, Rows
<1>10. \A n \in Nat : [r EXCEPT !.likes = n] \in Rows
  BY DEF Rows
<1>11. QED
  BY <1>3, <1>6, <1>7, <1>8, <1>9, <1>10

LEMMA SeenType ==
    ASSUME TypeOK, NEW c \in Calls, op[c].prop \in Props, Sees(c)
    PROVE  (seen \in [Calls -> Sights])'
<1> DEFINE r == row[op[c].prop]
           i == IF r.cover = None THEN None ELSE pic[r.cover]
<1>1. r \in Rows /\ seen[c] \in Sights
  BY DEF TypeOK
<1>2. i \in Images \cup {None}
  BY <1>1 DEF TypeOK, Rows
<1>3. seen' = [seen EXCEPT ![c] = [seen[c] EXCEPT !.row = r, !.img = i]]
  BY DEF Sees, TypeOK
<1>4. [seen[c] EXCEPT !.row = r, !.img = i] \in Sights
  BY <1>1, <1>2 DEF Sights
<1>5. QED
  BY <1>3, <1>4 DEF TypeOK

LEMMA InitTypes == Init => TypeOK /\ ControlInv
<1> SUFFICES ASSUME Init PROVE TypeOK /\ ControlInv
  OBVIOUS
<1>1. NoRow \in Rows /\ NoSight \in Sights /\ Nothing \in Requests /\ NoRun \in Runs
  BY DEF NoRow, Rows, NoSight, Sights, Nothing, Requests, NoRun, Runs
<1>2. \A p \in Registered : [NoRow EXCEPT !.state = "live", !.agent = agentOf[p], !.cover = p] \in Rows
  BY <1>1, PropertiesAssumption DEF Rows, NoRow, Images
<1>3. FirstRows \in [Props -> Rows]
  BY <1>1, <1>2 DEF FirstRows
<1>4. scene \in Scenarios /\ scene.faults \in Nat
  BY PropertiesAssumption DEF Init
<1>5. TypeOK
  <2>1. Registered \subseteq Images /\ faults = 0 /\ 0 \in 0 .. scene.faults
    BY <1>4, PropertiesAssumption DEF Images, Init
  <2>2. pic \in [Images -> Images \cup {None}]
    BY <2>1 DEF Init
  <2>3. QED
    BY <1>1, <1>3, <1>4, <2>1, <2>2 DEF TypeOK, Init
<1>6. ControlInv
  BY DEF Init, ControlInv, ControlOf, Nothing, NoSight, NoRow, Ops, Updates, Interactions, Inserting, Inserts, Committed
<1>7. QED
  BY <1>5, <1>6

LEMMA RowStep ==
    ASSUME TypeOK, ControlInv, NEW c \in Calls, Step(c)
    PROVE  /\ (row \in [Props -> Rows])'
           /\ \/ UNCHANGED row
              \/ \E p \in Props, r \in Rows : row' = [row EXCEPT ![p] = r] /\ op'[c].prop = p
<1>0. row \in [Props -> Rows]
  BY DEF TypeOK
<1>1. ASSUME NEW p \in Props, NEW r \in Rows, row' = [row EXCEPT ![p] = r], op'[c].prop = p
      PROVE  (row \in [Props -> Rows])' /\ \E q \in Props, s \in Rows : row' = [row EXCEPT ![q] = s] /\ op'[c].prop = q
  BY <1>0, <1>1
<1>2. CASE Insert(c)
  <2>1. ASSUME NEW p \in Props, Inserted(c, p)
        PROVE  \E r \in Rows : row' = [row EXCEPT ![p] = r] /\ op'[c].prop = p
    <3>1. (IF op[c].do = "assign" THEN None ELSE c) \in Images \cup {None}
      BY DEF Images
    <3>2. op'[c].prop = p
      BY <2>1 DEF Inserted, TypeOK, Requests
    <3>3. QED
      BY <2>1, <3>1, <3>2, <1>0, RowTypes DEF Inserted
  <2>2. Waits(c) => UNCHANGED row
    BY DEF Waits, tables
  <2>3. QED
    BY <1>0, <1>1, <1>2, <2>1, <2>2, Insertion
<1>3. CASE Rewrite(c)
  <2>1. op[c].prop \in Props /\ op' = op
    BY <1>3, PropKnown DEF Rewrite, NewContent, Updates
  <2>2. Filled(row[op[c].prop], c) \in Rows /\ Unverified(Filled(row[op[c].prop], c), c) \in Rows
    BY <1>0, <2>1, RowTypes
  <2>3. QED
    BY <1>0, <1>1, <1>3, <2>1, <2>2 DEF Rewrite
<1>4. CASE Verdict(c)
  <2>1. op[c].prop \in Props /\ op' = op
    BY <1>4, PropKnown DEF Verdict
  <2>2. Judged(row[op[c].prop], c) \in Rows
    BY <1>0, <2>1, RowTypes
  <2>3. QED
    BY <1>0, <1>1, <1>4, <2>1, <2>2 DEF Verdict
<1>5. CASE Delete(c)
  <2>1. op[c].prop \in Props /\ op' = op
    BY <1>5, PropKnown DEF Delete
  <2>2. Gone \in Rows
    BY <1>0, <2>1, RowTypes
  <2>3. QED
    BY <1>0, <1>1, <1>5, <2>1, <2>2 DEF Delete, Gone, tables
<1>6. CASE Interact(c)
  <2>1. op[c].prop \in Props /\ op' = op
    BY <1>6, PropKnown DEF Interact, Interactions
  <2>2. row[op[c].prop] \in Rows /\ seen[c].row \in Rows
    BY <1>0, <2>1 DEF TypeOK, Sights
  <2>3. seen[c].row.likes \in Nat /\ row[op[c].prop].likes \in Nat
    BY <2>2 DEF Rows
  <2>4. Tally(c) \in Nat
    BY <2>3 DEF Tally
  <2>5. Column(Tally(c), seen[c].row.likes, row[op[c].prop].likes) \in Nat
    BY <2>3, <2>4 DEF Column
  <2>6. [row[op[c].prop] EXCEPT !.likes = Column(Tally(c), seen[c].row.likes, @)] \in Rows
    BY <2>2, <2>5, RowTypes
  <2>7. QED
    BY <1>0, <1>1, <1>6, <2>1, <2>6 DEF Interact
<1>7. CASE \/ Count(c) \/ Stats(c)
           \/ LoadProperty(c) \/ LoadForVerdict(c) \/ LoadForDelete(c) \/ LoadAsset(c)
           \/ Flush(c) \/ Refresh(c)
  BY <1>0, <1>7, WaitStep DEF Waits, tables
<1>8. QED
  BY <1>2, <1>3, <1>4, <1>5, <1>6, <1>7 DEF Step

LEMMA TypeStep ==
    ASSUME TypeOK, ControlInv, NEW c \in Calls, Step(c)
    PROVE  TypeOK'
<1> USE DEF TypeOK
<1>1. (row \in [Props -> Rows])'
  BY RowStep
<1>2. (pc \in [Calls -> {"idle", "count", "stats", "load", "flush", "commit", "refresh", "done"}])'
      /\ (reply \in [Calls -> {"none", "ok", "refused", "error"}])'
  BY DEF Step, Count, Stats, LoadProperty, LoadForVerdict, LoadForDelete, LoadAsset, Flush, Insert,
         Rewrite, Verdict, Delete, Interact, Refresh, Goes, Replies
<1>3. (stat \in [Calls -> {"none", "liked", "unliked"}])'
  BY DEF Step, Count, Stats, LoadProperty, LoadForVerdict, LoadForDelete, LoadAsset, Flush, Insert,
         Rewrite, Verdict, Delete, Interact, Refresh, tables
<1>4. UNCHANGED <<cloud, met, run, lock, scene, faults>>
  BY DEF Step, Count, Stats, LoadProperty, LoadForVerdict, LoadForDelete, LoadAsset, Flush, Insert,
         Rewrite, Verdict, Delete, Interact, Refresh, routine
<1>5. (outbox \subseteq Images \X Calls)'
  BY DEF Step, Count, Stats, LoadProperty, LoadForVerdict, LoadForDelete, LoadAsset, Flush, Insert,
         Rewrite, Verdict, Delete, Interact, Refresh, tables, Released, Sights
<1>6. (pic \in [Images -> Images \cup {None}])'
  BY DEF Step, Count, Stats, LoadProperty, LoadForVerdict, LoadForDelete, LoadAsset, Flush, Insert,
         Rewrite, Verdict, Delete, Interact, Refresh, tables, Pictures, Images
<1>7. (op \in [Calls -> Requests])'
  <2>1. ASSUME NEW p \in Props, Inserted(c, p)
        PROVE  op' \in [Calls -> Requests]
    <3>1. op'[c] = [op[c] EXCEPT !.prop = p] /\ op[c] \in Requests
      BY <2>1 DEF Inserted
    <3>2. [op[c] EXCEPT !.prop = p] \in Requests
      BY <3>1 DEF Requests
    <3>3. op' = [op EXCEPT ![c] = [op[c] EXCEPT !.prop = p]]
      BY <2>1 DEF Inserted
    <3>4. QED
      BY <3>2, <3>3
  <2>2. CASE Insert(c)
    BY <2>1, <2>2, Insertion DEF Waits
  <2>3. CASE ~Insert(c)
    BY <2>3 DEF Step, Count, Stats, LoadProperty, LoadForVerdict, LoadForDelete, LoadAsset, Flush,
         Rewrite, Verdict, Delete, Interact, Refresh
  <2>4. QED
    BY <2>2, <2>3
<1>8. (seen \in [Calls -> Sights])'
  <2>1. CASE Stats(c)
    <3>1. PICK d \in Calls \cup {None} :
             seen' = [seen EXCEPT ![c].stat = d, ![c].liked = d # None /\ stat[d] = "liked"]
      BY <2>1 DEF Stats, StatRows
    <3> DEFINE b == d # None /\ stat[d] = "liked"
    <3>2. seen[c] \in Sights /\ b \in BOOLEAN
      OBVIOUS
    <3>3. seen' = [seen EXCEPT ![c] = [seen[c] EXCEPT !.stat = d, !.liked = b]]
      BY <3>1
    <3> HIDE DEF b
    <3>4. [seen[c] EXCEPT !.stat = d, !.liked = b] \in Sights
      BY <3>2 DEF Sights
    <3>5. QED
      BY <3>3, <3>4
  <2>2. CASE LoadProperty(c) \/ LoadForVerdict(c) \/ LoadForDelete(c) \/ LoadAsset(c)
    <3>1. op[c].prop \in Props
      BY <2>2, PropKnown DEF LoadProperty, LoadForVerdict, LoadForDelete, LoadAsset, NewContent, Updates, Interactions
    <3>2. UNCHANGED seen \/ Sees(c)
      BY <2>2 DEF LoadProperty, LoadForVerdict, LoadForDelete, LoadAsset
    <3>3. QED
      BY <3>1, <3>2, SeenType
  <2>3. CASE Count(c) \/ Flush(c) \/ Insert(c) \/ Rewrite(c) \/ Verdict(c) \/ Delete(c) \/ Interact(c) \/ Refresh(c)
    BY <2>3 DEF Count, Flush, Insert, Rewrite, Verdict, Delete, Interact, Refresh
  <2>4. QED
    BY <2>1, <2>2, <2>3 DEF Step
<1>9. QED
  BY <1>1, <1>2, <1>3, <1>4, <1>5, <1>6, <1>7, <1>8

LEMMA ControlLocal ==
    ASSUME ControlInv, NEW c \in Calls, Local(c), ControlOf(c)'
    PROVE  ControlInv'
<1>1. \A d \in Calls \ {c} : ControlOf(d)'
  BY DEF ControlInv, ControlOf, Local, Committed, Inserts
<1>2. QED
  BY <1>1 DEF ControlInv

LEMMA ControlStep ==
    ASSUME TypeOK, ControlInv, NEW c \in Calls, Step(c)
    PROVE  ControlInv'
<1>1. ControlOf(c)
  BY DEF ControlInv
<1> USE <1>1 DEF ControlOf, Committed, Inserts, At, Goes, Replies
<1>2. CASE Count(c) \/ Flush(c) \/ Refresh(c)
  <2>1. Local(c) /\ UNCHANGED <<op, seen>>
    BY <1>2, WaitStep DEF Count, Flush, Refresh
  <2>2. ControlOf(c)'
    BY <1>2, <2>1 DEF Count, Flush, Refresh, Local, TypeOK, Running, Inserting, Interactions
  <2>3. QED
    BY <2>1, <2>2, ControlLocal
<1>3. CASE Stats(c)
  <2>1. Local(c) /\ op' = op
    BY <1>3, WaitStep DEF Stats
  <2>2. seen'[c].row = seen[c].row /\ seen'[c].img = seen[c].img /\ (seen'[c].stat = None => ~seen'[c].liked)
    BY <1>3 DEF Stats, StatRows, TypeOK, Sights
  <2>3. ControlOf(c)'
    BY <1>3, <2>1, <2>2 DEF Stats, TypeOK, Interactions, Inserting
  <2>4. QED
    BY <2>1, <2>3, ControlLocal
<1>4. CASE LoadProperty(c) \/ LoadForVerdict(c) \/ LoadForDelete(c) \/ LoadAsset(c)
  <2>1. Local(c) /\ op' = op /\ At(c, "load")
    BY <1>4, WaitStep DEF LoadProperty, LoadForVerdict, LoadForDelete, LoadAsset
  <2>2. op[c].do \notin {"create", "nothing"} /\ op[c].prop # None /\ reply[c] = "none"
        /\ seen[c].row = NoRow /\ seen[c].img = None
    BY <1>4, <2>1 DEF LoadProperty, LoadForVerdict, LoadForDelete, LoadAsset, NewContent, Updates, Interactions
  <2>3. \/ pc'[c] = "commit" /\ reply'[c] = "none" /\ Live(op[c].prop) /\ Sees(c)
        \/ pc'[c] = "flush" /\ reply'[c] = "none" /\ op[c].do \in Inserting /\ seen' = seen
        \/ pc'[c] = "done" /\ reply'[c] \in {"error", "refused"} /\ seen' = seen
        \/ pc'[c] = "done" /\ reply'[c] \in {"error", "refused"} /\ Live(op[c].prop) /\ Sees(c)
    BY <1>4, <2>2 DEF LoadProperty, LoadForVerdict, LoadForDelete, LoadAsset, TypeOK, Inserting
  <2>4. Sees(c) /\ Live(op[c].prop) =>
           seen'[c].row.state = "live" /\ seen'[c].stat = seen[c].stat /\ seen'[c].liked = seen[c].liked
    BY DEF Sees, TypeOK, Sights, Live
  <2>5. ControlOf(c)'
    BY <2>1, <2>2, <2>3, <2>4
  <2>6. QED
    BY <2>1, <2>5, ControlLocal
<1>5. CASE Insert(c)
  <2>1. CASE Waits(c)
    <3>1. Local(c) /\ UNCHANGED <<op, seen>> /\ At(c, "commit") /\ ~Committed(c)'
      BY <1>5, <2>1, Insertion DEF Insert, Waits
    <3>2. pc'[c] \in {"done", "refresh"} /\ reply'[c] \in {"none", "error"}
      BY <1>5 DEF Insert, TypeOK
    <3>3. ControlOf(c)'
      BY <3>1, <3>2
    <3>4. QED
      BY <3>1, <3>3, ControlLocal
  <2>2. CASE \E p \in Props : Inserted(c, p)
    <3>1. PICK p \in Props : Inserted(c, p)
      BY <2>2
    <3>2. Local(c)
      BY <1>5, Insertion
    <3>3. op'[c].prop = p
      BY <3>1 DEF Inserted, TypeOK, Requests
    <3>4. Local(c) /\ op'[c].prop = p /\ seen' = seen /\ pc'[c] = "refresh" /\ reply'[c] = "none"
      BY <3>1, <3>2, <3>3 DEF Inserted, TypeOK
    <3>5. op'[c].do = op[c].do /\ pc[c] = "commit" /\ op'[c].agent = op[c].agent /\ p # None /\ op[c].do \in Inserting
      BY <3>1, <3>4, PropertiesAssumption DEF Local, Inserted
    <3>6. ControlOf(c)'
      BY <3>1, <3>4, <3>5 DEF Inserted, Inserting, Interactions, Ops, Updates
    <3>7. QED
      BY <3>4, <3>6, ControlLocal
  <2>3. QED
    BY <1>5, <2>1, <2>2, Insertion
<1>6. CASE Rewrite(c) \/ Verdict(c) \/ Delete(c) \/ Interact(c)
  <2>1. Local(c) /\ UNCHANGED <<op, seen>> /\ op[c].do # "create" /\ pc[c] = "commit"
    BY <1>6, WriteStep DEF Rewrite, Verdict, Delete, Interact, NewContent, Updates, Interactions
  <2>2. \/ pc'[c] = "refresh" /\ reply'[c] = "none" /\ op[c].do \notin Interactions \cup {"delete"}
        \/ pc'[c] = "done" /\ reply'[c] \in {"error", "ok"}
    BY <1>6 DEF Rewrite, Verdict, Delete, Interact, TypeOK, NewContent, Updates, Interactions
  <2>3. ControlOf(c)'
    BY <2>1, <2>2
  <2>4. QED
    BY <2>1, <2>3, ControlLocal
<1>7. QED
  BY <1>2, <1>3, <1>4, <1>5, <1>6 DEF Step

(***************************************************************************)
(* What a step of a call does to a row.                                    *)
(***************************************************************************)
SameBut(q, fields) ==
    \A f \in {"state", "agent", "giver", "by", "verified", "likes", "cover"} \ fields :
        row'[q][f] = row[q][f]

Rewrites(c, q) ==
    /\ Rewrite(c) /\ ~Clashes(c) /\ ~Stale(c) /\ ~Inserts(c)
    /\ op[c].prop = q /\ Live(q)
    /\ SameBut(q, {"agent", "giver", "by", "verified", "cover"})
    /\ row'[q].by = c
    /\ \/ op[c].agent # None /\ row'[q].giver = c
       \/ op[c].agent = None /\ row'[q].giver = row[q].giver /\ row'[q].agent = row[q].agent
    /\ row'[q].cover = IF op[c].do \in NewCover THEN c ELSE row[q].cover
    /\ row'[q].verified =>
          row[q].verified /\ (op[c].do = "recreate" \/ ~seen[c].row.verified)

Judges(c, q) ==
    /\ Verdict(c) /\ op[c].prop = q /\ Live(q)
    /\ SameBut(q, {"verified"})
    /\ row'[q].verified => row[q].verified \/ op[c].do = "verify"

Deletes(c, q) == Delete(c) /\ ~Clashes(c) /\ op[c].prop = q /\ row'[q] = Gone

Likes(c, q) ==
    /\ Interact(c) /\ op[c].prop = q /\ Live(q)
    /\ SameBut(q, {"likes"})

Writes(c, q) ==
    /\ op[c].prop = q \/ Inserted(c, q)
    /\ Inserted(c, q) \/ Rewrites(c, q) \/ Judges(c, q) \/ Deletes(c, q) \/ Likes(c, q)

LEMMA RewriteRow ==
    ASSUME TypeOK, ControlInv, NEW c \in Calls, Rewrite(c), ~Stale(c), ~Clashes(c)
    PROVE  /\ op[c].prop \in Props /\ Rewrites(c, op[c].prop)
           /\ \A q \in Props \ {op[c].prop} : row'[q] = row[q]
           /\ pic' = Pictures(c) /\ outbox' = outbox \cup (Released(c) \X {c})
           /\ At(c, "commit") /\ Committed(c)'
<1> DEFINE p == op[c].prop
           r == Filled(row[p], c)
<1>0. row \in [Props -> Rows]
  BY DEF TypeOK
<1>1. p \in Props
  BY PropKnown DEF Rewrite, NewContent, Updates
<1>2. row[p] \in Rows /\ r \in Rows /\ Unverified(r, c) \in Rows
  BY <1>0, <1>1, RowTypes
<1>3. Live(p) /\ ~Inserts(c)
  BY DEF Rewrite, Stale
<1>4. /\ r.by = c /\ r.likes = row[p].likes /\ r.state = row[p].state
      /\ r.cover = IF op[c].do \in NewCover THEN c ELSE row[p].cover
      /\ \/ op[c].agent # None /\ r.giver = c
         \/ op[c].agent = None /\ r.giver = row[p].giver /\ r.agent = row[p].agent
      /\ r.verified = row[p].verified
  BY <1>2 DEF Filled, Rows
<1> HIDE DEF r
<1>5. LET u == Unverified(r, c) IN
      /\ u.by = r.by /\ u.likes = r.likes /\ u.state = r.state /\ u.cover = r.cover
      /\ u.giver = r.giver /\ u.agent = r.agent
      /\ u.verified => r.verified /\ ~seen[c].row.verified
  <2>1. seen[c].row.verified \in BOOLEAN /\ r.verified \in BOOLEAN
    BY <1>2 DEF TypeOK, Sights, Rows
  <2>2. Column(FALSE, seen[c].row.verified, r.verified) => r.verified /\ ~seen[c].row.verified
    BY <2>1 DEF Column
  <2>3. QED
    BY <1>2, <2>2 DEF Unverified, Rows
<1>6. /\ row'[p] = IF op[c].do = "recreate" THEN r ELSE Unverified(r, c)
      /\ \A q \in Props \ {p} : row'[q] = row[q]
      /\ pic' = Pictures(c) /\ outbox' = outbox \cup (Released(c) \X {c}) /\ Goes(c, "refresh")
      /\ At(c, "commit")
  BY <1>0, <1>1 DEF Rewrite, r
<1>7. Rewrites(c, p)
  BY <1>3, <1>4, <1>5, <1>6 DEF Rewrites, SameBut
<1>8. QED
  BY <1>1, <1>6, <1>7 DEF TypeOK, Goes, Committed

LEMMA RowEffect ==
    ASSUME TypeOK, ControlInv, NEW c \in Calls, Step(c)
    PROVE  UNCHANGED row \/ \E p \in Props : /\ Writes(c, p)
                                             /\ \A q \in Props \ {p} : row'[q] = row[q]
<1>0. row \in [Props -> Rows]
  BY DEF TypeOK
<1>1. CASE Insert(c)
  <2>1. Waits(c) => UNCHANGED row
    BY DEF Waits, tables
  <2>2. ASSUME NEW p \in Props, Inserted(c, p)
        PROVE  Writes(c, p) /\ \A q \in Props \ {p} : row'[q] = row[q]
    BY <1>0, <2>2 DEF Inserted, Writes
  <2>3. QED
    BY <1>1, <2>1, <2>2, Insertion
<1>2. CASE Rewrite(c)
  <2>1. CASE Stale(c) \/ Clashes(c)
    BY <1>2, <2>1 DEF Rewrite
  <2>2. CASE ~Stale(c) /\ ~Clashes(c)
    BY <1>2, <2>2, RewriteRow DEF Writes
  <2>3. QED
    BY <2>1, <2>2
<1>3. CASE Verdict(c)
  <2> DEFINE p == op[c].prop
  <2>1. p \in Props
    BY <1>3, PropKnown DEF Verdict
  <2>2. CASE ~Live(p)
    BY <1>3, <2>2 DEF Verdict
  <2>3. CASE Live(p)
    <3>1. row[p] \in Rows /\ Judged(row[p], c) \in Rows
      BY <1>0, <2>1, RowTypes
    <3>2. seen[c].row.verified \in BOOLEAN /\ row[p].verified \in BOOLEAN
      BY <3>1 DEF TypeOK, Sights, Rows
    <3>3. Column(FALSE, seen[c].row.verified, row[p].verified) => row[p].verified
      BY <3>2 DEF Column
    <3>4. LET u == Judged(row[p], c) r == row[p] IN
          /\ u.by = r.by /\ u.likes = r.likes /\ u.state = r.state /\ u.cover = r.cover
          /\ u.giver = r.giver /\ u.agent = r.agent
          /\ u.verified => r.verified \/ op[c].do = "verify"
      BY <3>1, <3>3 DEF Judged, Rows
    <3>5. row'[p] = Judged(row[p], c) /\ \A q \in Props \ {p} : row'[q] = row[q]
      BY <1>0, <1>3, <2>1, <2>3 DEF Verdict
    <3>6. Judges(c, p)
      BY <1>3, <2>3, <3>4, <3>5 DEF Judges, SameBut
    <3>7. QED
      BY <2>1, <3>5, <3>6 DEF Writes
  <2>4. QED
    BY <2>2, <2>3
<1>4. CASE Delete(c)
  <2>1. op[c].prop \in Props
    BY <1>4, PropKnown DEF Delete
  <2>2. CASE Clashes(c)
    BY <1>4, <2>2 DEF Delete, tables
  <2>3. CASE ~Clashes(c)
    BY <1>0, <1>4, <2>1, <2>3 DEF Delete, Deletes, Gone, Writes
  <2>4. QED
    BY <2>2, <2>3
<1>5. CASE Interact(c)
  <2> DEFINE p == op[c].prop
  <2>1. p \in Props
    BY <1>5, PropKnown DEF Interact, Interactions
  <2>2. \/ UNCHANGED row
        \/ Live(p) /\ row' = [row EXCEPT ![p].likes = Column(Tally(c), seen[c].row.likes, @)]
    BY <1>5 DEF Interact
  <2>3. ASSUME Live(p), NEW n, row' = [row EXCEPT ![p].likes = n]
        PROVE  SameBut(p, {"likes"}) /\ \A q \in Props \ {p} : row'[q] = row[q]
    <3>1. row[p] \in Rows
      BY <1>0, <2>1
    <3>2. row'[p] = [row[p] EXCEPT !.likes = n] /\ \A q \in Props \ {p} : row'[q] = row[q]
      BY <1>0, <2>1, <2>3
    <3>3. QED
      BY <3>1, <3>2 DEF SameBut, Rows
  <2>4. QED
    BY <1>5, <2>1, <2>2, <2>3 DEF Likes, Writes
<1>6. CASE \/ Count(c) \/ Stats(c)
           \/ LoadProperty(c) \/ LoadForVerdict(c) \/ LoadForDelete(c) \/ LoadAsset(c)
           \/ Flush(c) \/ Refresh(c)
  BY <1>6, WaitStep DEF Waits, tables
<1>7. QED
  BY <1>1, <1>2, <1>3, <1>4, <1>5, <1>6 DEF Step

(***************************************************************************)
(* What the other steps do.                                                *)
(***************************************************************************)
Arrived(c, r) ==
    /\ pc[c] = "idle" /\ Arrives(c, r) /\ r \in Requests /\ r.do \in Ops
    /\ r.prop # None => r.prop \in Props /\ Live(r.prop)
    /\ r.prop = None <=> r.do = "create"
    /\ r.agent # None <=> r.do \in Inserting

LEMMA Arrival ==
    ASSUME TypeOK, NEW c \in Calls, Request(c)
    PROVE  \E r : Arrived(c, r)
<1>1. scene.ops \subseteq Ops
  BY PropertiesAssumption DEF TypeOK
<1>2. PICK do \in scene.ops : \E p \in IF do = "create" THEN {None} ELSE {q \in Props : Live(q)} :
       \E g \in IF do \in {"create", "recreate", "assign"} THEN People ELSE {None} :
       \E u \in IF do \in {"create", "recreate", "delete"} \cup Interactions
                THEN People ELSE {None} :
          Arrives(c, [do |-> do, prop |-> p, agent |-> g, caller |-> u])
  BY DEF Request
<1>3. PICK p \in IF do = "create" THEN {None} ELSE {q \in Props : Live(q)},
           g \in IF do \in {"create", "recreate", "assign"} THEN People ELSE {None},
           u \in IF do \in {"create", "recreate", "delete"} \cup Interactions
                THEN People ELSE {None} :
          Arrives(c, [do |-> do, prop |-> p, agent |-> g, caller |-> u])
  BY <1>2
<1> DEFINE r == [do |-> do, prop |-> p, agent |-> g, caller |-> u]
<1>4. /\ do \in Ops /\ (p # None => p \in Props /\ Live(p)) /\ (p = None <=> do = "create")
      /\ (g # None <=> do \in Inserting) /\ g \in People \cup {None} /\ u \in People \cup {None}
  BY <1>1, <1>3, PropertiesAssumption DEF Inserting
<1>5. r \in Requests /\ r.do = do /\ r.prop = p /\ r.agent = g
  BY <1>4 DEF Requests
<1>6. Arrives(c, r) /\ pc[c] = "idle"
  BY <1>3 DEF Request
<1> HIDE DEF r
<1>7. Arrived(c, r)
  BY <1>4, <1>5, <1>6 DEF Arrived
<1>8. QED
  BY <1>7

LEMMA ArrivalFrame ==
    ASSUME TypeOK, ControlInv, NEW c \in Calls, NEW r, Arrived(c, r)
    PROVE  /\ op'[c] = r /\ pc'[c] \in {"count", "stats", "load"} /\ pc'[c] = FirstOf(r.do)
           /\ \A d \in Calls \ {c} : op'[d] = op[d] /\ pc'[d] = pc[d]
           /\ UNCHANGED <<row, pic, stat, outbox, seen, reply, run>>
           /\ op[c] = Nothing /\ reply[c] = "none"
           /\ \A d \in Calls : Committed(d)' <=> Committed(d)
           /\ ~Committed(c)
           /\ seen[c].row = NoRow /\ seen[c].img = None
<1>1. ControlOf(c) /\ pc[c] = "idle"
  BY DEF ControlInv, Arrived
<1>2. /\ op' = [op EXCEPT ![c] = r] /\ pc' = [pc EXCEPT ![c] = FirstOf(r.do)]
      /\ UNCHANGED <<row, pic, stat, outbox, seen, reply, run>>
  BY DEF Arrived, Arrives, Goes, tables, routine
<1>3. FirstOf(r.do) \in {"count", "stats", "load"}
  BY DEF FirstOf
<1>4. QED
  BY <1>1, <1>2, <1>3 DEF ControlOf, TypeOK, Committed

LEMMA ArrivalTypes ==
    ASSUME TypeOK, ControlInv, NEW c \in Calls, Request(c)
    PROVE  TypeOK' /\ ControlInv'
<1>1. PICK r : Arrived(c, r)
  BY Arrival
<1>2. TypeOK'
  <2>1. pc' \in [Calls -> {"idle", "count", "stats", "load", "flush", "commit", "refresh", "done"}]
    BY <1>1 DEF TypeOK, Arrived, Arrives, Goes, FirstOf
  <2>2. op' \in [Calls -> Requests] /\ cloud' \subseteq Images /\ met' \subseteq Calls \X Calls
    BY <1>1 DEF TypeOK, Arrived, Arrives, Images
  <2>3. UNCHANGED <<row, pic, stat, outbox, seen, reply, run, lock, scene, faults>>
    BY <1>1 DEF Arrived, Arrives, Goes, tables, routine
  <2>4. QED
    BY <2>1, <2>2, <2>3 DEF TypeOK
<1>3. ControlInv'
  <2>1. \A d \in Calls \ {c} : ControlOf(d)'
    BY <1>1, ArrivalFrame DEF ControlInv, ControlOf, Committed, Inserts
  <2>2. r.do \in Ops /\ (r.prop = None <=> r.do = "create") /\ (r.agent # None <=> r.do \in Inserting)
    BY <1>1 DEF Arrived
  <2>3. ControlOf(c) /\ pc[c] = "idle"
    BY <1>1 DEF ControlInv, Arrived
  <2>4. r.do # "nothing" /\ (pc'[c] = "load" => r.do # "create") /\ (pc'[c] = "stats" => r.do \in Interactions)
        /\ (pc'[c] = "count" => r.do \in {"create", "recreate"})
    BY <1>1, <2>2, ArrivalFrame DEF FirstOf, Ops, Updates, Interactions
  <2>5. ControlOf(c)'
    BY <1>1, <2>2, <2>3, <2>4, ArrivalFrame DEF ControlOf, Committed, Inserts, NoRow
  <2>6. QED
    BY <2>1, <2>5 DEF ControlInv
<1>4. QED
  BY <1>2, <1>3

Routine == \/ \E w \in Workers : Works(w) \/ RunFails(w) \/ WorkerDies(w)
           \/ LockExpires

LEMMA RoutineTypes ==
    ASSUME TypeOK, ControlInv, Routine \/ UNCHANGED vars
    PROVE  /\ UNCHANGED <<row, pic, stat, op, seen, pc, reply, met, scene>>
           /\ TypeOK' /\ ControlInv'
<1>1. UNCHANGED <<row, pic, stat, op, seen, pc, reply, met, scene>>
  BY DEF Routine, Works, RunFails, WorkerDies, LockExpires, vars, tables, routine
<1>2. (faults \in 0 .. scene.faults)' /\ (lock \in BOOLEAN)'
  <2>1. scene.faults \in Nat
    BY PropertiesAssumption DEF TypeOK
  <2>2. faults \in 0 .. scene.faults /\ lock \in BOOLEAN
    BY DEF TypeOK
  <2>3. faults' = faults \/ (faults < scene.faults /\ faults' = faults + 1)
    BY DEF Routine, Works, RunFails, WorkerDies, LockExpires, vars, Faulty
  <2>4. lock' \in {lock, TRUE, FALSE}
    BY DEF Routine, Works, RunFails, WorkerDies, LockExpires, vars, Starts, Selects, Releases, Destroys, CommitsJobs
  <2>5. (faults \in 0 .. scene.faults)'
    BY <1>1, <2>1, <2>2, <2>3
  <2>6. (lock \in BOOLEAN)'
    BY <2>2, <2>4
  <2>7. QED
    BY <2>5, <2>6
<1>3. cloud' \subseteq Images /\ outbox' \subseteq Images \X Calls
  BY DEF TypeOK, Routine, Works, RunFails, WorkerDies, LockExpires, vars, tables,
       Destroys, CommitsJobs
<1>4. (run \in [Workers -> Runs])'
  <2>1. NoRun \in Runs /\ [NoRun EXCEPT !.at = "release"] \in Runs
    BY DEF NoRun, Runs
  <2>2. ASSUME NEW w \in Workers, Starts(w) PROVE run' \in [Workers -> Runs]
    <3>1. [run[w] EXCEPT !.at = "select"] \in Runs
      BY DEF TypeOK, Runs
    <3>2. run' = [run EXCEPT ![w] = [run[w] EXCEPT !.at = "select"]]
      BY <2>2 DEF Starts, TypeOK
    <3>3. QED
      BY <3>1, <3>2 DEF TypeOK
  <2>3. ASSUME NEW w \in Workers, Selects(w) PROVE run' \in [Workers -> Runs]
    <3>1. [at |-> "destroy", jobs |-> outbox, left |-> outbox] \in Runs
      BY DEF TypeOK, Runs
    <3>2. QED
      BY <3>1, <2>3 DEF TypeOK, Selects
  <2>4. ASSUME NEW w \in Workers, NEW job, run' = [run EXCEPT ![w].left = @ \ {job}] PROVE run' \in [Workers -> Runs]
    <3>1. [run[w] EXCEPT !.left = run[w].left \ {job}] \in Runs
      BY DEF TypeOK, Runs
    <3>2. run' = [run EXCEPT ![w] = [run[w] EXCEPT !.left = run[w].left \ {job}]]
      BY <2>4 DEF TypeOK
    <3>3. QED
      BY <3>1, <3>2 DEF TypeOK
  <2>5. ASSUME NEW w \in Workers, CommitsJobs(w) \/ Releases(w) \/ RunFails(w) \/ WorkerDies(w) PROVE run' \in [Workers -> Runs]
    BY <2>1, <2>5 DEF TypeOK, CommitsJobs, Releases, RunFails, WorkerDies
  <2>6. CASE LockExpires \/ UNCHANGED vars
    BY <2>6 DEF LockExpires, vars, TypeOK
  <2>7. QED
    BY <2>2, <2>3, <2>4, <2>5, <2>6 DEF Routine, Works, Destroys
<1>5. TypeOK'
  BY <1>1, <1>2, <1>3, <1>4 DEF TypeOK
<1>6. ControlInv'
  BY <1>1 DEF ControlInv, ControlOf, Committed, Inserts
<1>7. QED
  BY <1>1, <1>5, <1>6

LEMMA FailTypes ==
    ASSUME TypeOK, ControlInv, NEW c \in Calls, Fail(c)
    PROVE  TypeOK' /\ ControlInv' /\ UNCHANGED <<tables, cloud, op, seen, pc, met, run>>
<1>1. UNCHANGED <<tables, cloud, op, seen, pc, met, routine>>
  BY DEF Fail
<1>2. scene.faults \in Nat
  BY PropertiesAssumption DEF TypeOK
<1>3. TypeOK'
  BY <1>1, <1>2 DEF TypeOK, Fail, Faulty, tables, routine
<1>4. Local(c) /\ pc[c] # "idle"
  BY WaitStep DEF Local, Running
<1>5. ControlOf(c)'
  BY <1>1, <1>4 DEF Fail, ControlInv, ControlOf, Committed, Inserts, Running, TypeOK
<1>6. QED
  BY <1>1, <1>3, <1>4, <1>5, ControlLocal DEF routine

LEMMA NextCases ==
    ASSUME [Next]_vars
    PROVE  \/ \E c \in Calls : Request(c) \/ Step(c) \/ Fail(c)
           \/ Routine \/ UNCHANGED vars
BY DEF Next, Routine

LEMMA TypesNext == TypeOK /\ ControlInv /\ [Next]_vars => TypeOK' /\ ControlInv'
<1> SUFFICES ASSUME TypeOK, ControlInv, [Next]_vars PROVE TypeOK' /\ ControlInv'
  OBVIOUS
<1>1. QED
  BY NextCases, ArrivalTypes, TypeStep, ControlStep, FailTypes, RoutineTypes

(* Every variable of properties has its type.                              *)
THEOREM TypeCorrect == Spec => []TypeOK
<1>1. Spec => [](TypeOK /\ ControlInv)
  BY InitTypes, TypesNext, PTL DEF Spec
<1>2. QED
  BY <1>1, PTL

(***************************************************************************)
(* Who is known: properties that calls name were born, rows that are not   *)
(* live are empty, those of stats are of committed interactions, and calls *)
(* that run together have met.                                             *)
(***************************************************************************)
PropsAreBorn == \A c \in Calls : op[c].prop # None => row[op[c].prop].state # "unborn"
RowsAreClear == \A p \in Props : ~Live(p) => row[p] = [NoRow EXCEPT !.state = row[p].state]
StatsAreLive ==
    \A c \in Calls : stat[c] # "none" =>
        op[c].do \in Interactions /\ Committed(c) /\ Live(op[c].prop)
SightsAreOwn ==
    \A c \in Calls : LET d == seen[c].stat IN
        d # None => Committed(d) /\ op[d].prop = op[c].prop /\ op[c].prop # None
RunnersMet == \A c, d \in Calls : c # d /\ Running(c) /\ Running(d) => <<c, d>> \in met
GiversCommitted ==
    \A p \in Props : LET g == row[p].giver IN
        g # None => Committed(g) /\ op[g].do \in Inserting
Base == TypeOK /\ ControlInv /\ PropsAreBorn /\ RowsAreClear /\ StatsAreLive /\ SightsAreOwn
        /\ RunnersMet /\ GiversCommitted

LEMMA BaseInit == Init => Base
<1> SUFFICES ASSUME Init PROVE Base
  OBVIOUS
<1>1. TypeOK /\ ControlInv
  BY InitTypes
<1>2. \A p \in Props : row[p].giver = None /\ (~Live(p) => row[p] = NoRow)
  BY DEF Init, FirstRows, NoRow, Live
<1>3. QED
  BY <1>1, <1>2 DEF Init, Base, PropsAreBorn, RowsAreClear, StatsAreLive, SightsAreOwn,
     RunnersMet, GiversCommitted, Nothing, NoSight, Running, NoRow

LEMMA BaseArrival ==
    ASSUME Base, NEW c \in Calls, Request(c)
    PROVE  Base'
<1> USE DEF Base
<1>1. TypeOK' /\ ControlInv'
  BY ArrivalTypes
<1>2. PICK r : Arrived(c, r)
  BY Arrival
<1>3. r.prop # None => r.prop \in Props /\ Live(r.prop)
  BY <1>2 DEF Arrived
<1>4. PropsAreBorn'
  BY <1>2, <1>3, ArrivalFrame DEF PropsAreBorn, Live
<1>5. RowsAreClear'
  BY <1>2, ArrivalFrame DEF RowsAreClear, Live
<1>6. stat[c] = "none"
  BY <1>2, ArrivalFrame DEF StatsAreLive
<1>7. StatsAreLive'
  BY <1>2, <1>6, ArrivalFrame DEF StatsAreLive, Live
<1>8. seen[c].stat = None
  BY <1>2 DEF ControlInv, ControlOf, Arrived
<1>9. SightsAreOwn'
  BY <1>2, <1>6, <1>8, ArrivalFrame DEF SightsAreOwn, TypeOK, Sights
<1>10. RunnersMet'
  <2>1. met' = met \cup ({d \in Calls : Running(d)} \X {c}) \cup ({c} \X {d \in Calls : Running(d)})
    BY <1>2 DEF Arrived, Arrives
  <2>2. \A d \in Calls \ {c} : Running(d)' <=> Running(d)
    BY <1>2, ArrivalFrame DEF Running
  <2>3. QED
    BY <2>1, <2>2 DEF RunnersMet
<1>11. GiversCommitted'
  BY <1>2, ArrivalFrame DEF GiversCommitted, TypeOK, Rows
<1>12. QED
  BY <1>1, <1>4, <1>5, <1>7, <1>9, <1>10, <1>11

LEMMA StatEffect ==
    ASSUME TypeOK, NEW c \in Calls, Step(c), NEW e \in Calls
    PROVE  \/ stat'[e] = stat[e]
           \/ /\ Delete(c) /\ ~Clashes(c) /\ op[e].prop = op[c].prop /\ stat'[e] = "none"
           \/ /\ Interact(c) /\ Live(op[c].prop) /\ Replies(c, "ok")
              /\ stat'[e] = IF op[c].do = "like" THEN "liked" ELSE "unliked"
              /\ (seen[c].stat = None /\ e = c) \/ (seen[c].stat = e /\ stat[e] # "none")
<1>0. stat \in [Calls -> {"none", "liked", "unliked"}] /\ seen[c].stat \in Calls \cup {None}
  BY DEF TypeOK, Sights
<1>1. CASE Delete(c)
  BY <1>0, <1>1 DEF Delete, tables
<1>2. CASE Interact(c)
  BY <1>0, <1>2 DEF Interact
<1>3. CASE ~Delete(c) /\ ~Interact(c)
  BY <1>3 DEF Step, Count, Stats, LoadProperty, LoadForVerdict, LoadForDelete, LoadAsset, Flush, Insert,
         Rewrite, Verdict, Refresh, tables
<1>4. QED
  BY <1>1, <1>2, <1>3

LEMMA StepLocal ==
    ASSUME TypeOK, ControlInv, NEW c \in Calls, Step(c)
    PROVE  Local(c) /\ (Waits(c) \/ (At(c, "commit") /\ ~Committed(c) /\ Committed(c)' /\ seen' = seen))
<1>1. ASSUME NEW p \in Props, Inserted(c, p)
      PROVE  At(c, "commit") /\ ~Committed(c) /\ Committed(c)' /\ seen' = seen
  BY <1>1 DEF Inserted, At, Committed, Goes, TypeOK
<1>2. QED
  BY <1>1, WaitStep, WriteStep, Insertion DEF Step

LEMMA WroteTypes ==
    ASSUME TypeOK, ControlInv, NEW c \in Calls, NEW p \in Props, Writes(c, p)
    PROVE  /\ op'[c].prop = p /\ (op[c].prop = p \/ op[c].prop = None)
           /\ row'[p].state \in {"live", "deleted"}
           /\ row'[p].state = "deleted" => Deletes(c, p) /\ row'[p] = Gone
           /\ At(c, "commit")
<1>1. CASE Inserted(c, p)
  BY <1>1 DEF Inserted, TypeOK, Requests, NewRow, NoRow
<1>2. CASE Rewrites(c, p)
  BY <1>2 DEF Rewrites, SameBut, Live, Rewrite
<1>3. CASE Judges(c, p)
  BY <1>3 DEF Judges, SameBut, Live, Verdict
<1>4. CASE Deletes(c, p)
  BY <1>4 DEF Deletes, Gone, NoRow, Delete
<1>5. CASE Likes(c, p)
  BY <1>5 DEF Likes, SameBut, Live, Interact
<1>6. QED
  BY <1>1, <1>2, <1>3, <1>4, <1>5 DEF Writes

LEMMA OpEffect ==
    ASSUME TypeOK, ControlInv, NEW c \in Calls, Step(c)
    PROVE  op' = op \/ \E p \in Props : Inserted(c, p)
<1>1. CASE Insert(c)
  BY <1>1, Insertion DEF Waits
<1>2. CASE ~Insert(c)
  BY <1>2, WaitStep, WriteStep DEF Waits, Step
<1>3. QED
  BY <1>1, <1>2

LEMMA SightEffect ==
    ASSUME TypeOK, NEW c \in Calls, Step(c)
    PROVE  \/ seen'[c].stat = seen[c].stat
           \/ Stats(c) /\ (seen'[c].stat = None \/ seen'[c].stat \in StatRows(op[c].prop))
<1>1. CASE Stats(c)
  <2>1. PICK d \in StatRows(op[c].prop) \cup {None} :
           seen' = [seen EXCEPT ![c].stat = d, ![c].liked = d # None /\ stat[d] = "liked"]
    BY <1>1 DEF Stats, StatRows
  <2> DEFINE b == d # None /\ stat[d] = "liked"
  <2>2. seen' = [seen EXCEPT ![c].stat = d, ![c].liked = b]
    BY <2>1
  <2> HIDE DEF b
  <2>3. seen[c] \in Sights /\ seen \in [Calls -> Sights]
    BY DEF TypeOK
  <2>4. seen'[c] = [seen[c] EXCEPT !.stat = d, !.liked = b]
    BY <2>2, <2>3
  <2>5. seen'[c].stat = d
    BY <2>3, <2>4 DEF Sights
  <2>6. QED
    BY <1>1, <2>5
<1>2. CASE ~Stats(c)
  BY <1>2 DEF Step, Count, LoadProperty, LoadForVerdict, LoadForDelete, LoadAsset, Flush, Insert,
         Rewrite, Verdict, Delete, Interact, Refresh, Sees, TypeOK, Sights
<1>3. QED
  BY <1>1, <1>2

LEMMA BaseStep ==
    ASSUME Base, NEW c \in Calls, Step(c)
    PROVE  Base'
<1>0. TypeOK /\ ControlInv
  BY DEF Base
<1>1. TypeOK' /\ ControlInv' /\ Local(c)
  BY <1>0, TypeStep, ControlStep, StepLocal
<1>2. \A q \in Props : row'[q] = row[q] \/ Writes(c, q)
  BY <1>0, RowEffect
<1>3. op' = op \/ \E p \in Props : Inserted(c, p)
  BY <1>0, OpEffect
<1>4. \A e \in Calls : /\ op[e].prop \in Props \cup {None} /\ op'[e].prop \in Props \cup {None}
                       /\ op'[e].do = op[e].do
                       /\ op[e].prop # None => op'[e] = op[e]
                       /\ Committed(e) => Committed(e)'
  BY <1>0, <1>1 DEF TypeOK, Requests, Local, Committed
<1>5. PropsAreBorn'
  <2>1. \A q \in Props : row[q].state # "unborn" => row'[q].state # "unborn"
    BY <1>0, <1>2, WroteTypes
  <2>2. \A p \in Props : Inserted(c, p) => row'[p].state = "live" /\ op'[c].prop = p
    BY <1>0 DEF TypeOK, Requests, Inserted, NewRow, NoRow
  <2>3. \A e \in Calls \ {c} : op'[e] = op[e]
    BY <1>1 DEF Local
  <2>4. QED
    BY <1>3, <1>4, <2>1, <2>2, <2>3 DEF PropsAreBorn, Base
<1>6. RowsAreClear'
  <2>1. \A q \in Props : row'[q].state # "live" => row'[q] = row[q] \/ row'[q] = Gone
    BY <1>0, <1>2, WroteTypes
  <2>2. Gone = [NoRow EXCEPT !.state = Gone.state]
    BY DEF Gone, NoRow
  <2>3. QED
    BY <2>1, <2>2 DEF RowsAreClear, Live, Base
<1>7. StatsAreLive'
  <2>1. \A e \in Calls : op[e].do \in Interactions => op[e].prop \in Props
    BY <1>0, PropKnown DEF Interactions
  <2>2. \A e \in Calls : op[e].prop \in Props /\ Live(op[e].prop) =>
           Live(op[e].prop)' \/ Deletes(c, op[e].prop)
    <3> SUFFICES ASSUME NEW e \in Calls, op[e].prop \in Props, Live(op[e].prop)
                 PROVE  Live(op[e].prop)' \/ Deletes(c, op[e].prop)
      OBVIOUS
    <3>1. op'[e] = op[e]
      BY <1>4, PropertiesAssumption
    <3>2. QED
      BY <1>0, <1>2, <3>1, WroteTypes DEF Live
  <2>3. ASSUME NEW e \in Calls, stat'[e] # "none"
        PROVE  op'[e].do \in Interactions /\ Committed(e)' /\ Live(op[e].prop)'
    <3>1. \/ stat'[e] = stat[e] /\ stat[e] # "none"
          \/ Interact(c) /\ Live(op[c].prop) /\ Replies(c, "ok") /\ (e = c \/ stat[e] # "none")
      BY <1>0, <2>3, StatEffect
    <3>2. op[e].do \in Interactions /\ Committed(e)' /\ Live(op[e].prop)
      <4>1. CASE stat[e] # "none"
        BY <4>1, <1>4 DEF Base, StatsAreLive
      <4>2. CASE Interact(c) /\ Live(op[c].prop) /\ Replies(c, "ok") /\ e = c
        BY <4>2, <1>0 DEF Interact, Replies, Committed, TypeOK
      <4>3. QED
        BY <3>1, <4>1, <4>2
    <3>3. ~Deletes(c, op[e].prop)
      <4>1. CASE Interact(c)
        BY <4>1 DEF Interact, Interactions, Deletes, Delete
      <4>2. CASE ~Interact(c)
        <5>1. stat'[e] = stat[e]
          BY <3>1, <4>2
        <5>2. Delete(c) /\ ~Clashes(c) /\ op[e].prop = op[c].prop => stat'[e] = "none"
          BY DEF Delete
        <5>3. QED
          BY <2>3, <5>2 DEF Deletes
      <4>3. QED
        BY <4>1, <4>2
    <3>4. QED
      BY <1>4, <2>1, <2>2, <3>2, <3>3
  <2>4. \A e \in Calls : op[e].do \in Interactions => op'[e].prop = op[e].prop
    BY <1>4, <2>1, PropertiesAssumption
  <2>5. QED
    BY <1>4, <2>3, <2>4 DEF StatsAreLive, Live
<1>8. SightsAreOwn'
  <2>1. \A d \in Calls : seen'[d].stat \in Calls \cup {None}
    BY <1>1 DEF TypeOK, Sights
  <2> SUFFICES ASSUME NEW d \in Calls, NEW e \in Calls, e = seen'[d].stat
               PROVE  Committed(e)' /\ op'[e].prop = op'[d].prop /\ op'[d].prop # None
    BY <2>1 DEF SightsAreOwn, Committed
  <2>2. Committed(e) /\ op[e].prop = op[d].prop /\ op[d].prop # None
    <3>1. CASE seen'[d].stat = seen[d].stat
      BY <3>1, PropertiesAssumption DEF SightsAreOwn, Base
    <3>2. CASE seen'[d].stat # seen[d].stat
      <4>1. d = c
        BY <3>2, <1>1 DEF Local
      <4>2. e \in StatRows(op[c].prop)
        BY <3>2, <4>1, <1>0, SightEffect, PropertiesAssumption
      <4>3. stat[e] # "none" /\ op[e].prop = op[c].prop
        BY <4>2 DEF StatRows
      <4>4. op[e].prop \in Props
        BY <1>0, <2>1, <4>3, PropKnown DEF Base, StatsAreLive, Interactions
      <4>5. QED
        BY <2>1, <4>1, <4>3, <4>4, PropertiesAssumption DEF Base, StatsAreLive
    <3>3. QED
      BY <3>1, <3>2
  <2>3. QED
    BY <1>4, <2>1, <2>2
<1>9. RunnersMet'
  <2>1. met' = met /\ \A d \in Calls : Running(d)' => Running(d)
    BY <1>1 DEF Local, Running
  <2>2. QED
    BY <2>1 DEF RunnersMet, Base
<1>10. GiversCommitted'
  <2>0. \A p \in Props : row'[p].giver \in Calls \cup {None}
    BY <1>1 DEF TypeOK, Rows
  <2> SUFFICES ASSUME NEW p \in Props, NEW g \in Calls, g = row'[p].giver
               PROVE  Committed(g)' /\ op'[g].do \in Inserting
    BY <2>0 DEF GiversCommitted, Committed
  <2>1. CASE row'[p].giver = row[p].giver
    <3>1. Committed(g) /\ op[g].do \in Inserting
      BY <2>1, PropertiesAssumption DEF Base, GiversCommitted
    <3>2. QED
      BY <1>4, <2>1, <3>1
  <2>2. CASE row'[p].giver # row[p].giver
    <3>1. Writes(c, p) /\ Committed(c)' /\ ControlOf(c)
      BY <1>0, <1>2, <2>2, StepLocal DEF Waits, tables, ControlInv
    <3>2. CASE Inserted(c, p)
      <4>1. row'[p].giver = c
        BY <1>0, <3>2 DEF Inserted, NewRow, NoRow, TypeOK
      <4>2. op[c].do \in Inserting
        BY <3>1, <3>2 DEF Inserted, At, ControlOf
      <4>3. QED
        BY <1>4, <3>1, <4>1, <4>2
    <3>3. CASE Rewrites(c, p)
      <4>1. row'[p].giver = c /\ op[c].agent # None
        BY <2>2, <3>3 DEF Rewrites
      <4>2. QED
        BY <1>4, <3>1, <4>1 DEF ControlOf
    <3>4. CASE Judges(c, p) \/ Likes(c, p)
      BY <2>2, <3>4 DEF Judges, Likes, SameBut
    <3>5. CASE Deletes(c, p)
      BY <3>5, PropertiesAssumption DEF Deletes, Gone, NoRow
    <3>6. QED
      BY <3>1, <3>2, <3>3, <3>4, <3>5 DEF Writes
  <2>3. QED
    BY <2>1, <2>2
<1>11. QED
  BY <1>1, <1>5, <1>6, <1>7, <1>8, <1>9, <1>10 DEF Base

LEMMA BaseNext == Base /\ [Next]_vars => Base'
<1> SUFFICES ASSUME Base, [Next]_vars PROVE Base'
  OBVIOUS
<1>1. TypeOK /\ ControlInv
  BY DEF Base
<1>2. ASSUME NEW c \in Calls, Fail(c) PROVE Base'
  <2>1. TypeOK' /\ ControlInv' /\ UNCHANGED <<tables, op, seen, pc, met>> /\ Local(c)
    BY <1>1, <1>2, FailTypes, WaitStep
  <2>2. \A d \in Calls : /\ Committed(d) => Committed(d)'
                         /\ Running(d)' => Running(d)
    BY <2>1 DEF Local, Running, Committed
  <2>3. GiversCommitted'
    BY <1>1, <2>1, <2>2 DEF GiversCommitted, Base, tables, TypeOK, Rows
  <2>4. SightsAreOwn'
    BY <1>1, <2>1, <2>2 DEF SightsAreOwn, Base, tables, TypeOK, Sights
  <2>5. StatsAreLive' /\ RunnersMet'
    BY <2>1, <2>2 DEF StatsAreLive, RunnersMet, Base, tables, Live
  <2>6. QED
    BY <2>1, <2>3, <2>4, <2>5 DEF Base, PropsAreBorn, RowsAreClear, tables, Live
<1>3. ASSUME Routine \/ UNCHANGED vars PROVE Base'
  <2>1. TypeOK' /\ ControlInv' /\ UNCHANGED <<row, pic, stat, op, seen, pc, reply, met>>
    BY <1>1, <1>3, RoutineTypes
  <2>2. QED
    BY <2>1 DEF Base, PropsAreBorn, RowsAreClear, StatsAreLive, SightsAreOwn, RunnersMet,
       GiversCommitted, Live, Committed, Running
<1>4. QED
  BY <1>2, <1>3, BaseArrival, BaseStep, NextCases

(***************************************************************************)
(* The limit of the beta launch.                                           *)
(***************************************************************************)
(* Why a set of properties of one agent may be larger than the limit.      *)
Excuse(S) ==
    \/ \E p, q \in S : <<row[p].giver, row[q].giver>> \in met
    \/ \E p \in S : row[p].giver # None /\ op[row[p].giver].do # "create"

(* What an agent has when a creation is about to be committed, without the *)
(* properties of calls that the creation has met.                          *)
Counted(c) == {p \in Owned(row, op[c].agent) : <<row[p].giver, c>> \notin met}

SetsExcused ==
    \A g \in People \ Unlimited : \A S \in SUBSET Owned(row, g) :
        Cardinality(S) > Limit => Excuse(S)
RoomAtCommit ==
    \A c \in Calls :
        At(c, "commit") /\ op[c].do = "create" /\ op[c].agent \notin Unlimited =>
            Cardinality(Counted(c)) < Limit
LimitInv == Base /\ SetsExcused /\ RoomAtCommit

LEMMA OwnedFinite ==
    ASSUME NEW S \in SUBSET Props
    PROVE  /\ IsFiniteSet(S) /\ Cardinality(S) \in Nat
           /\ \A T \in SUBSET S : Cardinality(T) <= Cardinality(S)
<1>1. IsFiniteSet(S)
  BY FinitelyMany, FS_Subset
<1>2. QED
  BY <1>1, FS_CardinalityType, FS_Subset

LEMMA LimitInit == Init => LimitInv
<1> SUFFICES ASSUME Init PROVE LimitInv
  OBVIOUS
<1>1. Base /\ row = FirstRows
  BY BaseInit DEF Init
<1>2. SetsExcused
  <2> SUFFICES ASSUME NEW g \in People \ Unlimited, NEW S \in SUBSET Owned(row, g)
               PROVE  ~(Cardinality(S) > Limit)
    BY DEF SetsExcused
  <2>1. Owned(row, g) \in SUBSET Props /\ S \in SUBSET Props
    BY DEF Owned
  <2>2. Cardinality(Owned(row, g)) <= Limit /\ Limit \in Nat
    BY <1>1, PropertiesAssumption
  <2>3. QED
    BY <2>1, <2>2, OwnedFinite
<1>3. RoomAtCommit
  BY DEF RoomAtCommit, Init, At
<1>4. QED
  BY <1>1, <1>2, <1>3 DEF LimitInv

(* A property that is live after a step was so before, with the same agent *)
(* and giver, or the call of the step gave it.                             *)
LEMMA GiverEffect ==
    ASSUME TypeOK, ControlInv, NEW c \in Calls, Step(c)
    PROVE  /\ met' = met
           /\ \A q \in Props : row'[q].state = "live" =>
                 \/ /\ row[q].state = "live" /\ row'[q].giver = row[q].giver
                    /\ row'[q].agent = row[q].agent
                 \/ /\ row'[q].giver = c /\ Running(c)
                    /\ op[c].do = "create" => Inserted(c, q)
           /\ \A p \in Props : Inserted(c, p) =>
                 /\ \A q \in Props \ {p} : row'[q] = row[q]
                 /\ At(c, "commit") /\ row'[p].agent = op[c].agent
<1>1. Local(c)
  BY StepLocal
<1>2. \A p \in Props : Inserted(c, p) =>
                 /\ \A q \in Props \ {p} : row'[q] = row[q]
                 /\ At(c, "commit") /\ row'[p].agent = op[c].agent /\ row'[p].giver = c
  BY DEF Inserted, TypeOK, NewRow, NoRow
<1>3. ASSUME NEW q \in Props, row'[q].state = "live"
      PROVE  \/ /\ row[q].state = "live" /\ row'[q].giver = row[q].giver
                /\ row'[q].agent = row[q].agent
             \/ row'[q].giver = c /\ (op[c].do = "create" => Inserted(c, q))
  <2>1. row'[q] = row[q] \/ Writes(c, q)
    BY RowEffect
  <2>2. CASE Rewrites(c, q)
    BY <2>2 DEF Rewrites, Rewrite, NewContent, Updates, Live
  <2>3. CASE Judges(c, q) \/ Likes(c, q)
    BY <2>3 DEF Judges, Likes, SameBut, Live
  <2>4. CASE Deletes(c, q)
    BY <1>3, <2>4 DEF Deletes, Gone, NoRow
  <2>5. QED
    BY <1>2, <1>3, <2>1, <2>2, <2>3, <2>4 DEF Writes
<1>4. QED
  BY <1>1, <1>2, <1>3 DEF Local

LEMMA ReachesCommit ==
    ASSUME TypeOK, ControlInv, NEW c \in Calls, Step(c), At(c, "commit")'
    PROVE  /\ UNCHANGED <<tables, op>>
           /\ \/ Sees(c) /\ Live(op[c].prop) /\ op[c].prop \in Props /\ op[c].do # "create" /\ At(c, "load")
              \/ UNCHANGED seen /\ At(c, "flush") /\ ~AtLimit(op[c].agent) /\ Inserts(c)
<1>1. CASE Count(c) \/ Stats(c) \/ Refresh(c)
  BY <1>1 DEF Count, Stats, Refresh, At, Goes, Replies, TypeOK
<1>2. CASE Insert(c) \/ Rewrite(c) \/ Verdict(c) \/ Delete(c) \/ Interact(c)
  BY <1>2 DEF Insert, Rewrite, Verdict, Delete, Interact, At, Goes, Replies, TypeOK
<1>3. CASE Flush(c)
  <2>1. Inserts(c)
    BY <1>3 DEF Flush, At, ControlInv, ControlOf, Inserts, NoRow
  <2>2. QED
    BY <1>3, <2>1 DEF Flush, At, Goes, Replies, TypeOK
<1>4. CASE LoadProperty(c) \/ LoadForVerdict(c) \/ LoadForDelete(c) \/ LoadAsset(c)
  <2>1. op[c].do \notin {"nothing", "create"}
    BY <1>4 DEF LoadProperty, LoadForVerdict, LoadForDelete, LoadAsset, NewContent, Updates, Interactions
  <2>2. op[c].prop \in Props
    BY <2>1, PropKnown
  <2>3. QED
    BY <1>4, <2>1, <2>2 DEF LoadProperty, LoadForVerdict, LoadForDelete, LoadAsset, At, Goes, Replies, TypeOK
<1>5. QED
  BY <1>1, <1>2, <1>3, <1>4 DEF Step

LEMMA LimitStep ==
    ASSUME LimitInv, NEW c \in Calls, Step(c)
    PROVE  SetsExcused' /\ RoomAtCommit'
<1>0. TypeOK /\ ControlInv /\ Local(c) /\ met' = met
  BY StepLocal DEF LimitInv, Base, Local
<1>1. \A d \in Calls : op'[d].do = op[d].do /\ op'[d].agent = op[d].agent
  BY <1>0 DEF Local
<1>2. \A q \in Props : row'[q].state = "live" =>
         \/ row[q].state = "live" /\ row'[q].giver = row[q].giver /\ row'[q].agent = row[q].agent
         \/ row'[q].giver = c /\ Running(c) /\ (op[c].do = "create" => Inserted(c, q))
  BY <1>0, GiverEffect
<1>3. SetsExcused'
  <2> SUFFICES ASSUME NEW g \in People \ Unlimited, NEW S \in SUBSET Owned(row', g),
                      Cardinality(S) > Limit
               PROVE  Excuse(S)'
    BY DEF SetsExcused, Owned
  <2>1. \A q \in S : q \in Props /\ row'[q].state = "live" /\ row'[q].agent = g
    BY DEF Owned
  <2>2. CASE \A q \in S : row[q].state = "live" /\ row'[q].giver = row[q].giver /\ row'[q].agent = row[q].agent
    <3>1. S \in SUBSET Owned(row, g)
      BY <2>1, <2>2 DEF Owned
    <3>2. Excuse(S)
      BY <3>1 DEF LimitInv, SetsExcused
    <3>3. \A q \in S : row[q].giver \in Calls \cup {None}
      BY <1>0, <2>1 DEF TypeOK, Rows
    <3>4. QED
      BY <1>0, <1>1, <2>2, <3>2, <3>3 DEF Excuse
  <2>3. CASE \E p \in S : row'[p].giver = c /\ (op[c].do = "create" => Inserted(c, p))
    <3>1. PICK p \in S : row'[p].giver = c /\ (op[c].do = "create" => Inserted(c, p))
      BY <2>3
    <3>2. CASE op[c].do # "create"
      BY <1>1, <3>1, <3>2, PropertiesAssumption DEF Excuse
    <3>3. CASE op[c].do = "create"
      <4>1. /\ p \in Props /\ \A q \in Props \ {p} : row'[q] = row[q]
            /\ At(c, "commit") /\ op[c].agent = g
        BY <1>0, <2>1, <3>1, <3>3, GiverEffect
      <4>2. Cardinality(Counted(c)) < Limit
        BY <3>3, <4>1 DEF LimitInv, RoomAtCommit
      <4>3. Cardinality(S \ {p}) = Cardinality(S) - 1 /\ Cardinality(S) \in Nat
        <5>1. IsFiniteSet(S) /\ Cardinality(S) \in Nat
          BY <2>1, OwnedFinite
        <5>2. QED
          BY <5>1, <3>1, FS_RemoveElement
      <4>4. Counted(c) \in SUBSET Props
        BY DEF Counted, Owned
      <4>5. ~(S \ {p} \subseteq Counted(c))
        <5>1. Cardinality(Counted(c)) \in Nat /\ Limit \in Nat
          BY <4>4, OwnedFinite, PropertiesAssumption
        <5>2. SUFFICES ASSUME S \ {p} \subseteq Counted(c) PROVE FALSE
          OBVIOUS
        <5>3. Cardinality(S \ {p}) <= Cardinality(Counted(c))
          BY <4>4, <5>2, OwnedFinite
        <5>4. QED
          BY <4>2, <4>3, <5>1, <5>3
      <4>6. PICK q \in S \ {p} : q \notin Counted(c)
        BY <4>5
      <4>7. <<row'[q].giver, row'[p].giver>> \in met'
        BY <1>0, <2>1, <3>1, <4>1, <4>6 DEF Counted, Owned
      <4>8. QED
        BY <4>6, <4>7 DEF Excuse
    <3>4. QED
      BY <3>2, <3>3
  <2>4. QED
    BY <1>2, <2>1, <2>2, <2>3
<1>4. RoomAtCommit'
  <2> SUFFICES ASSUME NEW d \in Calls, At(d, "commit")', op[d].do = "create", op[d].agent \notin Unlimited
               PROVE  Cardinality(Counted(d)') < Limit
    BY <1>1 DEF RoomAtCommit
  <2> DEFINE old == Counted(d)
             now == Counted(d)'
  <2>1. now \in SUBSET Props /\ old \in SUBSET Props
    BY DEF Counted, Owned
  <2>2. Limit \in Nat
    BY PropertiesAssumption
  <2>3. CASE d = c
    <3>1. UNCHANGED <<row, op>> /\ ~AtLimit(op[c].agent)
      BY <1>0, <2>3, ReachesCommit DEF tables
    <3>2. Owned(row, op[c].agent) \in SUBSET Props /\ now \in SUBSET Owned(row, op[c].agent)
      BY <2>3, <3>1 DEF Counted, Owned
    <3>3. Cardinality(Owned(row, op[c].agent)) < Limit
      BY <2>2, <2>3, <3>1, <3>2, OwnedFinite DEF AtLimit
    <3>4. Cardinality(now) <= Cardinality(Owned(row, op[c].agent)) /\ Cardinality(now) \in Nat
          /\ Cardinality(Owned(row, op[c].agent)) \in Nat
      BY <2>1, <3>2, OwnedFinite
    <3> HIDE DEF now, old
    <3>5. Cardinality(now) < Limit
      BY <2>2, <3>3, <3>4
    <3>6. QED
      BY <3>5 DEF now
  <2>4. CASE d # c
    <3>1. At(d, "commit")
      BY <1>0, <2>4 DEF Local, At
    <3>2. Running(c) => <<c, d>> \in met
      BY <2>4, <3>1 DEF LimitInv, Base, RunnersMet, Running, At
    <3>3. now \subseteq old
      BY <1>0, <1>1, <1>2, <3>2 DEF Counted, Owned
    <3>4. Cardinality(old) < Limit
      BY <3>1 DEF LimitInv, RoomAtCommit
    <3>5. Cardinality(now) <= Cardinality(old) /\ Cardinality(now) \in Nat /\ Cardinality(old) \in Nat
      BY <2>1, <3>3, OwnedFinite
    <3> HIDE DEF now, old
    <3>6. Cardinality(now) < Limit
      BY <2>2, <3>4, <3>5
    <3>7. QED
      BY <3>6 DEF now
  <2>5. QED
    BY <2>3, <2>4
<1>5. QED
  BY <1>3, <1>4

LEMMA LimitNext == LimitInv /\ [Next]_vars => LimitInv'
<1> SUFFICES ASSUME LimitInv, [Next]_vars PROVE LimitInv'
  OBVIOUS
<1>0. Base' /\ TypeOK /\ ControlInv
  BY BaseNext DEF LimitInv, Base
<1>1. ASSUME NEW c \in Calls, Request(c) PROVE SetsExcused' /\ RoomAtCommit'
  <2>1. PICK r : Arrived(c, r)
    BY <1>0, <1>1, Arrival
  <2>2. row' = row /\ met \subseteq met' /\ ~Committed(c) /\ pc'[c] # "commit" /\ UNCHANGED reply
        /\ \A d \in Calls \ {c} : op'[d] = op[d] /\ pc'[d] = pc[d]
    BY <1>0, <2>1, ArrivalFrame DEF Arrived, Arrives
  <2>3. \A p \in Props : row[p].giver # c /\ row[p].giver \in Calls \cup {None}
    BY <1>0, <2>2, PropertiesAssumption DEF LimitInv, Base, GiversCommitted, TypeOK, Rows
  <2>4. \A S \in SUBSET Props : Excuse(S) => Excuse(S)'
    BY <2>2, <2>3 DEF Excuse
  <2>5. SetsExcused'
    BY <2>2, <2>4 DEF LimitInv, SetsExcused, Owned
  <2>6. ASSUME NEW d \in Calls, At(d, "commit")' PROVE At(d, "commit") /\ op'[d] = op[d] /\ Counted(d)' \subseteq Counted(d)
    BY <2>2, <2>6 DEF At, Counted, Owned
  <2>7. \A d \in Calls : Counted(d) \in SUBSET Props
    BY DEF Counted, Owned
  <2>8. ASSUME NEW d \in Calls, At(d, "commit")', op'[d].do = "create", op'[d].agent \notin Unlimited
        PROVE  Cardinality(Counted(d)') < Limit
    <3> DEFINE old == Counted(d)
               now == Counted(d)'
    <3>1. Cardinality(old) < Limit
      BY <2>6, <2>8 DEF LimitInv, RoomAtCommit
    <3>2. Cardinality(now) <= Cardinality(old) /\ Cardinality(now) \in Nat /\ Cardinality(old) \in Nat
      BY <2>6, <2>7, <2>8, OwnedFinite
    <3>3. Limit \in Nat
      BY PropertiesAssumption
    <3> HIDE DEF now, old
    <3>4. Cardinality(now) < Limit
      BY <3>1, <3>2, <3>3
    <3>5. QED
      BY <3>4 DEF now
  <2>9. QED
    BY <2>5, <2>8 DEF RoomAtCommit
<1>2. ASSUME NEW c \in Calls, Fail(c) PROVE SetsExcused' /\ RoomAtCommit'
  <2>1. UNCHANGED <<row, op, pc, met>> /\ (\A d \in Calls : reply'[d] = "none" => reply[d] = "none")
    BY <1>0, <1>2, FailTypes DEF tables, Fail, TypeOK
  <2>2. QED
    BY <2>1 DEF LimitInv, SetsExcused, RoomAtCommit, Excuse, Counted, At, Owned
<1>3. ASSUME Routine \/ UNCHANGED vars PROVE SetsExcused' /\ RoomAtCommit'
  <2>1. UNCHANGED <<row, op, pc, met, reply>>
    BY <1>0, <1>3, RoutineTypes
  <2>2. QED
    BY <2>1 DEF LimitInv, SetsExcused, RoomAtCommit, Excuse, Counted, At, Owned
<1>4. QED
  BY <1>0, <1>1, <1>2, <1>3, LimitStep, NextCases DEF LimitInv

(* An agent of the beta launch passes the limit only with properties       *)
(* created at the same time, or given by an update.                        *)
THEOREM LimitPassed == Spec => []LimitPassedProperly
<1>1. Spec => []LimitInv
  BY LimitInit, LimitNext, PTL DEF Spec
<1>2. LimitInv => LimitPassedProperly
  <2> SUFFICES ASSUME LimitInv, NEW g \in People \ Unlimited, Cardinality(Owned(row, g)) > Limit
               PROVE  LET givers == {row[p].giver : p \in Owned(row, g)} \ {None} IN
                      Met(givers, givers) \/ \E c \in givers : op[c].do # "create"
    BY DEF LimitPassedProperly
  <2>1. Excuse(Owned(row, g))
    BY DEF LimitInv, SetsExcused
  <2>2. met \subseteq Calls \X Calls /\ None \notin Calls
    BY PropertiesAssumption DEF LimitInv, Base, TypeOK
  <2>3. QED
    BY <2>1, <2>2 DEF Excuse, Met
<1>3. QED
  BY <1>1, <1>2, PTL

(***************************************************************************)
(* The verification.                                                       *)
(***************************************************************************)
Verifies(v, p) == op[v].prop = p /\ op[v].do = "verify" /\ Committed(v)

(* What a call about to commit knows of the row: who wrote the content and *)
(* whether it is verified, but for what calls did that it has met.         *)
ContentKnown ==
    \A c \in Calls : LET p == op[c].prop IN
        At(c, "commit") /\ ~Inserts(c) /\ Live(p) =>
            /\ row[p].by = seen[c].row.by \/ <<row[p].by, c>> \in met
            /\ row[p].verified =>
                  \/ seen[c].row.verified
                  \/ \E v \in Calls : Verifies(v, p) /\ <<c, v>> \in met
VerdictInv == Base /\ ContentKnown /\ VerifiedWasSeen

LEMMA VerdictInit == Init => VerdictInv
<1>1. Init => \A p \in Props : ~row[p].verified
  <2> SUFFICES ASSUME Init, NEW p \in Props PROVE ~row[p].verified
    OBVIOUS
  <2>1. row[p] = NoRow \/ row[p] = [NoRow EXCEPT !.state = "live", !.agent = agentOf[p], !.cover = p]
    BY DEF Init, FirstRows
  <2>2. NoRow.verified = FALSE
    BY DEF NoRow
  <2>3. NoRow \in Rows
    BY DEF NoRow, Rows
  <2>4. CASE row[p] = [NoRow EXCEPT !.state = "live", !.agent = agentOf[p], !.cover = p]
    <3>1. row[p].verified = NoRow.verified
      BY <2>3, <2>4 DEF Rows
    <3>2. QED
      BY <2>2, <3>1
  <2>5. CASE row[p] = NoRow
    BY <2>2, <2>5
  <2>6. QED
    BY <2>1, <2>4, <2>5
<1>2. Init => ContentKnown
  BY DEF Init, ContentKnown, At
<1>3. QED
  BY <1>1, <1>2, BaseInit DEF VerdictInv, VerifiedWasSeen

LEMMA Commits ==
    ASSUME Base, NEW c \in Calls, Step(c)
    PROVE  /\ \A d \in Calls : /\ Committed(d) => Committed(d)' /\ op'[d] = op[d] /\ seen'[d] = seen[d]
                               /\ op'[d].do = op[d].do
                               /\ op[d].prop # None => op'[d].prop = op[d].prop
                               /\ d # c => op'[d] = op[d] /\ seen'[d] = seen[d] /\ (At(d, "commit")' <=> At(d, "commit"))
                               /\ d # c /\ At(d, "commit") => <<c, d>> \in met /\ <<d, c>> \in met
           /\ met' = met
           /\ row' # row => Committed(c)'
           /\ \A v \in Calls, p \in Props : Verifies(v, p) => Verifies(v, p)'
<1>1. Local(c) /\ (row' # row => Committed(c)')
  BY StepLocal DEF Base, Waits, tables
<1>2. ControlInv
  BY DEF Base
<1>3. \A d \in Calls : Committed(d) => op[d].prop # None /\ pc[d] \notin {"stats", "load"}
  BY <1>2 DEF ControlInv, ControlOf, Committed, Nothing, Ops, Updates, Interactions
<1>4. \A d \in Calls \ {c} : At(d, "commit") => <<c, d>> \in met /\ <<d, c>> \in met
  BY <1>1 DEF Base, RunnersMet, Local, At, Running
<1>5. \A d \in Calls : /\ Committed(d) => Committed(d)' /\ op'[d] = op[d] /\ seen'[d] = seen[d]
                       /\ op'[d].do = op[d].do
                       /\ op[d].prop # None => op'[d].prop = op[d].prop
                       /\ d # c => op'[d] = op[d] /\ seen'[d] = seen[d] /\ (At(d, "commit")' <=> At(d, "commit"))
  BY <1>1, <1>3 DEF Local, Committed, At
<1>6. \A v \in Calls, p \in Props : Verifies(v, p) => Verifies(v, p)'
  BY <1>5 DEF Verifies
<1>7. QED
  BY <1>1, <1>4, <1>5, <1>6 DEF Local

(* The verification and the content of a row, when a step changes it.      *)
LEMMA ContentEffect ==
    ASSUME TypeOK, ControlInv, NEW c \in Calls, Step(c), NEW p \in Props, row'[p].state = "live"
    PROVE  \/ row'[p] = row[p]
           \/ Inserted(c, p) /\ row'[p].by = c /\ row'[p].verified = FALSE
           \/ /\ Rewrites(c, p)
              /\ At(c, "commit") /\ ~Inserts(c) /\ op[c].prop = p /\ Live(p)
           \/ /\ op[c].do = "verify" /\ row'[p].by = row[p].by
              /\ At(c, "commit") /\ ~Inserts(c) /\ op[c].prop = p /\ Live(p)
           \/ Live(p) /\ row'[p].by = row[p].by /\ (row'[p].verified => row[p].verified)
<1>1. row'[p] = row[p] \/ Writes(c, p)
  BY RowEffect
<1>2. CASE Inserted(c, p)
  BY <1>2 DEF Inserted, TypeOK, NewRow, NoRow
<1>3. CASE Rewrites(c, p)
  BY <1>3 DEF Rewrites, Rewrite
<1>4. CASE Judges(c, p)
  <2>1. ControlOf(c)
    BY DEF ControlInv
  <2>2. QED
    BY <1>4, <2>1 DEF Judges, Verdict, SameBut, ControlOf, Inserting, At
<1>5. CASE Likes(c, p)
  BY <1>5 DEF Likes, SameBut
<1>6. CASE Deletes(c, p)
  BY <1>6 DEF Deletes, Gone, NoRow
<1>7. QED
  BY <1>1, <1>2, <1>3, <1>4, <1>5, <1>6 DEF Writes

LEMMA VerdictStep ==
    ASSUME VerdictInv, NEW c \in Calls, Step(c)
    PROVE  ContentKnown' /\ VerifiedWasSeen'
<1>0. Base /\ TypeOK /\ ControlInv
  BY DEF VerdictInv, Base
<1>1. ContentKnown'
  <2> SUFFICES ASSUME NEW d \in Calls, NEW p, p = op'[d].prop, At(d, "commit")', ~Inserts(d)', Live(p)'
               PROVE  /\ row'[p].by = seen'[d].row.by \/ <<row'[p].by, d>> \in met'
                      /\ row'[p].verified =>
                            \/ seen'[d].row.verified
                            \/ \E v \in Calls : Verifies(v, p)' /\ <<d, v>> \in met'
    BY DEF ContentKnown, Verifies, Committed, Live
  <2>1. CASE d = c
    <3>1. Sees(c) /\ UNCHANGED <<row, op>> /\ p = op[c].prop
      BY <1>0, <2>1, ReachesCommit DEF Inserts, tables
    <3>2. seen'[c].row = row[p]
      BY <1>0, <3>1 DEF Sees, TypeOK, Sights
    <3>3. QED
      BY <2>1, <3>1, <3>2
  <2>2. CASE d # c
    <3>1. /\ At(d, "commit") /\ ~Inserts(d) /\ p = op[d].prop /\ seen'[d] = seen[d]
          /\ <<c, d>> \in met /\ <<d, c>> \in met /\ met' = met
      BY <1>0, <2>2, Commits DEF Inserts
    <3>2. p \in Props
      <4>1. op[d].do \notin {"nothing", "create"}
        BY <1>0, <3>1 DEF ControlInv, ControlOf, At, Ops, Updates, Interactions, Inserts
      <4>2. QED
        BY <1>0, <3>1, <4>1, PropKnown
    <3>3. Live(p) =>
             /\ row[p].by = seen[d].row.by \/ <<row[p].by, d>> \in met
             /\ row[p].verified =>
                   \/ seen[d].row.verified
                   \/ \E v \in Calls : Verifies(v, p) /\ <<d, v>> \in met
      BY <3>1 DEF VerdictInv, ContentKnown
    <3>4. \A v \in Calls : Verifies(v, p) => Verifies(v, p)'
      BY <1>0, <3>2, Commits
    <3>5. row'[p].state = "live"
      BY DEF Live
    <3>6. CASE row'[p] = row[p]
      BY <3>1, <3>3, <3>4, <3>5, <3>6 DEF Live
    <3>7. CASE Inserted(c, p) /\ row'[p].by = c /\ row'[p].verified = FALSE
      BY <3>1, <3>7
    <3>8. CASE Rewrites(c, p) /\ Live(p)
      BY <3>1, <3>3, <3>4, <3>8 DEF Rewrites
    <3>9. CASE row'[p] # row[p] /\ op[c].do = "verify" /\ row'[p].by = row[p].by /\ op[c].prop = p /\ Live(p)
      <4>1. Committed(c)' /\ op'[c].do = "verify" /\ op'[c].prop = p
        BY <1>0, <3>2, <3>9, Commits, PropertiesAssumption
      <4>2. Verifies(c, p)'
        BY <4>1 DEF Verifies
      <4>3. QED
        BY <3>1, <3>3, <3>9, <4>2
    <3>10. CASE Live(p) /\ row'[p].by = row[p].by /\ (row'[p].verified => row[p].verified)
      BY <3>1, <3>3, <3>4, <3>10
    <3>11. QED
      BY <1>0, <3>2, <3>5, <3>6, <3>7, <3>8, <3>9, <3>10, ContentEffect
  <2>3. QED
    BY <2>1, <2>2
<1>2. VerifiedWasSeen'
  <2>1. \A p \in Props : row'[p].by \in Calls \cup {None}
    BY BaseStep, <1>0 DEF Base, TypeOK, Rows
  <2> SUFFICES ASSUME NEW p \in Props, NEW u \in Calls \cup {None}, u = row'[p].by,
                      row'[p].state = "live", row'[p].verified
               PROVE  \/ \E v \in Calls : Verifies(v, p)' /\ seen'[v].row.by = u
                      \/ \E v \in Calls : Verifies(v, p)' /\ <<u, v>> \in met'
                      \/ u # None /\ op'[u].do = "recreate"
    BY <2>1 DEF VerifiedWasSeen, About, Met, Verifies, Live, Committed
  <2>2. Live(p) /\ row[p].verified /\ row[p].by = u =>
           \/ \E v \in Calls : Verifies(v, p) /\ seen[v].row.by = u
           \/ \E v \in Calls : Verifies(v, p) /\ <<u, v>> \in met
           \/ u # None /\ op[u].do = "recreate"
    BY DEF VerdictInv, VerifiedWasSeen, About, Met, Verifies
  <2>3. /\ \A v \in Calls : Verifies(v, p) => Verifies(v, p)' /\ seen'[v] = seen[v]
        /\ \A v \in Calls : op'[v].do = op[v].do
        /\ met' = met
    BY <1>0, Commits DEF Verifies
  <2>4. CASE Live(p) /\ row'[p].by = row[p].by /\ (row'[p].verified => row[p].verified)
    BY <2>2, <2>3, <2>4
  <2>5. CASE row'[p] = row[p]
    BY <2>4, <2>5 DEF Live
  <2>6. ASSUME At(c, "commit"), ~Inserts(c), op[c].prop = p, Live(p)
        PROVE  /\ row[p].by = seen[c].row.by \/ <<row[p].by, c>> \in met
               /\ row[p].verified =>
                   \/ seen[c].row.verified
                   \/ \E v \in Calls : Verifies(v, p) /\ <<c, v>> \in met
    BY <2>6 DEF VerdictInv, ContentKnown
  <2>7. CASE /\ Rewrites(c, p)
             /\ At(c, "commit") /\ ~Inserts(c) /\ op[c].prop = p /\ Live(p)
    <3>1. u = c /\ row[p].verified /\ (op[c].do = "recreate" \/ ~seen[c].row.verified)
      BY <2>7 DEF Rewrites
    <3>2. QED
      BY <2>3, <2>6, <2>7, <3>1, PropertiesAssumption
  <2>8. CASE /\ row'[p] # row[p] /\ op[c].do = "verify" /\ row'[p].by = row[p].by
             /\ At(c, "commit") /\ ~Inserts(c) /\ op[c].prop = p /\ Live(p)
    <3>1. Committed(c)' /\ op'[c].do = "verify" /\ op'[c].prop = p
      BY <1>0, <2>8, Commits, PropertiesAssumption
    <3>2. Verifies(c, p)' /\ seen'[c] = seen[c]
      BY <1>0, <2>8, <3>1, StepLocal DEF Verifies, Local, At
    <3>3. QED
      BY <2>3, <2>6, <2>8, <3>2
  <2>9. QED
    BY <1>0, <2>4, <2>5, <2>7, <2>8, ContentEffect
<1>3. QED
  BY <1>1, <1>2

LEMMA VerdictNext == VerdictInv /\ [Next]_vars => VerdictInv'
<1> SUFFICES ASSUME VerdictInv, [Next]_vars PROVE VerdictInv'
  OBVIOUS
<1>0. Base' /\ Base /\ TypeOK /\ ControlInv
  BY BaseNext DEF VerdictInv, Base
<1>1. ASSUME NEW c \in Calls, Request(c) PROVE ContentKnown' /\ VerifiedWasSeen'
  <2>1. PICK r : Arrived(c, r)
    BY <1>0, <1>1, Arrival
  <2>2. row' = row /\ seen' = seen /\ met \subseteq met' /\ ~Committed(c) /\ pc'[c] # "commit" /\ UNCHANGED reply
        /\ (\A d \in Calls \ {c} : op'[d] = op[d] /\ pc'[d] = pc[d])
        /\ op[c] = Nothing
        /\ (\A d \in Calls : Committed(d)' <=> Committed(d))
    BY <1>0, <2>1, ArrivalFrame DEF Arrived, Arrives
  <2>3. \A v \in Calls : \A p : Verifies(v, p) => Verifies(v, p)'
    BY <2>2 DEF Verifies
  <2>4. ContentKnown'
    <3> SUFFICES ASSUME NEW d \in Calls, NEW p, p = op'[d].prop, At(d, "commit")', ~Inserts(d)', Live(p)'
                 PROVE  /\ row'[p].by = seen'[d].row.by \/ <<row'[p].by, d>> \in met'
                        /\ row'[p].verified =>
                              \/ seen'[d].row.verified
                              \/ \E v \in Calls : Verifies(v, p)' /\ <<d, v>> \in met'
      BY DEF ContentKnown, Verifies, Committed, Live
    <3>1. At(d, "commit") /\ ~Inserts(d) /\ p = op[d].prop /\ Live(p)
      BY <2>2 DEF At, Inserts, Live
    <3>2. QED
      BY <2>2, <2>3, <3>1 DEF VerdictInv, ContentKnown
  <2>5. VerifiedWasSeen'
    <3>1. \A p \in Props : row[p].by \in Calls \cup {None}
      BY <1>0 DEF TypeOK, Rows
    <3> SUFFICES ASSUME NEW p \in Props, NEW u \in Calls \cup {None}, u = row[p].by,
                        row[p].state = "live", row[p].verified
                 PROVE  \/ \E v \in Calls : Verifies(v, p)' /\ seen'[v].row.by = u
                        \/ \E v \in Calls : Verifies(v, p)' /\ <<u, v>> \in met'
                        \/ u # None /\ op'[u].do = "recreate"
      BY <2>2, <3>1 DEF VerifiedWasSeen, About, Met, Verifies, Live, Committed
    <3>2. \/ \E v \in Calls : Verifies(v, p) /\ seen[v].row.by = u
          \/ \E v \in Calls : Verifies(v, p) /\ <<u, v>> \in met
          \/ u # None /\ op[u].do = "recreate"
      BY DEF VerdictInv, VerifiedWasSeen, About, Met, Verifies, Live
    <3>3. op[c].do # "recreate"
      BY <2>2 DEF Nothing
    <3>4. QED
      BY <2>2, <2>3, <3>2, <3>3
  <2>6. QED
    BY <2>4, <2>5
<1>2. ASSUME NEW c \in Calls, Fail(c) PROVE ContentKnown' /\ VerifiedWasSeen'
  <2>1. UNCHANGED <<row, op, pc, met, seen>> /\ (\A d \in Calls : reply'[d] = "none" => reply[d] = "none")
    BY <1>0, <1>2, FailTypes DEF tables, Fail, TypeOK
  <2>2. \A d \in Calls : Committed(d) => Committed(d)'
    BY <1>0, <1>2, <2>1, WaitStep DEF Local, Committed
  <2>3. QED
    BY <2>1, <2>2 DEF VerdictInv, ContentKnown, VerifiedWasSeen, About, Met, Verifies, At, Live, Inserts
<1>3. ASSUME Routine \/ UNCHANGED vars PROVE ContentKnown' /\ VerifiedWasSeen'
  <2>1. UNCHANGED <<row, op, pc, met, reply, seen>>
    BY <1>0, <1>3, RoutineTypes
  <2>2. QED
    BY <2>1 DEF VerdictInv, ContentKnown, VerifiedWasSeen, About, Met, Verifies, At, Live, Inserts, Committed
<1>4. QED
  BY <1>0, <1>1, <1>2, <1>3, VerdictStep, NextCases DEF VerdictInv

(* What is shown as verified was seen by who verified it, unless the two   *)
(* overlapped or the content was created with the id of the property.      *)
THEOREM VerifiedSeen == Spec => []VerifiedWasSeen
<1>1. Spec => []VerdictInv
  BY VerdictInit, VerdictNext, PTL DEF Spec
<1>2. VerdictInv => VerifiedWasSeen
  BY DEF VerdictInv
<1>3. QED
  BY <1>1, <1>2, PTL

(***************************************************************************)
(* Likes.                                                                  *)
(***************************************************************************)
Voters(p) == About(p, Interactions)
Quiet(p) == ~Met(Voters(p), Voters(p) \cup About(p, {"delete"}))
Touches(c, p) == op[c].prop = p /\ op[c].do \in Interactions \cup {"delete"}
Liked(p) == {d \in StatRows(p) : stat[d] = "liked"}

(* Where no two votes overlap, what a vote has read is what there is.      *)
VoteKnown ==
    \A c \in Calls : LET p == op[c].prop  d == seen[c].stat IN
        pc[c] \in {"load", "commit"} /\ reply[c] = "none" /\ op[c].do \in Interactions /\ Quiet(p) =>
            /\ d # None => stat[d] # "none" /\ (seen[c].liked <=> stat[d] = "liked")
            /\ pc[c] = "commit" => Live(p) /\ seen[c].row.likes = row[p].likes
VoteInv == Base /\ VoteKnown /\ LikesAreCounted

LEMMA LikedFinite ==
    ASSUME NEW p
    PROVE  IsFiniteSet(Liked(p)) /\ Cardinality(Liked(p)) \in Nat
<1>1. Liked(p) \in SUBSET Calls
  BY DEF Liked, StatRows
<1>2. IsFiniteSet(Liked(p))
  BY <1>1, FinitelyMany, FS_Subset
<1>3. QED
  BY <1>2, FS_CardinalityType

LEMMA VoteInit == Init => VoteInv
<1> SUFFICES ASSUME Init PROVE VoteInv
  OBVIOUS
<1>1. \A p \in Props : row[p].likes = 0
  <2> SUFFICES ASSUME NEW p \in Props PROVE row[p].likes = 0
    OBVIOUS
  <2>1. row[p] = NoRow \/ row[p] = [NoRow EXCEPT !.state = "live", !.agent = agentOf[p], !.cover = p]
    BY DEF Init, FirstRows
  <2>2. NoRow \in Rows /\ NoRow.likes = 0
    BY DEF NoRow, Rows
  <2>3. CASE row[p] = [NoRow EXCEPT !.state = "live", !.agent = agentOf[p], !.cover = p]
    BY <2>2, <2>3 DEF Rows
  <2>4. QED
    BY <2>1, <2>2, <2>3
<1>2. \A p \in Props : Liked(p) = {}
  BY DEF Init, Liked, StatRows
<1>3. VoteKnown
  BY DEF Init, VoteKnown
<1>4. LikesAreCounted
  <2>1. \A p \in Props : row[p].likes = Cardinality(Liked(p))
    BY <1>1, <1>2, FS_EmptySet
  <2>2. QED
    BY <2>1 DEF LikesAreCounted, Liked
<1>5. QED
  BY <1>3, <1>4, BaseInit DEF VoteInv

(* A step of a call that neither votes on a property nor deletes it.       *)
LEMMA VotesApart ==
    ASSUME Base, NEW c \in Calls, Step(c), NEW p \in Props, ~Touches(c, p)
    PROVE  /\ \A e \in Calls : op[e].prop = p => stat'[e] = stat[e]
           /\ Liked(p)' = Liked(p)
           /\ Live(p) => Live(p)' /\ row'[p].likes = row[p].likes
           /\ ~Live(p) /\ Live(p)' => row'[p].likes = 0
<1>0. TypeOK /\ ControlInv /\ SightsAreOwn /\ StatsAreLive
  BY DEF Base
<1>1. \A e \in Calls : op[e].prop = p => stat'[e] = stat[e]
  <2> SUFFICES ASSUME NEW e \in Calls, op[e].prop = p, stat'[e] # stat[e] PROVE FALSE
    OBVIOUS
  <2>1. \/ Delete(c) /\ op[e].prop = op[c].prop
        \/ Interact(c) /\ (e = c \/ seen[c].stat = e)
    BY <1>0, StatEffect
  <2>2. op[e].prop = op[c].prop
    BY <1>0, <2>1, PropertiesAssumption DEF SightsAreOwn
  <2>3. QED
    BY <2>1, <2>2 DEF Touches, Delete, Interact
<1>2. \A e \in Calls : op'[e].prop = p => op[e].prop = p \/ (stat[e] = "none" /\ stat'[e] = "none")
  <2> SUFFICES ASSUME NEW e \in Calls, op'[e].prop = p, op[e].prop # p PROVE stat[e] = "none" /\ stat'[e] = "none"
    OBVIOUS
  <2>1. PICK q \in Props : Inserted(c, q)
    BY <1>0, OpEffect
  <2>2. e = c /\ ~Committed(c)
    BY <1>0, <2>1 DEF Inserted, TypeOK, At, Committed
  <2>3. stat' = stat
    BY <2>1 DEF Inserted
  <2>4. QED
    BY <1>0, <2>2, <2>3 DEF StatsAreLive
<1>3. \A e \in Calls : op[e].prop = p => op'[e].prop = p
  BY Commits, PropertiesAssumption
<1>4. Liked(p)' = Liked(p)
  BY <1>1, <1>2, <1>3 DEF Liked, StatRows
<1>5. row'[p] = row[p] \/ Writes(c, p)
  BY <1>0, RowEffect
<1>6. CASE Inserted(c, p)
  BY <1>0, <1>1, <1>4, <1>6 DEF Inserted, NewRow, NoRow, TypeOK
<1>7. CASE Rewrites(c, p) \/ Judges(c, p)
  BY <1>1, <1>4, <1>7 DEF Rewrites, Judges, SameBut, Live
<1>8. CASE Deletes(c, p) \/ Likes(c, p)
  BY <1>8 DEF Deletes, Likes, Touches, Delete, Interact
<1>9. CASE row'[p] = row[p]
  BY <1>1, <1>4, <1>9 DEF Live
<1>10. QED
  BY <1>5, <1>6, <1>7, <1>8, <1>9 DEF Writes

(* A vote, where the tally is what the vote has read.                      *)
LEMMA VoteCounted ==
    ASSUME Base, NEW c \in Calls, Interact(c), NEW p \in Props, p = op[c].prop,
           row[p].likes = Cardinality(Liked(p)), seen[c].row.likes = row[p].likes,
           seen[c].stat # None => stat[seen[c].stat] # "none" /\ (seen[c].liked <=> stat[seen[c].stat] = "liked")
    PROVE  row'[p].likes = Cardinality(Liked(p)')
<1>0. /\ TypeOK /\ ControlOf(c) /\ op' = op /\ row[p] \in Rows /\ row \in [Props -> Rows]
      /\ stat \in [Calls -> {"none", "liked", "unliked"}] /\ seen[c].stat \in Calls \cup {None}
      /\ seen[c].liked \in BOOLEAN /\ ~Committed(c) /\ op[c].do \in Interactions
  BY DEF Base, ControlInv, Interact, TypeOK, Sights, Committed, At
<1>1. IsFiniteSet(Liked(p)) /\ Cardinality(Liked(p)) \in Nat
  BY LikedFinite
<1>2. CASE UNCHANGED <<row, stat>>
  BY <1>0, <1>2 DEF Liked, StatRows
<1>3. CASE ~UNCHANGED <<row, stat>>
  <2> DEFINE n == Cardinality(Liked(p))
             d == seen[c].stat
             likes == op[c].do = "like"
             value == IF likes THEN "liked" ELSE "unliked"
  <2>1. /\ row' = [row EXCEPT ![p].likes = Column(Tally(c), n, n)]
        /\ stat' = IF d = None THEN [stat EXCEPT ![c] = value]
                   ELSE IF likes # seen[c].liked THEN [stat EXCEPT ![d] = value]
                   ELSE stat
    BY <1>3 DEF Interact
  <2>2. row'[p].likes = Tally(c)
    <3>1. row'[p].likes = Column(Tally(c), n, n)
      BY <1>0, <2>1 DEF Rows
    <3>2. QED
      BY <3>1 DEF Column
  <2>3. \A e \in Calls : e \in Liked(p)' <=> op[e].prop = p /\ stat'[e] = "liked"
    BY <1>0 DEF Liked, StatRows
  <2>4. \A e \in Calls : e \in Liked(p) <=> op[e].prop = p /\ stat[e] = "liked"
    BY DEF Liked, StatRows
  <2>5. Liked(p)' \subseteq Calls /\ Liked(p) \subseteq Calls
    BY DEF Liked, StatRows
  <2>6. d # None => d \in Calls /\ op[d].prop = p
    BY <1>0 DEF Base, SightsAreOwn
  <2>7. stat[c] = "none"
    BY <1>0 DEF Base, StatsAreLive
  <2>8. Tally(c) = IF likes /\ ~seen[c].liked THEN n + 1
                   ELSE IF ~likes /\ seen[c].liked /\ n > 0 THEN n - 1 ELSE n
    BY <1>0 DEF Tally, Interactions
  <2> HIDE DEF likes, value, d
  <2> USE DEF value
  <2>9. CASE likes /\ ~seen[c].liked
    <3> DEFINE e == IF d = None THEN c ELSE d
    <3>1. e \in Calls /\ e \notin Liked(p) /\ op[e].prop = p
      BY <2>4, <2>6, <2>7, <2>9 DEF d
    <3>2. stat' = [stat EXCEPT ![e] = "liked"]
      BY <2>1, <2>9
    <3> HIDE DEF e
    <3>3. Liked(p)' = Liked(p) \cup {e}
      BY <1>0, <2>3, <2>4, <2>5, <3>1, <3>2
    <3>4. QED
      BY <1>1, <2>2, <2>8, <2>9, <3>1, <3>3, FS_AddElement
  <2>10. CASE ~likes /\ seen[c].liked
    <3>1. d # None
      BY <1>0, <2>10 DEF ControlOf, d
    <3>2. d \in Calls /\ d \in Liked(p) /\ op[d].prop = p
      BY <2>4, <2>6, <2>10, <3>1 DEF d
    <3>3. stat' = [stat EXCEPT ![d] = "unliked"]
      BY <2>1, <2>10, <3>1
    <3>4. Liked(p)' = Liked(p) \ {d}
      BY <1>0, <2>3, <2>4, <2>5, <3>2, <3>3
    <3>5. n > 0
      BY <1>1, <3>2, FS_EmptySet
    <3>6. Tally(c) = n - 1
      BY <2>8, <2>10, <3>5
    <3>7. Cardinality(Liked(p) \ {d}) = n - 1
      BY <1>1, <3>2, FS_RemoveElement
    <3>8. QED
      BY <2>2, <3>4, <3>6, <3>7
  <2>11. CASE likes <=> seen[c].liked
    <3>1. stat' = IF d = None THEN [stat EXCEPT ![c] = "unliked"] ELSE stat
      BY <1>0, <2>1, <2>11 DEF ControlOf, d, likes
    <3>2. Liked(p)' = Liked(p)
      BY <1>0, <2>3, <2>4, <2>5, <2>7, <3>1
    <3>3. QED
      BY <2>2, <2>8, <2>11, <3>2
  <2>12. QED
    BY <2>9, <2>10, <2>11
<1>4. QED
  BY <1>2, <1>3

(* Where no two votes overlap after a step, none did before.               *)
LEMMA QuietBefore ==
    ASSUME NEW p \in Props, Quiet(p)', met \subseteq met',
           \A d \in Calls : op[d].prop = p => op'[d].prop = p /\ op'[d].do = op[d].do
    PROVE  Quiet(p)
<1>1. \A S : About(p, S) \subseteq About(p, S)'
  BY DEF About
<1>2. QED
  BY <1>1 DEF Quiet, Met, Voters

LEMMA VoteStep ==
    ASSUME VoteInv, NEW c \in Calls, Step(c)
    PROVE  VoteKnown' /\ LikesAreCounted'
<1>0. Base /\ TypeOK /\ ControlInv /\ Local(c)
  BY StepLocal DEF VoteInv, Base
<1>1. \A p \in Props : Quiet(p)' => Quiet(p)
  BY <1>0, Commits, QuietBefore, PropertiesAssumption
<1>2. VoteKnown'
  <2>1. \A d \in Calls : seen'[d].stat \in Calls \cup {None}
    BY <1>0, TypeStep DEF TypeOK, Sights
  <2> SUFFICES ASSUME NEW d \in Calls, NEW p, p = op'[d].prop, NEW e \in Calls \cup {None}, e = seen'[d].stat,
                      pc'[d] \in {"load", "commit"}, reply'[d] = "none", op'[d].do \in Interactions,
                      Quiet(p)'
               PROVE  /\ e # None => stat'[e] # "none" /\ (seen'[d].liked <=> stat'[e] = "liked")
                      /\ pc'[d] = "commit" => Live(p)' /\ seen'[d].row.likes = row'[p].likes
    BY <2>1 DEF VoteKnown, Live
  <2>2. op[d].do \in Interactions /\ p = op[d].prop /\ p \in Props
    <3>1. op[d].do \in Interactions
      BY <1>0, Commits
    <3>2. op[d].prop \in Props
      BY <1>0, <3>1, PropKnown DEF Interactions
    <3>3. QED
      BY <1>0, <3>1, <3>2, Commits, PropertiesAssumption
  <2>3. Quiet(p)
    BY <1>1, <2>2
  <2>4. CASE d = c
    <3>1. CASE pc'[c] = "commit"
      <4>1. Sees(c) /\ UNCHANGED <<tables, op>> /\ At(c, "load") /\ Live(p)
        <5>1. At(c, "commit")'
          BY <2>4, <3>1 DEF At
        <5>2. ~(At(c, "flush") /\ ControlOf(c))
          BY <2>2, <2>4 DEF At, ControlOf, Interactions, Inserting
        <5>3. QED
          BY <1>0, <2>2, <2>4, <5>1, <5>2, ReachesCommit DEF ControlInv
      <4>2. seen'[c].row = row[p] /\ seen'[c].stat = seen[c].stat /\ seen'[c].liked = seen[c].liked
        BY <1>0, <2>2, <2>4, <4>1 DEF Sees, TypeOK, Sights
      <4>3. e # None => stat[e] # "none" /\ (seen[c].liked <=> stat[e] = "liked")
        BY <2>2, <2>3, <2>4, <4>1, <4>2 DEF VoteInv, VoteKnown, At
      <4>4. QED
        BY <2>4, <4>1, <4>2, <4>3 DEF tables, Live
    <3>2. CASE pc'[c] = "load"
      <4>1. Stats(c)
        <5>1. ~Count(c)
          BY <2>2, <2>4, <1>0 DEF Count, At, ControlInv, ControlOf, Interactions
        <5>2. QED
          BY <3>2, <5>1, <1>0 DEF Step, LoadProperty, LoadForVerdict, LoadForDelete, LoadAsset, Flush, Insert,
             Rewrite, Verdict, Delete, Interact, Refresh, Goes, Replies, At, TypeOK
      <4>2. PICK f \in StatRows(op[c].prop) \cup {None} :
               seen' = [seen EXCEPT ![c].stat = f, ![c].liked = f # None /\ stat[f] = "liked"]
        BY <4>1 DEF Stats, StatRows
      <4>3. seen'[c].stat = f /\ (seen'[c].liked <=> f # None /\ stat[f] = "liked")
        <5> DEFINE b == f # None /\ stat[f] = "liked"
        <5>1. seen' = [seen EXCEPT ![c].stat = f, ![c].liked = b]
          BY <4>2
        <5> HIDE DEF b
        <5>2. seen[c] \in Sights /\ seen \in [Calls -> Sights]
          BY <1>0 DEF TypeOK
        <5>3. seen'[c] = [seen[c] EXCEPT !.stat = f, !.liked = b]
          BY <5>1, <5>2
        <5>4. seen'[c].stat = f /\ seen'[c].liked = b
          BY <5>2, <5>3 DEF Sights
        <5>5. QED
          BY <5>4 DEF b
      <4>4. QED
        BY <2>4, <3>2, <4>1, <4>2, <4>3 DEF Stats, StatRows, tables
    <3>3. QED
      BY <2>4, <3>1, <3>2
  <2>5. CASE d # c
    <3>1. pc[d] = pc'[d] /\ reply[d] = "none" /\ seen'[d] = seen[d]
      BY <1>0, <2>5 DEF Local
    <3>2. ~Touches(c, p)
      <4>1. SUFFICES ASSUME Touches(c, p) PROVE FALSE
        OBVIOUS
      <4>2. <<d, c>> \in met'
        BY <1>0, <2>5, <3>1 DEF Base, RunnersMet, Local, Running
      <4>3. op'[c].prop = p /\ op'[c].do = op[c].do
        BY <1>0, <2>2, <4>1, Commits, PropertiesAssumption DEF Touches
      <4>4. d \in Voters(p)' /\ c \in (Voters(p) \cup About(p, {"delete"}))'
        BY <4>1, <4>3 DEF Voters, About, Touches
      <4>5. QED
        BY <4>2, <4>4 DEF Quiet, Met
    <3>3. /\ e # None => stat[e] # "none" /\ (seen[d].liked <=> stat[e] = "liked")
          /\ pc[d] = "commit" => Live(p) /\ seen[d].row.likes = row[p].likes
      BY <2>2, <2>3, <3>1 DEF VoteInv, VoteKnown
    <3>4. e # None => op[e].prop = p /\ e \in Calls
      BY <1>0, <2>2, <3>1 DEF Base, SightsAreOwn
    <3>5. QED
      BY <1>0, <2>2, <3>1, <3>2, <3>3, <3>4, VotesApart
  <2>6. QED
    BY <2>4, <2>5
<1>3. LikesAreCounted'
  <2> SUFFICES ASSUME NEW p \in Props, Live(p)', Quiet(p)'
               PROVE  row'[p].likes = Cardinality(Liked(p)')
    BY DEF LikesAreCounted, Quiet, Voters, Liked, Live
  <2>1. Quiet(p)
    BY <1>1
  <2>2. Live(p) => row[p].likes = Cardinality(Liked(p))
    BY <2>1 DEF VoteInv, LikesAreCounted, Quiet, Voters, Liked
  <2>3. ~Live(p) => Liked(p) = {}
    BY <1>0 DEF Base, StatsAreLive, Liked, StatRows
  <2>4. CASE ~Touches(c, p)
    BY <1>0, <2>2, <2>3, <2>4, VotesApart, FS_EmptySet
  <2>5. CASE Touches(c, p) /\ UNCHANGED <<row, stat, op>>
    BY <2>2, <2>5 DEF Live, Liked, StatRows
  <2>6. CASE Touches(c, p) /\ ~UNCHANGED <<row, stat, op>>
    <3>1. ~Insert(c)
      BY <1>0, <2>6 DEF Insert, At, ControlInv, ControlOf, Touches, Interactions, Inserting
    <3>2. Delete(c) \/ Interact(c)
      BY <2>6, <3>1 DEF Touches, Interactions, Step, Count, Stats, LoadProperty, LoadForVerdict, LoadForDelete, LoadAsset, Flush,
         Rewrite, Verdict, Refresh, tables, NewContent, Updates
    <3>3. CASE Delete(c)
      BY <1>0, <2>6, <3>3 DEF Delete, Touches, TypeOK, Live, NoRow, tables
    <3>4. CASE Interact(c)
      <4>1. At(c, "commit") /\ op[c].prop = p /\ op[c].do \in Interactions
        BY <2>6, <3>4 DEF Interact, Touches
      <4>2. /\ seen[c].stat # None => stat[seen[c].stat] # "none" /\ (seen[c].liked <=> stat[seen[c].stat] = "liked")
            /\ Live(p) /\ seen[c].row.likes = row[p].likes
        BY <2>1, <4>1 DEF VoteInv, VoteKnown, At
      <4>3. QED
        BY <1>0, <2>2, <3>4, <4>1, <4>2, VoteCounted
    <3>5. QED
      BY <3>2, <3>3, <3>4
  <2>7. QED
    BY <2>4, <2>5, <2>6
<1>4. QED
  BY <1>2, <1>3

LEMMA VoteNext == VoteInv /\ [Next]_vars => VoteInv'
<1> SUFFICES ASSUME VoteInv, [Next]_vars PROVE VoteInv'
  OBVIOUS
<1>0. Base' /\ Base /\ TypeOK /\ ControlInv
  BY BaseNext DEF VoteInv, Base
<1>1. ASSUME NEW c \in Calls, Request(c) PROVE VoteKnown' /\ LikesAreCounted'
  <2>1. PICK r : Arrived(c, r)
    BY <1>0, <1>1, Arrival
  <2>2. /\ UNCHANGED <<row, seen, stat, reply>> /\ met \subseteq met' /\ ~Committed(c)
        /\ \A d \in Calls \ {c} : op'[d] = op[d] /\ pc'[d] = pc[d]
        /\ op[c] = Nothing /\ op'[c] = r /\ pc'[c] = FirstOf(r.do)
    BY <1>0, <2>1, ArrivalFrame DEF Arrived, Arrives
  <2>3. \A p \in Props : Quiet(p)' => Quiet(p)
    <3>1. \A p \in Props, d \in Calls : op[d].prop = p => op'[d].prop = p /\ op'[d].do = op[d].do
      BY <2>2, PropertiesAssumption DEF Nothing
    <3>2. QED
      BY <2>2, <3>1, QuietBefore
  <2>4. \A p \in Props : Liked(p)' = Liked(p)
    <3>1. stat[c] = "none"
      BY <1>0, <2>2 DEF Base, StatsAreLive
    <3>2. QED
      BY <2>2, <3>1 DEF Liked, StatRows
  <2>5. LikesAreCounted'
    BY <2>2, <2>3, <2>4 DEF VoteInv, LikesAreCounted, Quiet, Voters, Liked, Live
  <2>6. ASSUME NEW d \in Calls, pc'[d] \in {"load", "commit"}, reply'[d] = "none", op'[d].do \in Interactions
        PROVE  d # c /\ op[d] = op'[d] /\ pc[d] = pc'[d] /\ op[d].prop \in Props
    <3>1. d # c
      BY <2>2, <2>6 DEF FirstOf, Interactions
    <3>2. QED
      BY <1>0, <2>2, <2>6, <3>1, PropKnown DEF Interactions
  <2>7. VoteKnown'
    BY <2>2, <2>3, <2>6 DEF VoteInv, VoteKnown, Live
  <2>8. QED
    BY <2>5, <2>7
<1>2. ASSUME NEW c \in Calls, Fail(c) PROVE VoteKnown' /\ LikesAreCounted'
  <2>1. UNCHANGED <<row, op, pc, met, seen, stat>> /\ (\A d \in Calls : reply'[d] = "none" => reply[d] = "none")
    BY <1>0, <1>2, FailTypes DEF tables, Fail, TypeOK
  <2>2. QED
    BY <2>1 DEF VoteInv, VoteKnown, LikesAreCounted, Quiet, Voters, About, Met, StatRows, Live
<1>3. ASSUME Routine \/ UNCHANGED vars PROVE VoteKnown' /\ LikesAreCounted'
  <2>1. UNCHANGED <<row, op, pc, met, reply, seen, stat>>
    BY <1>0, <1>3, RoutineTypes
  <2>2. QED
    BY <2>1 DEF VoteInv, VoteKnown, LikesAreCounted, Quiet, Voters, About, Met, StatRows, Live
<1>4. QED
  BY <1>0, <1>1, <1>2, <1>3, VoteStep, NextCases DEF VoteInv

(* The likes of a property are the users who like it, where no vote        *)
(* overlapped with another or with a deletion.                             *)
THEOREM LikesCounted == Spec => []LikesAreCounted
<1>1. Spec => []VoteInv
  BY VoteInit, VoteNext, PTL DEF Spec
<1>2. VoteInv => LikesAreCounted
  BY DEF VoteInv
<1>3. QED
  BY <1>1, <1>2, PTL

(***************************************************************************)
(* Images.                                                                 *)
(***************************************************************************)
Uploads(c) == op[c].do \in {"create", "edit"} \cup NewCover
Wrote(v) == v \in Registered \/ (v \in Calls /\ Committed(v))

(* The row of an image that was a cover of a property, the row a public id *)
(* was written to, which is one, and public ids that are in no row for     *)
(* good.                                                                   *)
Covers(j, p) ==
    \/ j = p /\ p \in Registered
    \/ j \in Calls /\ Committed(j) /\ op[j].prop = p /\ op[j].do \in NewCover \cup {"create"}
Home(v, j) ==
    \/ v = j /\ (v \in Calls => op[v].do \in NewCover \cup {"create"})
    \/ v \in Calls /\ op[v].do = "edit" /\ seen[v].row.cover = j
Dead(v) == Wrote(v) /\ \A j \in Images : pic[j] # v

CoversAreRows ==
    \A p \in Props : LET j == row[p].cover IN j # None => Covers(j, p) /\ pic[j] # None
SightsAreCovers ==
    \A c \in Calls : LET j == seen[c].row.cover IN j # None => Covers(j, op[c].prop)
PicturesAtHome ==
    \A j \in Images : LET v == pic[j] IN v # None => Wrote(v) /\ Home(v, j)
SightsAtHome ==
    \A c \in Calls : LET v == seen[c].img  j == seen[c].row.cover IN
        v # None => Wrote(v) /\ j # None /\ Home(v, j)
ReleasedAreDead ==
    /\ \A e \in outbox : Dead(e[1])
    /\ \A w \in Workers : run[w].left \subseteq run[w].jobs /\ \A e \in run[w].jobs : Dead(e[1])
KeptInCloud ==
    /\ \A v \in Registered : v \in cloud \/ Dead(v)
    /\ \A c \in Calls : pc[c] # "idle" /\ Uploads(c) => c \in cloud \/ Dead(c)
ImageInv == Base /\ CoversAreRows /\ SightsAreCovers /\ PicturesAtHome /\ SightsAtHome
            /\ ReleasedAreDead /\ KeptInCloud

LEMMA ImageInit == Init => ImageInv
<1> SUFFICES ASSUME Init PROVE ImageInv
  OBVIOUS
<1>1. \A p \in Props : IF p \in Registered THEN row[p].cover = p ELSE row[p].cover = None
  <2> SUFFICES ASSUME NEW p \in Props
               PROVE  IF p \in Registered THEN row[p].cover = p ELSE row[p].cover = None
    OBVIOUS
  <2>1. NoRow \in Rows /\ NoRow.cover = None
    BY DEF NoRow, Rows
  <2>2. row[p] = IF p \in Registered
                 THEN [NoRow EXCEPT !.state = "live", !.agent = agentOf[p], !.cover = p] ELSE NoRow
    BY DEF Init, FirstRows
  <2>3. QED
    BY <2>1, <2>2 DEF Rows
<1>2. \A j \in Images : pic[j] = IF j \in Registered THEN j ELSE None
  BY DEF Init
<1>3. Registered \subseteq Props /\ Props \subseteq Images /\ Calls \cap Props = {} /\ None \notin Images
  BY PropertiesAssumption DEF Images
<1>4. \A c \in Calls : seen[c] = NoSight /\ op[c] = Nothing /\ pc[c] = "idle"
  BY DEF Init
<1>5. CoversAreRows
  BY <1>1, <1>2, <1>3 DEF CoversAreRows, Covers
<1>6. PicturesAtHome
  BY <1>2, <1>3 DEF PicturesAtHome, Wrote, Home
<1>7. SightsAreCovers /\ SightsAtHome
  BY <1>4 DEF SightsAreCovers, SightsAtHome, NoSight, NoRow
<1>8. ReleasedAreDead
  BY DEF ReleasedAreDead, Init, NoRun
<1>9. KeptInCloud
  BY <1>4 DEF KeptInCloud, Init
<1>10. QED
  BY <1>5, <1>6, <1>7, <1>8, <1>9, BaseInit DEF ImageInv

(* What is written stays written, and where it was.                        *)
LEMMA WrittenStays ==
    ASSUME Base, NEW c \in Calls, Step(c)
    PROVE  /\ \A v : Wrote(v) => Wrote(v)'
           /\ \A v, j : Wrote(v) /\ Home(v, j) => Home(v, j)'
           /\ \A p \in Props : \A j : Covers(j, p) => Covers(j, p)'
           /\ \A d \in Calls : Uploads(d)' <=> Uploads(d)
<1>1. \A d \in Calls : /\ Committed(d) => Committed(d)' /\ op'[d] = op[d] /\ seen'[d] = seen[d]
                       /\ op'[d].do = op[d].do
  BY Commits
<1>2. Calls \cap Registered = {}
  BY PropertiesAssumption
<1>3. \A v : Wrote(v) => Wrote(v)'
  BY <1>1 DEF Wrote
<1>4. \A v, j : Wrote(v) /\ Home(v, j) => Home(v, j)'
  BY <1>1, <1>2 DEF Home, Wrote
<1>5. \A p \in Props : \A j : Covers(j, p) => Covers(j, p)'
  BY <1>1 DEF Covers
<1>6. \A d \in Calls : Uploads(d)' <=> Uploads(d)
  BY <1>1 DEF Uploads
<1>7. QED
  BY <1>3, <1>4, <1>5, <1>6

(* What a step of a call does to the rows of images.                       *)
LEMMA PictureEffect ==
    ASSUME TypeOK, ControlInv, NEW c \in Calls, Step(c), NEW j \in Images
    PROVE  \/ pic'[j] = pic[j]
           \/ /\ pic'[j] = c /\ j = c
              /\ op[c].do \in NewCover \cup {"create"}
              /\ At(c, "commit") /\ Committed(c)'
           \/ /\ pic'[j] = c /\ j = seen[c].row.cover
              /\ op[c].do = "edit" /\ pic[j] # None
              /\ At(c, "commit") /\ Committed(c)'
           \/ /\ pic'[j] = None /\ j = seen[c].row.cover
              /\ \E p \in Props : Deletes(c, p) \/ (Rewrites(c, p) /\ op[c].do \in NewCover)
<1>0. /\ pic \in [Images -> Images \cup {None}] /\ pc \in [Calls -> {"idle", "count", "stats", "load", "flush", "commit",
                         "refresh", "done"}] /\ reply \in [Calls -> {"none", "ok", "refused", "error"}]
      /\ c \in Images
  BY DEF TypeOK, Images
<1>1. CASE Insert(c)
  <2>1. Waits(c) => pic' = pic
    BY DEF Waits, tables
  <2>2. ASSUME NEW p \in Props, Inserted(c, p), pic'[j] # pic[j]
        PROVE  /\ pic'[j] = c /\ j = c
               /\ op[c].do \in NewCover \cup {"create"}
               /\ At(c, "commit") /\ Committed(c)'
    <3>1. ControlOf(c)
      BY DEF ControlInv
    <3>2. op[c].do \in Inserting /\ op[c].do # "assign"
      BY <2>2, <3>1 DEF Inserted, At, ControlOf
    <3>3. QED
      BY <1>0, <2>2, <3>2 DEF Inserted, Inserting, NewCover, Committed, Goes
  <2>3. QED
    BY <1>1, <2>1, <2>2, Insertion
<1>2. CASE Rewrite(c)
  <2>1. CASE Stale(c) \/ Clashes(c)
    BY <1>2, <2>1 DEF Rewrite
  <2>2. CASE ~Stale(c) /\ ~Clashes(c)
    <3>1. pic' = Pictures(c) /\ At(c, "commit") /\ Committed(c)' /\ op[c].prop \in Props /\ Rewrites(c, op[c].prop)
      BY <1>2, <2>2, RewriteRow
    <3>2. CASE op[c].do = "edit"
      BY <1>0, <2>2, <3>1, <3>2 DEF Pictures, Stale
    <3>3. CASE op[c].do \in NewCover
      <4>1. op[c].do # "edit" /\ op[c].do # "delete"
        BY <3>3 DEF NewCover
      <4>2. pic'[j] = IF j = c THEN c ELSE IF j = seen[c].row.cover THEN None ELSE pic[j]
        BY <3>1, <3>3, <4>1 DEF Pictures
      <4>3. QED
        BY <3>1, <3>3, <4>2
    <3>4. CASE op[c].do \notin NewCover \cup {"edit"}
      <4>1. op[c].do # "delete" /\ op[c].do # "edit" /\ op[c].do \notin NewCover
        BY <1>2, <3>4 DEF Rewrite, NewContent, Updates
      <4>2. QED
        BY <3>1, <4>1 DEF Pictures
    <3>5. QED
      BY <3>2, <3>3, <3>4
  <2>3. QED
    BY <2>1, <2>2
<1>3. CASE Delete(c)
  <2>1. CASE Clashes(c)
    BY <1>3, <2>1 DEF Delete, tables
  <2>2. CASE ~Clashes(c)
    <3>1. /\ row' = [row EXCEPT ![op[c].prop] = Gone] /\ pic' = Pictures(c) /\ op[c].prop \in Props
          /\ op[c].do = "delete"
      BY <1>3, <2>2, PropKnown DEF Delete, Gone
    <3>2. Deletes(c, op[c].prop)
      BY <1>3, <2>2, <3>1 DEF Deletes, TypeOK
    <3>3. pic'[j] = IF j = seen[c].row.cover THEN None ELSE pic[j]
      BY <3>1 DEF Pictures, NewCover
    <3>4. QED
      BY <3>1, <3>2, <3>3
  <2>3. QED
    BY <2>1, <2>2
<1>4. CASE ~Insert(c) /\ ~Rewrite(c) /\ ~Delete(c)
  BY <1>4 DEF Step, Count, Stats, LoadProperty, LoadForVerdict, LoadForDelete, LoadAsset, Flush,
       Verdict, Interact, Refresh, tables
<1>5. QED
  BY <1>1, <1>2, <1>3, <1>4

LEMMA OutboxEffect ==
    ASSUME TypeOK, ControlInv, NEW c \in Calls, Step(c)
    PROVE  /\ outbox \subseteq outbox'
           /\ \A e \in outbox' \ outbox :
                 /\ e[1] = seen[c].img /\ seen[c].img # None
                 /\ At(c, "commit")
                 /\ \/ op[c].do = "delete" /\ \A j \in Images : pic'[j] = IF j = seen[c].row.cover THEN None ELSE pic[j]
                    \/ op[c].do = "edit" /\ pic' = [pic EXCEPT ![seen[c].row.cover] = c]
<1>1. \A e \in Released(c) \X {c} : e[1] = seen[c].img /\ seen[c].img # None /\ op[c].do \in {"edit", "delete"}
  BY DEF Released
<1>2. CASE Rewrite(c)
  <2>1. CASE Stale(c) \/ Clashes(c)
    BY <1>2, <2>1 DEF Rewrite
  <2>2. CASE ~Stale(c) /\ ~Clashes(c)
    <3>0. op[c].do # "delete"
      BY <1>2 DEF Rewrite, NewContent, Updates
    <3>1. pic' = Pictures(c) /\ outbox' = outbox \cup (Released(c) \X {c}) /\ At(c, "commit")
      BY <1>2, <2>2, RewriteRow
    <3>2. op[c].do = "edit" => pic' = [pic EXCEPT ![seen[c].row.cover] = c]
      <4>1. op[c].do = "edit" => Pictures(c) = [pic EXCEPT ![seen[c].row.cover] = c]
        BY DEF Pictures, NewCover
      <4>2. QED
        BY <3>1, <4>1
    <3>3. QED
      BY <1>1, <3>0, <3>1, <3>2
  <2>3. QED
    BY <2>1, <2>2
<1>3. CASE Delete(c)
  BY <1>1, <1>3 DEF Delete, tables, Pictures, NewCover
<1>4. CASE ~Rewrite(c) /\ ~Delete(c)
  BY <1>4 DEF Step, Count, Stats, LoadProperty, LoadForVerdict, LoadForDelete, LoadAsset, Flush, Insert,
       Verdict, Interact, Refresh, tables
<1>5. QED
  BY <1>2, <1>3, <1>4

LEMMA HomeUnique == \A v, j, k : Home(v, j) /\ Home(v, k) => j = k
BY DEF Home, NewCover

LEMMA CoversUnique ==
    \A j : \A p, q \in Props : Covers(j, p) /\ Covers(j, q) => p = q
BY PropertiesAssumption DEF Covers

LEMMA CoverEffect ==
    ASSUME TypeOK, ControlInv, NEW c \in Calls, Step(c), NEW p \in Props
    PROVE  \/ row'[p].cover = row[p].cover
           \/ /\ row'[p].cover = c /\ op'[c].prop = p /\ op[c].do \in NewCover \cup {"create"}
              /\ Committed(c)' /\ pic'[c] = c
           \/ row'[p].cover = None
<1>1. row'[p] = row[p] \/ Writes(c, p)
  BY RowEffect
<1>2. ControlOf(c) /\ c \in Images /\ pic \in [Images -> Images \cup {None}]
  BY DEF ControlInv, TypeOK, Images
<1>3. CASE Inserted(c, p)
  <2>1. row'[p].cover = IF op[c].do = "assign" THEN None ELSE c
    BY <1>3 DEF Inserted, TypeOK, NewRow, NoRow
  <2>2. op[c].do \in Inserting /\ op'[c].prop = p /\ Committed(c)'
    BY <1>2, <1>3 DEF Inserted, At, ControlOf, TypeOK, Requests, Goes, Committed
  <2>3. op[c].do # "assign" => pic'[c] = c
    BY <1>2, <1>3 DEF Inserted
  <2>4. QED
    BY <2>1, <2>2, <2>3 DEF Inserting, NewCover
<1>4. CASE Rewrites(c, p)
  <2>1. row'[p].cover = IF op[c].do \in NewCover THEN c ELSE row[p].cover
    BY <1>4 DEF Rewrites
  <2>2. pic' = Pictures(c) /\ Committed(c)' /\ op'[c].prop = p
    BY <1>4, RewriteRow DEF Rewrites, Rewrite
  <2>3. op[c].do \in NewCover => pic'[c] = c
    <3>1. op[c].do \in NewCover => op[c].do # "edit" /\ op[c].do # "delete"
      BY DEF NewCover
    <3>2. QED
      BY <1>2, <2>2, <3>1 DEF Pictures
  <2>4. QED
    BY <2>1, <2>2, <2>3
<1>5. CASE Judges(c, p) \/ Likes(c, p)
  BY <1>5 DEF Judges, Likes, SameBut
<1>6. CASE Deletes(c, p)
  BY <1>6 DEF Deletes, Gone, NoRow
<1>7. QED
  BY <1>1, <1>3, <1>4, <1>5, <1>6 DEF Writes

LEMMA SeesEffect ==
    ASSUME TypeOK, ControlInv, NEW c \in Calls, Step(c)
    PROVE  \/ seen'[c].row = seen[c].row /\ seen'[c].img = seen[c].img
           \/ LET p == op[c].prop IN
              /\ p \in Props /\ Live(p) /\ UNCHANGED <<tables, op>>
              /\ seen'[c].row = row[p]
              /\ seen'[c].img = IF row[p].cover = None THEN None ELSE pic[row[p].cover]
<1>1. CASE LoadProperty(c) \/ LoadForVerdict(c) \/ LoadForDelete(c) \/ LoadAsset(c)
  <2>1. op[c].prop \in Props
    BY <1>1, PropKnown DEF LoadProperty, LoadForVerdict, LoadForDelete, LoadAsset, NewContent, Updates, Interactions
  <2>2. UNCHANGED <<tables, op>> /\ (seen' = seen \/ (Live(op[c].prop) /\ Sees(c)))
    BY <1>1 DEF LoadProperty, LoadForVerdict, LoadForDelete, LoadAsset
  <2>3. QED
    BY <2>1, <2>2 DEF Sees, TypeOK, Sights
<1>2. CASE Stats(c)
  BY <1>2 DEF Stats, TypeOK, Sights
<1>3. CASE Count(c) \/ Flush(c) \/ Insert(c) \/ Rewrite(c) \/ Verdict(c) \/ Delete(c) \/ Interact(c) \/ Refresh(c)
  BY <1>3 DEF Count, Flush, Insert, Rewrite, Verdict, Delete, Interact, Refresh
<1>4. QED
  BY <1>1, <1>2, <1>3 DEF Step

LEMMA DeadStays ==
    ASSUME Base, NEW c \in Calls, Step(c), NEW v, Dead(v)
    PROVE  Dead(v)'
<1>1. TypeOK /\ ControlInv
  BY DEF Base
<1>2. Wrote(v) /\ Wrote(v)' /\ \A j \in Images : pic[j] # v
  BY WrittenStays DEF Dead
<1>3. v # None /\ (At(c, "commit") => v # c)
  BY <1>2, PropertiesAssumption DEF Wrote, At, Committed
<1>4. \A j \in Images : pic'[j] # v
  BY <1>1, <1>2, <1>3, PictureEffect
<1>5. QED
  BY <1>2, <1>4 DEF Dead

LEMMA ImageStep ==
    ASSUME ImageInv, NEW c \in Calls, Step(c)
    PROVE  ImageInv'
<1>0. Base /\ TypeOK /\ ControlInv /\ Local(c) /\ Base' /\ TypeOK'
  BY BaseStep, StepLocal DEF ImageInv, Base
<1>1. /\ \A v : Wrote(v) => Wrote(v)'
      /\ \A v, j : Wrote(v) /\ Home(v, j) => Home(v, j)'
      /\ \A p \in Props : \A j : Covers(j, p) => Covers(j, p)'
      /\ \A d \in Calls : Uploads(d)' <=> Uploads(d)
      /\ \A v : Dead(v) => Dead(v)'
  BY <1>0, WrittenStays, DeadStays
<1>2. None \notin Images /\ c \in Images
  BY PropertiesAssumption DEF Images
<1>3. CoversAreRows'
  <2>0. \A p \in Props : row'[p].cover \in Images \cup {None} /\ row[p].cover \in Images \cup {None}
    BY <1>0 DEF TypeOK, Rows
  <2> SUFFICES ASSUME NEW p \in Props, NEW j \in Images, j = row'[p].cover
               PROVE  Covers(j, p)' /\ pic'[j] # None
    BY <2>0 DEF CoversAreRows, Covers, Committed
  <2>1. CASE /\ row'[p].cover = c /\ op'[c].prop = p /\ op[c].do \in NewCover \cup {"create"}
             /\ Committed(c)' /\ pic'[c] = c
    <3>1. op'[c].do = op[c].do
      BY <1>0 DEF Local
    <3>2. QED
      BY <1>2, <2>1, <3>1 DEF Covers
  <2>2. CASE j = row[p].cover /\ j # c
    <3>1. Covers(j, p) /\ pic[j] # None
      BY <1>2, <2>2 DEF ImageInv, CoversAreRows
    <3>2. ASSUME pic'[j] = None PROVE FALSE
      <4>1. PICK q \in Props : Deletes(c, q) \/ (Rewrites(c, q) /\ op[c].do \in NewCover)
        BY <1>0, <1>2, <3>1, <3>2, PictureEffect
      <4>2. j = seen[c].row.cover /\ op[c].prop = q
        BY <1>0, <1>2, <3>1, <3>2, <4>1, PictureEffect DEF Deletes, Rewrites
      <4>3. Covers(j, q)
        BY <1>2, <4>2 DEF ImageInv, SightsAreCovers
      <4>4. p = q
        BY <3>1, <4>3, CoversUnique
      <4>5. row'[p].cover \in {None, c}
        BY <4>1, <4>4 DEF Deletes, Rewrites, Gone, NoRow
      <4>6. QED
        BY <1>2, <2>2, <4>5
    <3>3. QED
      BY <1>1, <3>1, <3>2
  <2>3. CASE j = row[p].cover /\ j = c
    <3>1. Covers(c, p) /\ pic[c] # None
      BY <1>2, <2>3 DEF ImageInv, CoversAreRows
    <3>2. Committed(c)
      BY <3>1, PropertiesAssumption DEF Covers
    <3>3. pic'[c] = pic[c]
      <4>1. ~At(c, "commit")
        BY <3>2 DEF At, Committed
      <4>2. \A q \in Props : ~Deletes(c, q) /\ ~Rewrites(c, q)
        BY <4>1 DEF Deletes, Rewrites, Delete, Rewrite
      <4>3. QED
        BY <1>0, <1>2, <4>1, <4>2, PictureEffect
    <3>4. QED
      BY <1>1, <2>3, <3>1, <3>3
  <2>4. QED
    BY <1>0, <1>2, <2>1, <2>2, <2>3, CoverEffect
<1>4. \A d \in Calls : op'[d].prop = op[d].prop \/ seen'[d].row.cover = None
  <2> SUFFICES ASSUME NEW d \in Calls, op'[d].prop # op[d].prop
               PROVE  seen'[d].row.cover = None
    OBVIOUS
  <2>1. d = c /\ op[c].prop = None
    BY <1>0 DEF Local
  <2>2. op[c].do = "create" /\ op'[c].do = "create"
    BY <1>0, <2>1 DEF ControlInv, ControlOf, Local, Running, Ops, Updates, Interactions
  <2>3. ControlOf(c)'
    BY <1>0 DEF ControlInv, Base
  <2>4. QED
    BY <2>1, <2>2, <2>3 DEF ControlOf, NoRow
<1>5. SightsAreCovers'
  <2>0. \A d \in Calls : seen'[d].row.cover \in Images \cup {None}
    BY <1>0 DEF TypeOK, Sights, Rows
  <2> SUFFICES ASSUME NEW d \in Calls, NEW j \in Images, j = seen'[d].row.cover,
                      NEW p, p = op'[d].prop
               PROVE  Covers(j, p)'
    BY <2>0 DEF SightsAreCovers, Covers, Committed
  <2>1. p = op[d].prop /\ p \in Props
    <3>1. p = op[d].prop
      BY <1>2, <1>4
    <3>2. p # None
      <4>1. ControlOf(d)'
        BY <1>0 DEF ControlInv, Base
      <4>2. SUFFICES ASSUME p = None PROVE FALSE
        OBVIOUS
      <4>3. seen'[d].row = NoRow
        BY <4>1, <4>2 DEF ControlOf, Ops, Updates, Interactions
      <4>4. QED
        BY <1>2, <4>3 DEF NoRow
    <3>3. QED
      BY <1>0, <3>1, <3>2 DEF TypeOK, Requests
  <2>2. CASE seen'[d].row = seen[d].row
    BY <1>1, <1>2, <2>1, <2>2 DEF ImageInv, SightsAreCovers
  <2>3. CASE d = c /\ seen'[c].row = row[p]
    BY <1>1, <1>2, <2>1, <2>3 DEF ImageInv, CoversAreRows
  <2>4. QED
    BY <1>0, <2>1, <2>2, <2>3, SeesEffect DEF Local
<1>6. PicturesAtHome'
  <2>0. \A j \in Images : pic'[j] \in Images \cup {None}
    BY <1>0 DEF TypeOK
  <2> SUFFICES ASSUME NEW j \in Images, NEW v \in Images, v = pic'[j]
               PROVE  Wrote(v)' /\ Home(v, j)'
    BY <2>0 DEF PicturesAtHome, Home, Wrote, Committed
  <2>1. CASE pic'[j] = pic[j]
    BY <1>1, <1>2, <2>1 DEF ImageInv, PicturesAtHome
  <2>2. op'[c].do = op[c].do /\ (At(c, "commit") => seen'[c] = seen[c])
    BY <1>0 DEF Local, At
  <2>3. QED
    BY <1>0, <1>2, <2>1, <2>2, PictureEffect DEF Wrote, Home
<1>7. SightsAtHome'
  <2>0. \A d \in Calls : seen'[d].img \in Images \cup {None}
    BY <1>0 DEF TypeOK, Sights
  <2> SUFFICES ASSUME NEW d \in Calls, NEW v \in Images, v = seen'[d].img, NEW j, j = seen'[d].row.cover
               PROVE  Wrote(v)' /\ j # None /\ Home(v, j)'
    BY <2>0 DEF SightsAtHome, Home, Wrote, Committed
  <2>1. CASE seen'[d].row = seen[d].row /\ seen'[d].img = seen[d].img
    BY <1>1, <1>2, <2>1 DEF ImageInv, SightsAtHome
  <2>2. ASSUME NEW p \in Props, seen'[d].row = row[p],
               seen'[d].img = IF row[p].cover = None THEN None ELSE pic[row[p].cover]
        PROVE  Wrote(v)' /\ j # None /\ Home(v, j)'
    <3>1. j = row[p].cover /\ j # None /\ v = pic[j] /\ j \in Images
      BY <1>0, <1>2, <2>2 DEF TypeOK, Rows
    <3>2. QED
      BY <1>1, <1>2, <3>1 DEF ImageInv, PicturesAtHome
  <2>3. QED
    BY <1>0, <2>1, <2>2, SeesEffect DEF Local
<1>8. ReleasedAreDead'
  <2>1. UNCHANGED run
    BY <1>0 DEF Local, routine
  <2>2. \A e \in outbox' : Dead(e[1])'
    <3> SUFFICES ASSUME NEW e \in outbox', e \notin outbox, NEW v, v = e[1] PROVE Dead(v)'
      BY <1>1 DEF ImageInv, ReleasedAreDead
    <3> DEFINE k == seen[c].row.cover
    <3>1. /\ v = seen[c].img /\ v # None
          /\ At(c, "commit")
          /\ \/ \A j \in Images : pic'[j] = IF j = k THEN None ELSE pic[j]
             \/ pic' = [pic EXCEPT ![k] = c]
      BY <1>0, OutboxEffect
    <3>2. Wrote(v) /\ Home(v, k)
      BY <3>1 DEF ImageInv, SightsAtHome
    <3>3. v # c
      BY <3>1, <3>2, PropertiesAssumption DEF Wrote, At, Committed
    <3>4. \A j \in Images : pic[j] = v => j = k
      BY <3>1, <3>2, HomeUnique DEF ImageInv, PicturesAtHome
    <3>5. \A j \in Images : pic'[j] # v
      BY <1>0, <3>1, <3>3, <3>4 DEF TypeOK
    <3>6. QED
      BY <1>1, <3>2, <3>5 DEF Dead
  <2>3. QED
    BY <1>1, <2>1, <2>2 DEF ImageInv, ReleasedAreDead
<1>9. KeptInCloud'
  <2>1. cloud' = cloud /\ \A d \in Calls : pc'[d] # "idle" => pc[d] # "idle"
    BY <1>0 DEF Local, Running
  <2>2. QED
    BY <1>1, <2>1 DEF ImageInv, KeptInCloud
<1>10. QED
  BY <1>0, <1>3, <1>5, <1>6, <1>7, <1>8, <1>9 DEF ImageInv

LEMMA ImageNext == ImageInv /\ [Next]_vars => ImageInv'
<1> SUFFICES ASSUME ImageInv, [Next]_vars PROVE ImageInv'
  OBVIOUS
<1>0. Base' /\ Base /\ TypeOK /\ ControlInv
  BY BaseNext DEF ImageInv, Base
<1>1. ASSUME NEW c \in Calls, Request(c) PROVE ImageInv'
  <2>1. PICK r : Arrived(c, r)
    BY <1>0, <1>1, Arrival
  <2>2. /\ UNCHANGED <<row, pic, seen, outbox, run>> /\ ~Committed(c)
        /\ \A d \in Calls \ {c} : op'[d] = op[d] /\ pc'[d] = pc[d]
        /\ \A d \in Calls : Committed(d)' <=> Committed(d)
        /\ op'[c] = r /\ seen[c].row = NoRow /\ seen[c].img = None
    BY <1>0, <2>1, ArrivalFrame
  <2>3. cloud \subseteq cloud' /\ (Uploads(c)' => c \in cloud')
    BY <2>1, <2>2 DEF Arrived, Arrives, Uploads
  <2>4. c \notin Registered
    BY PropertiesAssumption
  <2>5. /\ \A v : Wrote(v)' <=> Wrote(v)
        /\ \A v, j : Wrote(v) /\ Home(v, j) => Home(v, j)'
        /\ \A j, p : Covers(j, p) => Covers(j, p)'
        /\ \A v : Dead(v) => Dead(v)'
    BY <2>2, <2>4 DEF Wrote, Home, Covers, Dead
  <2>6. CoversAreRows' /\ PicturesAtHome' /\ ReleasedAreDead'
    BY <2>2, <2>5 DEF ImageInv, CoversAreRows, PicturesAtHome, ReleasedAreDead
  <2>7. SightsAreCovers' /\ SightsAtHome'
    <3>1. seen[c].row.cover = None
      BY <2>2 DEF NoRow
    <3>2. QED
      BY <2>2, <2>5, <3>1 DEF ImageInv, SightsAreCovers, SightsAtHome
  <2>8. KeptInCloud'
    BY <2>2, <2>3, <2>5 DEF ImageInv, KeptInCloud, Uploads
  <2>9. QED
    BY <1>0, <2>6, <2>7, <2>8 DEF ImageInv
<1>2. ASSUME NEW c \in Calls, Fail(c) PROVE ImageInv'
  <2>1. UNCHANGED <<row, pic, outbox, op, pc, seen, cloud, run>>
    BY <1>0, <1>2, FailTypes DEF tables
  <2>2. \A d \in Calls : Committed(d) <=> Committed(d)'
    BY <1>0, <1>2, <2>1 DEF Fail, Running, Committed, TypeOK
  <2>3. /\ \A v : Wrote(v)' <=> Wrote(v)
        /\ \A v, j : Home(v, j) <=> Home(v, j)'
        /\ \A j, p : Covers(j, p) <=> Covers(j, p)'
        /\ \A v : Dead(v) <=> Dead(v)'
        /\ \A d : Uploads(d) <=> Uploads(d)'
    BY <2>1, <2>2 DEF Wrote, Home, Covers, Dead, Uploads
  <2>4. CoversAreRows' /\ PicturesAtHome' /\ SightsAreCovers' /\ SightsAtHome'
    BY <2>1, <2>3 DEF ImageInv, CoversAreRows, PicturesAtHome, SightsAreCovers, SightsAtHome
  <2>5. ReleasedAreDead' /\ KeptInCloud'
    BY <2>1, <2>3 DEF ImageInv, ReleasedAreDead, KeptInCloud
  <2>6. QED
    BY <1>0, <2>4, <2>5 DEF ImageInv
<1>3. ASSUME Routine \/ UNCHANGED vars PROVE ImageInv'
  <2>1. UNCHANGED <<row, pic, op, pc, reply, seen>>
    BY <1>0, <1>3, RoutineTypes
  <2>2. /\ \A v : Wrote(v)' <=> Wrote(v)
        /\ \A v, j : Home(v, j) <=> Home(v, j)'
        /\ \A j, p : Covers(j, p) <=> Covers(j, p)'
        /\ \A v : Dead(v) <=> Dead(v)'
        /\ \A d : Uploads(d) <=> Uploads(d)'
    BY <2>1 DEF Wrote, Home, Covers, Dead, Uploads, Committed
  <2>3. CoversAreRows' /\ PicturesAtHome' /\ SightsAreCovers' /\ SightsAtHome'
    BY <2>1, <2>2 DEF ImageInv, CoversAreRows, PicturesAtHome, SightsAreCovers, SightsAtHome
  <2>4. outbox' \subseteq outbox
    BY <1>3 DEF Routine, Works, RunFails, WorkerDies, LockExpires, vars, tables, CommitsJobs
  <2>5. \A w \in Workers : /\ run'[w].left \subseteq run'[w].jobs
                           /\ run'[w].jobs \subseteq outbox \cup run[w].jobs
    BY <1>0, <1>3 DEF ImageInv, ReleasedAreDead, Routine, Works, RunFails, WorkerDies, LockExpires, vars,
       Starts, Selects, Releases, Destroys, CommitsJobs, NoRun, TypeOK, Runs
  <2>6. ReleasedAreDead'
    BY <2>2, <2>4, <2>5 DEF ImageInv, ReleasedAreDead
  <2>7. \A v \in cloud \ cloud' : Dead(v)
    BY <1>0, <1>3 DEF ImageInv, ReleasedAreDead, Routine, Works, RunFails, WorkerDies, LockExpires, vars,
       Destroys
  <2>8. KeptInCloud'
    BY <2>1, <2>2, <2>7 DEF ImageInv, KeptInCloud
  <2>9. QED
    BY <1>0, <2>3, <2>6, <2>8 DEF ImageInv
<1>4. QED
  BY <1>1, <1>2, <1>3, ImageStep, NextCases

(* The cover of a property is never destroyed.                             *)
THEOREM CoverKept == Spec => []CoverNeverDestroyed
<1>1. Spec => []ImageInv
  BY ImageInit, ImageNext, PTL DEF Spec
<1>2. ImageInv => CoverNeverDestroyed
  <2> SUFFICES ASSUME ImageInv, NEW p \in Props, row[p].cover # None
               PROVE  Shown(p) \in cloud
    BY DEF CoverNeverDestroyed
  <2> DEFINE j == row[p].cover
             v == pic[j]
  <2>1. j \in Images /\ v # None /\ Shown(p) = v
    BY DEF ImageInv, CoversAreRows, Base, TypeOK, Rows, Shown
  <2>2. Wrote(v) /\ Home(v, j)
    BY <2>1 DEF ImageInv, PicturesAtHome
  <2>3. ~Dead(v)
    BY <2>1 DEF Dead
  <2>4. v \in Calls => Uploads(v) /\ pc[v] # "idle"
    <3>1. Calls \cap Registered = {}
      BY PropertiesAssumption
    <3>2. v \in Calls => Committed(v) /\ Uploads(v)
      BY <2>2, <3>1 DEF Wrote, Home, Uploads
    <3>3. v \in Calls => ControlOf(v)
      BY DEF ImageInv, Base, ControlInv
    <3>4. QED
      BY <3>2, <3>3 DEF ControlOf, Committed
  <2>5. QED
    BY <2>1, <2>2, <2>3, <2>4 DEF ImageInv, KeptInCloud, Wrote
<1>3. QED
  BY <1>1, <1>2, PTL

(***************************************************************************)
(* What became of the images that were in the database.                    *)
(***************************************************************************)
WriteOps == NewContent \cup {"create", "delete"}
Writers(p) == About(p, WriteOps)
Alone(p) == ~Met(Writers(p), Writers(p))

(* A writer that met no other is about to replace what is shown.           *)
SightsAreCurrent ==
    \A c \in Calls : LET p == op[c].prop IN
        At(c, "commit") /\ ~Inserts(c) /\ op[c].do \in WriteOps /\ Alone(p) =>
            Live(p) /\ seen[c].row.cover = row[p].cover /\ seen[c].img = Shown(p)
JobsDestroyed ==
    \A w \in Workers : \A e \in run[w].jobs \ run[w].left : e[1] \notin cloud
CloudIsUploaded == \A c \in Calls : c \in cloud => Uploads(c)
AccountInv == ImageInv /\ SightsAreCurrent /\ JobsDestroyed /\ CloudIsUploaded /\ ImagesAccounted

LEMMA AccountInit == Init => AccountInv
<1> SUFFICES ASSUME Init PROVE AccountInv
  OBVIOUS
<1>1. Calls \cap Registered = {}
  BY PropertiesAssumption
<1>2. ImagesAccounted /\ CloudIsUploaded
  BY <1>1 DEF Init, ImagesAccounted, CloudIsUploaded
<1>3. SightsAreCurrent /\ JobsDestroyed
  BY DEF Init, SightsAreCurrent, JobsDestroyed, At, NoRun
<1>4. QED
  BY <1>2, <1>3, ImageInit DEF AccountInv

LEMMA AloneBefore ==
    ASSUME NEW p \in Props, Alone(p)', met \subseteq met',
           \A d \in Calls : op[d].prop = p => op'[d].prop = p /\ op'[d].do = op[d].do
    PROVE  Alone(p)
<1>1. Writers(p) \subseteq Writers(p)'
  BY DEF About, Writers
<1>2. QED
  BY <1>1 DEF Alone, Met

LEMMA ShownApart ==
    ASSUME ImageInv, NEW c \in Calls, Step(c), NEW q \in Props,
           ~(op'[c].prop = q /\ op[c].do \in WriteOps)
    PROVE  (Live(q)' <=> Live(q)) /\ row'[q].cover = row[q].cover /\ Shown(q)' = Shown(q)
<1>0. Base /\ TypeOK /\ ControlInv /\ ControlOf(c) /\ None \notin Images /\ Local(c)
  BY StepLocal, PropertiesAssumption DEF ImageInv, Base, ControlInv, Images
<1>1. row'[q] = row[q] \/ (Writes(c, q) /\ op'[c].prop = q)
  BY <1>0, RowEffect, WroteTypes
<1>2. op[c].do \notin WriteOps \/ row'[q] = row[q]
  BY <1>1
<1>3. row'[q].state = row[q].state /\ row'[q].cover = row[q].cover
  <2>1. CASE Inserted(c, q) /\ op[c].do \notin WriteOps
    BY <1>0, <2>1 DEF Inserted, At, ControlOf, Inserting, WriteOps, NewContent, Updates
  <2>2. CASE (Rewrites(c, q) \/ Deletes(c, q)) /\ op[c].do \notin WriteOps
    BY <2>2 DEF Rewrites, Deletes, Rewrite, Delete, WriteOps
  <2>3. CASE Judges(c, q) \/ Likes(c, q)
    BY <2>3 DEF Judges, Likes, SameBut
  <2>4. QED
    BY <1>1, <1>2, <2>1, <2>2, <2>3 DEF Writes
<1>4. ASSUME NEW j \in Images, j = row[q].cover
      PROVE  pic'[j] = pic[j]
  <2>1. Covers(j, q)
    BY <1>0, <1>4 DEF ImageInv, CoversAreRows
  <2>2. j = c => ~At(c, "commit")
    BY <2>1, PropertiesAssumption DEF Covers, At, Committed
  <2>3. j = seen[c].row.cover /\ op[c].prop \in Props => op[c].prop = q
    BY <1>0, <2>1, CoversUnique DEF ImageInv, SightsAreCovers
  <2>4. op[c].do = "edit" => op[c].prop \in Props
    BY <1>0, PropKnown
  <2>5. op[c].prop \in Props => op'[c].prop = op[c].prop
    BY <1>0, PropertiesAssumption DEF Local
  <2>6. \A p \in Props : Deletes(c, p) \/ Rewrites(c, p) => op[c].prop = p /\ op[c].do \in WriteOps
    BY DEF Deletes, Rewrites, Delete, Rewrite, WriteOps
  <2>7. "edit" \in WriteOps
    BY DEF WriteOps, NewContent, Updates
  <2>8. QED
    BY <1>0, <2>2, <2>3, <2>4, <2>5, <2>6, <2>7, PictureEffect
<1>5. row[q].cover \in Images \cup {None}
  BY <1>0 DEF TypeOK, Rows
<1>6. QED
  BY <1>3, <1>4, <1>5 DEF Live, Shown

(* Where the image that a call wrote is.                                   *)
Accounted(i, p) ==
    \/ Live(p) /\ Shown(p) = i
    \/ \E e \in outbox : e[1] = i
    \/ \E d \in About(p, NewCover) : Committed(d) /\ seen[d].img = i

LEMMA AccountStep ==
    ASSUME AccountInv, NEW c \in Calls, Step(c)
    PROVE  AccountInv'
<1>0. /\ ImageInv /\ ImageInv' /\ Base /\ TypeOK /\ ControlInv /\ Local(c) /\ ControlOf(c)
      /\ None \notin Images /\ c \in Images
      /\ Base' /\ TypeOK'
  BY ImageStep, StepLocal, BaseStep, PropertiesAssumption DEF AccountInv, ImageInv, Base, ControlInv, Images
<1>1. /\ \A d \in Calls : /\ Committed(d) => Committed(d)' /\ op'[d] = op[d] /\ seen'[d] = seen[d]
                          /\ op'[d].do = op[d].do
                          /\ op[d].prop # None => op'[d].prop = op[d].prop
      /\ \A p \in Props : Alone(p)' => Alone(p)
      /\ outbox \subseteq outbox' /\ cloud' = cloud /\ met' = met
  <2>1. /\ \A d \in Calls : /\ Committed(d) => Committed(d)' /\ op'[d] = op[d] /\ seen'[d] = seen[d]
                            /\ op'[d].do = op[d].do
                            /\ op[d].prop # None => op'[d].prop = op[d].prop
        /\ met' = met
    BY <1>0, Commits
  <2>2. outbox \subseteq outbox' /\ cloud' = cloud
    BY <1>0, OutboxEffect DEF Local
  <2>3. None \notin Props
    BY PropertiesAssumption
  <2>4. \A p \in Props : Alone(p)' => Alone(p)
    BY <2>1, <2>3, AloneBefore
  <2>5. QED
    BY <2>1, <2>2, <2>4
<1>2. SightsAreCurrent'
  <2> SUFFICES ASSUME NEW d \in Calls, NEW p, p = op'[d].prop,
                      At(d, "commit")', ~Inserts(d)', op'[d].do \in WriteOps, Alone(p)'
               PROVE  Live(p)' /\ seen'[d].row.cover = row'[p].cover /\ seen'[d].img = Shown(p)'
    BY DEF SightsAreCurrent, Live, Shown
  <2>1. CASE d = c
    <3>1. UNCHANGED <<tables, op>> /\ Sees(c) /\ Live(p) /\ p \in Props /\ p = op[c].prop
      BY <1>0, <2>1, ReachesCommit DEF Inserts
    <3>2. seen'[c].row = row[p] /\ seen'[c].img = Shown(p)
      BY <1>0, <3>1 DEF Sees, TypeOK, Sights, Shown
    <3>3. QED
      BY <2>1, <3>1, <3>2 DEF tables, Live, Shown
  <2>2. CASE d # c
    <3>1. /\ At(d, "commit") /\ ~Inserts(d) /\ op'[d] = op[d] /\ seen'[d] = seen[d]
          /\ <<c, d>> \in met'
      BY <1>0, <2>2, Commits DEF Inserts
    <3>2. p \in Props
      <4>1. op[d].do \notin {"nothing", "create"}
        BY <1>0, <3>1 DEF ControlInv, ControlOf, At, Ops, Updates, Interactions, Inserts
      <4>2. QED
        BY <1>0, <3>1, <4>1, PropKnown
    <3>3. ~(op'[c].prop = p /\ op[c].do \in WriteOps)
      <4>1. SUFFICES ASSUME op'[c].prop = p, op[c].do \in WriteOps PROVE FALSE
        OBVIOUS
      <4>2. c \in Writers(p)' /\ d \in Writers(p)'
        BY <1>1, <4>1 DEF Writers, About
      <4>3. QED
        BY <3>1, <4>2 DEF Alone, Met
    <3>4. Live(p) /\ seen[d].row.cover = row[p].cover /\ seen[d].img = Shown(p)
      BY <1>1, <3>1, <3>2 DEF AccountInv, SightsAreCurrent
    <3>5. QED
      BY <1>0, <3>1, <3>2, <3>3, <3>4, ShownApart
  <2>3. QED
    BY <2>1, <2>2
<1>3. JobsDestroyed' /\ CloudIsUploaded'
  BY <1>0, <1>1 DEF AccountInv, JobsDestroyed, CloudIsUploaded, Local, routine, Uploads
<1>4. ImagesAccounted'
  <2> SUFFICES ASSUME NEW i \in Calls, i \in cloud, NEW p, p = op'[i].prop, Committed(i)', Alone(p)'
               PROVE  Accounted(i, p)'
    BY <1>1 DEF ImagesAccounted, Accounted, Alone, Writers, WriteOps, About, Live, Shown, Committed
  <2>1. p \in Props
    <3>1. ControlOf(i)' /\ op'[i].prop \in Props \cup {None}
      BY <1>0 DEF ImageInv, Base, ControlInv, TypeOK, Requests
    <3>2. QED
      BY <3>1 DEF ControlOf, Committed, Ops, Updates, Interactions
  <2>2. Alone(p)
    BY <1>1, <2>1
  <2>3. At(c, "commit") /\ ~Inserts(c) /\ op[c].prop = p /\ op[c].do \in WriteOps =>
            Live(p) /\ seen[c].row.cover = row[p].cover /\ seen[c].img = Shown(p)
    BY <2>2 DEF AccountInv, SightsAreCurrent
  <2>4. row[p].cover \in Images \cup {None} /\ pic \in [Images -> Images \cup {None}]
    BY <1>0, <2>1 DEF TypeOK, Rows
  <2>5. CASE Committed(i)
    <3>1. Accounted(i, p)
      BY <1>1, <2>2, <2>5 DEF AccountInv, ImagesAccounted, Accounted, Alone, Writers, WriteOps
    <3>2. CASE \E e \in outbox : e[1] = i
      BY <1>1, <3>2 DEF Accounted
    <3>3. CASE \E d \in About(p, NewCover) : Committed(d) /\ seen[d].img = i
      BY <1>1, <3>3 DEF Accounted, About
    <3>4. CASE Live(p) /\ Shown(p) = i
      <4>1. CASE ~(op'[c].prop = p /\ op[c].do \in WriteOps)
        BY <1>0, <2>1, <3>4, <4>1, ShownApart DEF Accounted
      <4>2. CASE Waits(c)
        BY <3>4, <4>2 DEF Accounted, Waits, tables, Live, Shown
      <4>3. CASE op'[c].prop = p /\ op[c].do \in WriteOps /\ ~Waits(c)
        <5>1. At(c, "commit") /\ Committed(c)' /\ seen' = seen
          BY <1>0, <4>3, StepLocal
        <5>2. \A q \in Props : ~Inserted(c, q)
          <6>1. \A q \in Props : Inserted(c, q) => q = p
            BY <1>0, <4>3 DEF Inserted, TypeOK, Requests
          <6>2. QED
            BY <3>4, <6>1 DEF Inserted
        <5>3. ~Insert(c)
          BY <1>0, <4>3, <5>2, Insertion
        <5>4. op[c].prop = p
          BY <1>0, <4>3, <5>2, OpEffect
        <5>5. Delete(c) \/ (Rewrite(c) /\ ~Stale(c) /\ ~Clashes(c))
          BY <1>0, <4>3, <5>1, <5>3 DEF Step, Count, Stats, LoadProperty, LoadForVerdict, LoadForDelete, LoadAsset, Flush,
             Verdict, Interact, Refresh, At, WriteOps, NewContent, Updates, Interactions, Rewrite, Replies, Committed, TypeOK
        <5>6. ~Inserts(c)
          BY <1>0, <5>1, <5>5 DEF ControlOf, Delete, Rewrite, Inserting, At
        <5>7. seen[c].row.cover = row[p].cover /\ seen[c].img = i /\ i # None
          BY <1>0, <2>3, <3>4, <4>3, <5>1, <5>4, <5>6, PropertiesAssumption
        <5>8. CASE Delete(c)
          <6>0. ~Clashes(c)
            BY <1>0, <5>1, <5>8 DEF Delete, Replies, Committed, TypeOK
          <6>1. Released(c) = {i} /\ outbox' = outbox \cup (Released(c) \X {c})
            BY <5>7, <5>8, <6>0 DEF Delete, Released
          <6>2. <<i, c>> \in outbox'
            BY <6>1
          <6>3. QED
            BY <6>2 DEF Accounted
        <5>9. CASE Rewrite(c) /\ ~Stale(c) /\ ~Clashes(c)
          <6>1. Rewrites(c, p) /\ pic' = Pictures(c) /\ outbox' = outbox \cup (Released(c) \X {c})
            BY <1>0, <5>4, <5>9, RewriteRow
          <6>2. CASE op[c].do = "edit"
            <7>1. Released(c) = {i}
              BY <5>7, <6>2 DEF Released
            <7>2. <<i, c>> \in outbox'
              BY <6>1, <7>1
            <7>3. QED
              BY <7>2 DEF Accounted
          <6>3. CASE op[c].do \in NewCover
            BY <1>1, <4>3, <5>1, <5>7, <6>3 DEF Accounted, About
          <6>4. CASE op[c].do \notin NewCover \cup {"edit"}
            <7>1. op[c].do # "delete"
              BY <5>9 DEF Rewrite, NewContent, Updates
            <7>2. pic' = pic
              BY <6>1, <6>4, <7>1 DEF Pictures
            <7>3. row'[p].cover = row[p].cover /\ row'[p].state = row[p].state
              BY <6>1, <6>4 DEF Rewrites, SameBut
            <7>4. QED
              BY <3>4, <7>2, <7>3 DEF Accounted, Live, Shown
          <6>5. QED
            BY <6>2, <6>3, <6>4
        <5>10. QED
          BY <5>5, <5>8, <5>9
      <4>4. QED
        BY <4>1, <4>2, <4>3
    <3>5. QED
      BY <3>1, <3>2, <3>3, <3>4 DEF Accounted
  <2>6. CASE ~Committed(i)
    <3>1. i = c /\ Uploads(c) /\ ~Waits(c)
      BY <1>0, <2>6 DEF Local, Committed, Waits, AccountInv, CloudIsUploaded
    <3>2. At(c, "commit")
      BY <1>0, <3>1, StepLocal
    <3>3. CASE \E q \in Props : Inserted(c, q)
      <4>1. PICK q \in Props : Inserted(c, q)
        BY <3>3
      <4>2. q = p
        BY <1>0, <3>1, <4>1 DEF Inserted, TypeOK, Requests
      <4>3. op[c].do # "assign"
        BY <3>1 DEF Uploads, NewCover
      <4>4. row'[p].cover = c /\ row'[p].state = "live" /\ pic'[c] = c
        BY <1>0, <2>1, <4>1, <4>2, <4>3 DEF Inserted, TypeOK, NewRow, NoRow
      <4>5. QED
        BY <1>0, <3>1, <4>4 DEF Accounted, Live, Shown
    <3>4. CASE Rewrite(c) /\ ~Stale(c) /\ ~Clashes(c)
      <4>1. op'[c] = op[c] /\ ~Inserts(c)
        BY <3>4 DEF Rewrite
      <4>2. Rewrites(c, p) /\ pic' = Pictures(c)
        BY <1>0, <3>1, <3>4, <4>1, RewriteRow
      <4>3. row'[p].state = "live" /\ row'[p].cover = IF op[c].do \in NewCover THEN c ELSE row[p].cover
        BY <4>2 DEF Rewrites, SameBut, Live
      <4>4. CASE op[c].do \in NewCover
        <5>1. op[c].do # "edit" /\ op[c].do # "delete"
          BY <4>4 DEF NewCover
        <5>2. pic'[c] = c
          BY <1>0, <4>2, <4>4, <5>1 DEF Pictures
        <5>3. QED
          BY <1>0, <3>1, <4>3, <4>4, <5>2 DEF Accounted, Live, Shown
      <4>5. CASE op[c].do = "edit"
        <5>1. seen[c].row.cover # None /\ seen[c].row.cover = row[p].cover /\ op[c].do \notin NewCover
          BY <2>3, <3>1, <3>2, <3>4, <4>1, <4>5 DEF Stale, WriteOps, NewContent, Updates, NewCover
        <5>2. pic' = [pic EXCEPT ![row[p].cover] = c]
          BY <4>2, <4>5, <5>1 DEF Pictures, NewCover
        <5>3. pic'[row[p].cover] = c /\ row'[p].cover = row[p].cover
          BY <2>4, <4>3, <5>1, <5>2
        <5>4. QED
          BY <3>1, <4>3, <5>1, <5>3 DEF Accounted, Live, Shown
      <4>6. CASE op[c].do = "create"
        BY <3>4, <4>6 DEF Rewrite, NewContent, Updates
      <4>7. QED
        BY <3>1, <4>4, <4>5, <4>6 DEF Uploads
    <3>5. QED
      <4>1. Insert(c) \/ (Rewrite(c) /\ ~Stale(c) /\ ~Clashes(c))
        BY <1>0, <2>6, <3>1, <3>2 DEF Step, Count, Stats, LoadProperty, LoadForVerdict, LoadForDelete, LoadAsset, Flush,
           Verdict, Delete, Interact, Refresh, At, Uploads, NewCover, Interactions, Rewrite, Replies, Committed, TypeOK
      <4>2. QED
        BY <1>0, <3>1, <3>3, <3>4, <4>1, Insertion
  <2>7. QED
    BY <2>5, <2>6
<1>5. QED
  BY <1>0, <1>2, <1>3, <1>4 DEF AccountInv

LEMMA AccountNext == AccountInv /\ [Next]_vars => AccountInv'
<1> SUFFICES ASSUME AccountInv, [Next]_vars PROVE AccountInv'
  OBVIOUS
<1>0. ImageInv' /\ ImageInv /\ Base /\ TypeOK /\ ControlInv
  BY ImageNext DEF AccountInv, ImageInv, Base
<1>1. ASSUME NEW c \in Calls, Request(c) PROVE AccountInv'
  <2>1. PICK r : Arrived(c, r)
    BY <1>0, <1>1, Arrival
  <2>2. /\ UNCHANGED <<row, pic, seen, outbox, run, reply>> /\ ~Committed(c) /\ pc'[c] # "commit"
        /\ (\A d \in Calls \ {c} : op'[d] = op[d] /\ pc'[d] = pc[d])
        /\ (\A d \in Calls : Committed(d)' <=> Committed(d))
        /\ op[c] = Nothing
    BY <1>0, <2>1, ArrivalFrame
  <2>3. met \subseteq met' /\ cloud' \subseteq cloud \cup {c} /\ (c \in cloud' => Uploads(c)' \/ c \in cloud)
    <3>1. op'[c] = r
      BY <1>0, <2>1, ArrivalFrame
    <3>2. cloud' = IF r.do \in {"create", "edit"} \cup NewCover THEN cloud \cup {c} ELSE cloud
      BY <2>1 DEF Arrived, Arrives
    <3>3. met \subseteq met'
      BY <2>1 DEF Arrived, Arrives
    <3>4. cloud' \subseteq cloud \cup {c}
      BY <3>2
    <3>5. c \in cloud' => Uploads(c)' \/ c \in cloud
      BY <3>1, <3>2 DEF Uploads
    <3>6. QED
      BY <3>3, <3>4, <3>5
  <2>4. \A p \in Props : Alone(p)' => Alone(p)
    <3>1. \A p \in Props, d \in Calls : op[d].prop = p => op'[d].prop = p /\ op'[d].do = op[d].do
      BY <2>2, PropertiesAssumption DEF Nothing
    <3>2. QED
      BY <2>3, <3>1, AloneBefore
  <2>5. c \notin cloud
    BY <2>2 DEF AccountInv, CloudIsUploaded, Uploads, Nothing, NewCover
  <2>6. CloudIsUploaded'
    BY <2>2, <2>3, <2>5 DEF AccountInv, CloudIsUploaded, Uploads
  <2>7. JobsDestroyed'
    <3>1. \A v : Dead(v) => v # c
      BY <2>2, PropertiesAssumption DEF Dead, Wrote
    <3>2. QED
      BY <2>2, <2>3, <3>1, <1>0 DEF AccountInv, JobsDestroyed, ImageInv, ReleasedAreDead
  <2>8. SightsAreCurrent'
    <3> SUFFICES ASSUME NEW d \in Calls, NEW p, p = op'[d].prop,
                        At(d, "commit")', ~Inserts(d)', op'[d].do \in WriteOps, Alone(p)'
                 PROVE  Live(p)' /\ seen'[d].row.cover = row'[p].cover /\ seen'[d].img = Shown(p)'
      BY DEF SightsAreCurrent, Live, Shown
    <3>1. d # c /\ At(d, "commit") /\ ~Inserts(d) /\ op'[d] = op[d]
      BY <2>2 DEF At, Inserts
    <3>2. p \in Props
      <4>1. op[d].do \notin {"nothing", "create"}
        BY <1>0, <3>1 DEF ControlInv, ControlOf, At, Ops, Updates, Interactions, Inserts
      <4>2. QED
        BY <1>0, <3>1, <4>1, PropKnown
    <3>3. QED
      BY <2>2, <2>4, <3>1, <3>2 DEF AccountInv, SightsAreCurrent, Live, Shown
  <2>9. ImagesAccounted'
    <3> SUFFICES ASSUME NEW i \in Calls, i \in cloud', NEW p, p = op'[i].prop, Committed(i)', Alone(p)'
                 PROVE  Accounted(i, p)'
      BY DEF ImagesAccounted, Accounted, Alone, Writers, WriteOps, About, Live, Shown, Committed
    <3>1. i # c /\ Committed(i) /\ i \in cloud /\ op'[i] = op[i]
      BY <2>2, <2>3
    <3>2. p \in Props
      <4>1. ControlOf(i) /\ op[i].prop \in Props \cup {None}
        BY <1>0 DEF ControlInv, TypeOK, Requests
      <4>2. QED
        BY <3>1, <4>1 DEF ControlOf, Committed, Ops, Updates, Interactions
    <3>3. Accounted(i, p)
      BY <2>4, <3>1, <3>2 DEF AccountInv, ImagesAccounted, Accounted, Alone, Writers, WriteOps
    <3>4. QED
      BY <2>2, <3>3 DEF Accounted, About, Live, Shown
  <2>10. QED
    BY <1>0, <2>6, <2>7, <2>8, <2>9 DEF AccountInv
<1>2. ASSUME NEW c \in Calls, Fail(c) PROVE AccountInv'
  <2>1. UNCHANGED <<row, pic, outbox, op, pc, seen, cloud, run, met>>
        /\ (\A d \in Calls : reply'[d] = "none" => reply[d] = "none")
    BY <1>0, <1>2, FailTypes DEF tables, Fail, TypeOK
  <2>2. \A d \in Calls : Committed(d) <=> Committed(d)'
    BY <1>0, <1>2, <2>1 DEF Fail, Running, Committed, TypeOK
  <2>3. SightsAreCurrent' /\ JobsDestroyed' /\ CloudIsUploaded'
    BY <2>1 DEF AccountInv, SightsAreCurrent, JobsDestroyed, CloudIsUploaded, At, Inserts, Alone, Writers,
       About, Met, Live, Shown, Uploads
  <2>4. ImagesAccounted'
    BY <2>1, <2>2 DEF AccountInv, ImagesAccounted, About, Met, Live, Shown
  <2>5. QED
    BY <1>0, <2>3, <2>4 DEF AccountInv
<1>3. ASSUME Routine \/ UNCHANGED vars PROVE AccountInv'
  <2>1. UNCHANGED <<row, pic, op, pc, reply, seen, met>>
    BY <1>0, <1>3, RoutineTypes
  <2>2. cloud' \subseteq cloud
    BY <1>3 DEF Routine, Works, RunFails, WorkerDies, LockExpires, vars, Destroys
  <2>3. SightsAreCurrent' /\ CloudIsUploaded'
    BY <2>1, <2>2 DEF AccountInv, SightsAreCurrent, CloudIsUploaded, At, Inserts, Alone, Writers,
       About, Met, Live, Shown, Uploads
  <2>4. JobsDestroyed'
    <3>1. \A w \in Workers : \A e \in run'[w].jobs \ run'[w].left :
             e \in run[w].jobs \ run[w].left \/ e[1] \notin cloud'
      BY <1>0, <1>3 DEF Routine, Works, RunFails, WorkerDies, LockExpires, vars, Starts, Selects, Releases,
         Destroys, CommitsJobs, NoRun, TypeOK, Runs
    <3>2. QED
      BY <2>2, <3>1 DEF AccountInv, JobsDestroyed
  <2>5. \A e \in outbox \ outbox' : e[1] \notin cloud
    BY <1>3 DEF AccountInv, JobsDestroyed, Routine, Works, RunFails, WorkerDies, LockExpires, vars, tables,
       CommitsJobs
  <2>6. ImagesAccounted'
    BY <2>1, <2>2, <2>5 DEF AccountInv, ImagesAccounted, About, Met, Live, Shown, Committed
  <2>7. QED
    BY <1>0, <2>3, <2>4, <2>6 DEF AccountInv
<1>4. QED
  BY <1>1, <1>2, <1>3, AccountStep, NextCases

(* An image that was in the database is the cover of its property, waits   *)
(* in the outbox, is destroyed or was replaced, unless two writers of its  *)
(* property overlapped.                                                    *)
THEOREM AllImagesAccounted == Spec => []ImagesAccounted
<1>1. Spec => []AccountInv
  BY AccountInit, AccountNext, PTL DEF Spec
<1>2. AccountInv => ImagesAccounted
  BY DEF AccountInv
<1>3. QED
  BY <1>1, <1>2, PTL

=============================================================================
