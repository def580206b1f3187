----------------------------- MODULE Properties -----------------------------
(***************************************************************************)
(* Properties offered by agents: creation under the limit of the beta      *)
(* launch, updates, the verification by staff, likes, deletion, and the    *)
(* images in the cloud, which a celery routine destroys once their public  *)
(* id is in the outbox.                                                    *)
(*                                                                         *)
(* A call loads its rows, computes and commits; other calls commit in      *)
(* between.  SQLAlchemy writes the columns whose value is not the loaded   *)
(* one, a flush that updates a row that is gone raises, one that deletes   *)
(* such a row only warns.                                                  *)
(*                                                                         *)
(* The cover image stands for the images of a property: unlinking a listed *)
(* image is the same as replacing the cover.  Likes stand for saves and    *)
(* carts.  Rows and images are named by the call that made them, those of  *)
(* the beginning by their property.  Tags and features are in Relations,   *)
(* the sorted set of new properties is in Feeds, and mails are left out.   *)
(***************************************************************************)
EXTENDS Naturals, FiniteSets

CONSTANTS
    Props,      \* ids of properties, bounding how many are ever created
    People,     \* agents, staff and users
    Staff,      \* those who may delete what is not theirs
    Unlimited,  \* UNLIMITED_BETA_AGENTS_EMAILS
    Limit,      \* BETA_LAUNCH_PROPERTY_LIMIT
    Calls,      \* calls of the handlers
    Registered, \* the properties that exist at the beginning
    agentOf,    \* and their agents
    Workers,    \* processes that may run the celery routine
    Scenarios,  \* what is explored together: operations, the number of calls,
                \* the workers and the failures of calls, runs and workers
    None

(* An "edit" changes the public id of the cover image, a "replace" gives   *)
(* the property another image, an "assign" another agent, an "update" new  *)
(* content only; a "recreate" is a creation with the id of a property.     *)
Updates == {"update", "edit", "replace", "assign"}
Ops == Updates \cup {"create", "recreate", "verify", "cancel", "like", "unlike", "delete"}
NewContent == Updates \cup {"recreate"}
NewCover == {"replace", "recreate"}
Interactions == {"like", "unlike"}
Images == Calls \cup Props    \* also the rows of images

Owned(rows, g) == {p \in Props : rows[p].state = "live" /\ rows[p].agent = g}
NoRow == [state |-> "unborn", agent |-> None, giver |-> None, by |-> None,
          verified |-> FALSE, declined |-> FALSE, likes |-> 0, cover |-> None]
FirstRows == [p \in Props |->
    IF p \in Registered
    THEN [NoRow EXCEPT !.state = "live", !.agent = agentOf[p], !.cover = p]
    ELSE NoRow]

ASSUME PropertiesAssumption ==
    /\ Registered \subseteq Props /\ agentOf \in [Registered -> People]
    /\ Staff \subseteq People /\ Unlimited \subseteq People
    /\ Limit \in Nat
    /\ \A g \in People \ Unlimited : Cardinality(Owned(FirstRows, g)) <= Limit
    /\ \A s \in Scenarios : /\ s.ops \subseteq Ops /\ s.workers \subseteq Workers
                            /\ s.calls \in Nat /\ s.faults \in Nat
    /\ Calls \cap Props = {} /\ None \notin Calls \cup Props \cup People

ASSUME FinitelyMany == IsFiniteSet(Props) /\ IsFiniteSet(Calls)

VARIABLES
    row,     \* assets: content and agent are those set by the calls by and giver
    pic,     \* rows of images: the public id, None where there is no row
    stat,    \* user_stats_per_property: the row a call inserted
    outbox,  \* cloud_deletion_outbox: public ids, with the call that put them in
    cloud,   \* the images in the cloud
    op,      \* a call: operation, property, agent or user, and caller
    seen,    \* what it loaded: the row, the public id of its cover, the stats row
    pc,      \* its control; a call that fails stays where it failed
    reply,   \* its answer, "none" while it runs
    met,     \* history: pairs of calls that ran at the same time
    run,     \* a worker's run of the routine
    lock,    \* cloudinary_deletion_lock
    faults,  \* failures so far
    scene    \* the scenario, which never changes

tables == <<row, pic, stat, outbox>>
routine == <<run, lock, scene>>
vars == <<row, pic, stat, outbox, cloud, op, seen, pc, reply, met, run, lock, faults,
          scene>>

Rows == [state : {"unborn", "live", "deleted"}, agent : People \cup {None},
         giver : Calls \cup {None}, by : Calls \cup {None}, verified : BOOLEAN,
         declined : BOOLEAN, likes : Nat, cover : Images \cup {None}]
Requests == [do : Ops \cup {"nothing"}, prop : Props \cup {None},
             agent : People \cup {None}, caller : People \cup {None}]
Sights == [row : Rows, img : Images \cup {None}, stat : Calls \cup {None},
           liked : BOOLEAN]
Runs == [at : {"idle", "select", "destroy", "release"},
         jobs : SUBSET (Images \X Calls), left : SUBSET (Images \X Calls)]

TypeOK ==
    /\ row \in [Props -> Rows]
    /\ pic \in [Images -> Images \cup {None}]
    /\ stat \in [Calls -> {"none", "liked", "unliked"}]
    /\ outbox \subseteq Images \X Calls /\ cloud \subseteq Images
    /\ op \in [Calls -> Requests] /\ seen \in [Calls -> Sights]
    /\ pc \in [Calls -> {"idle", "count", "stats", "load", "flush", "commit",
                         "refresh", "done"}]
    /\ reply \in [Calls -> {"none", "ok", "refused", "error"}]
    /\ met \subseteq Calls \X Calls
    /\ run \in [Workers -> Runs] /\ lock \in BOOLEAN
    /\ scene \in Scenarios /\ faults \in 0..scene.faults

Nothing == [do |-> "nothing", prop |-> None, agent |-> None, caller |-> None]
NoSight == [row |-> NoRow, img |-> None, stat |-> None, liked |-> FALSE]
NoRun == [at |-> "idle", jobs |-> {}, left |-> {}]

Init ==
    /\ row = FirstRows
    /\ pic = [i \in Images |-> IF i \in Registered THEN i ELSE None]
    /\ stat = [c \in Calls |-> "none"]
    /\ outbox = {} /\ cloud = Registered
    /\ op = [c \in Calls |-> Nothing] /\ seen = [c \in Calls |-> NoSight]
    /\ pc = [c \in Calls |-> "idle"] /\ reply = [c \in Calls |-> "none"]
    /\ met = {}
    /\ run = [w \in Workers |-> NoRun] /\ lock = FALSE
    /\ faults = 0 /\ scene \in Scenarios

Live(p) == row[p].state = "live"
Running(c) == pc[c] \notin {"idle", "done"} /\ reply[c] = "none"
At(c, where) == pc[c] = where /\ reply[c] = "none"
Committed(c) == pc[c] = "refresh" \/ reply[c] = "ok"

Goes(c, where) == pc' = [pc EXCEPT ![c] = where] /\ UNCHANGED reply
Replies(c, answer) ==
    pc' = [pc EXCEPT ![c] = "done"] /\ reply' = [reply EXCEPT ![c] = answer]

(***************************************************************************)
(* A request arrives.  Its client names a property that exists, and has    *)
(* uploaded the image that goes with it.                                   *)
(***************************************************************************)
FirstOf(do) ==
    CASE do \in {"create", "recreate"} -> "count"
      [] do \in Interactions -> "stats"
      [] OTHER -> "load"

Arrives(c, r) ==
    /\ op' = [op EXCEPT ![c] = r]
    /\ cloud' = IF r.do \in {"create", "edit"} \cup NewCover THEN cloud \cup {c} ELSE cloud
    /\ Goes(c, FirstOf(r.do))
    /\ LET others == {d \in Calls : Running(d)} IN
           met' = met \cup (others \X {c}) \cup ({c} \X others)
    /\ UNCHANGED <<tables, seen, routine, faults>>

(* Calls are alike, so the next one may always be the same of those left.  *)
Request(c) ==
    /\ pc[c] = "idle" /\ c = CHOOSE d \in Calls : pc[d] = "idle"
    /\ Cardinality({d \in Calls : pc[d] # "idle"}) < scene.calls
    /\ \E do \in scene.ops :
       \E p \in IF do = "create" THEN {None} ELSE {q \in Props : Live(q)} :
       \E g \in IF do \in {"create", "recreate", "assign"} THEN People ELSE {None} :
       \E u \in IF do \in {"create", "recreate", "delete"} \cup Interactions
                THEN People ELSE {None} :
          Arrives(c, [do |-> do, prop |-> p, agent |-> g, caller |-> u])

(***************************************************************************)
(* Loading.                                                                *)
(***************************************************************************)
(* Mutant of AtLimit: the limit is passed by one.                          *)
AtLimitLate(g) == g \notin Unlimited /\ Cardinality(Owned(row, g)) > Limit

AtLimit(g) == g \notin Unlimited /\ Cardinality(Owned(row, g)) >= Limit

(* check_limit_exceeded, which counts the properties of the caller.        *)
Count(c) ==
    /\ At(c, "count")
    /\ IF AtLimit(op[c].caller) THEN Replies(c, "refused")
       ELSE Goes(c, IF op[c].do = "create" THEN "flush" ELSE "load")
    /\ UNCHANGED <<tables, cloud, op, seen, met, routine, faults>>

(* The stats of the user and the property: the first of the rows there are.*)
StatRows(p) == {d \in Calls : stat[d] # "none" /\ op[d].prop = p}
Stats(c) ==
    /\ At(c, "stats")
    /\ LET mine == {d \in StatRows(op[c].prop) : op[d].caller = op[c].caller} IN
       \E d \in IF mine = {} THEN {None} ELSE mine :
          seen' = [seen EXCEPT ![c].stat = d,
                               ![c].liked = d # None /\ stat[d] = "liked"]
    /\ Goes(c, "load")
    /\ UNCHANGED <<tables, cloud, op, met, routine, faults>>

Sees(c) ==
    LET r == row[op[c].prop] IN
    seen' = [seen EXCEPT ![c].row = r,
                         ![c].img = IF r.cover = None THEN None ELSE pic[r.cover]]

(* The property of an update or of a creation with an id.  If it is gone   *)
(* the creation inserts it again, and so does an update that brings every  *)
(* column, with the agent among them.                                      *)
LoadProperty(c) ==
    /\ At(c, "load") /\ op[c].do \in NewContent
    /\ \/ Live(op[c].prop) /\ Sees(c) /\ Goes(c, "commit")
       \/ /\ ~Live(op[c].prop) /\ UNCHANGED seen
          /\ \/ op[c].do \in {"recreate", "assign"} /\ Goes(c, "flush")
             \/ op[c].do # "recreate" /\ Replies(c, "error")
    /\ UNCHANGED <<tables, cloud, op, met, routine, faults>>

LoadForVerdict(c) ==
    /\ At(c, "load") /\ op[c].do \in {"verify", "cancel"}
    /\ \/ Live(op[c].prop) /\ Sees(c) /\ Goes(c, "commit")
       \/ ~Live(op[c].prop) /\ UNCHANGED seen /\ Replies(c, "refused")
    /\ UNCHANGED <<tables, cloud, op, met, routine, faults>>

(* An agent deletes what is his.  If it is gone, None has no agent.        *)
LoadForDelete(c) ==
    /\ At(c, "load") /\ op[c].do = "delete"
    /\ \/ /\ Live(op[c].prop) /\ Sees(c)
          /\ IF op[c].caller \in Staff \cup {row[op[c].prop].agent}
             THEN Goes(c, "commit") ELSE Replies(c, "refused")
       \/ ~Live(op[c].prop) /\ UNCHANGED seen /\ Replies(c, "error")
    /\ UNCHANGED <<tables, cloud, op, met, routine, faults>>

LoadAsset(c) ==
    /\ At(c, "load") /\ op[c].do \in Interactions
    /\ \/ Live(op[c].prop) /\ Sees(c) /\ Goes(c, "commit")
       \/ ~Live(op[c].prop) /\ UNCHANGED seen /\ Replies(c, "error")
    /\ UNCHANGED <<tables, cloud, op, met, routine, faults>>

(***************************************************************************)
(* Writing.                                                                *)
(***************************************************************************)
(* The flush of an insertion counts the properties of the agent they are   *)
(* for (validate_agent_and_check_beta_limit), within its transaction.      *)
Flush(c) ==
    /\ At(c, "flush")
    /\ IF AtLimit(op[c].agent) THEN Replies(c, "error") ELSE Goes(c, "commit")
    /\ UNCHANGED <<tables, cloud, op, seen, met, routine, faults>>

Inserts(c) == seen[c].row.state = "unborn"

(* The cover of an inserted property is a new row; an update by assignment *)
(* has none.                                                               *)
Insert(c) ==
    /\ At(c, "commit") /\ Inserts(c)
    /\ \E p \in IF op[c].prop = None THEN {q \in Props : row[q].state = "unborn"}
                ELSE {op[c].prop} :
       LET cover == IF op[c].do = "assign" THEN None ELSE c IN
       IF Live(p) THEN Replies(c, "error") /\ UNCHANGED <<row, pic, op>>
       ELSE /\ row' = [row EXCEPT ![p] = [NoRow EXCEPT !.state = "live",
                  !.agent = op[c].agent, !.giver = c, !.by = c, !.cover = cover]]
            /\ pic' = IF cover = None THEN pic ELSE [pic EXCEPT ![c] = c]
            /\ op' = [op EXCEPT ![c].prop = p]
            /\ Goes(c, "refresh")
    /\ UNCHANGED <<stat, outbox, cloud, seen, met, routine, faults>>

(* The value a column has after it was set to v and found to be old.       *)
Column(v, old, now) == IF v = old THEN now ELSE v

(* Mutant of Unverified: an update leaves the verdict of staff as it is.   *)
StillVerified(r, c) == r

(* The extra hook of an update.                                            *)
Unverified(r, c) ==
    [r EXCEPT !.verified = Column(FALSE, seen[c].row.verified, r.verified),
              !.declined = Column(FALSE, seen[c].row.declined, r.declined)]

(* The fields of the payload.                                              *)
Filled(r, c) ==
    LET old == seen[c].row g == op[c].agent IN
    [r EXCEPT !.by = c,
              !.agent = IF g = None THEN @ ELSE Column(g, old.agent, @),
              !.giver = IF g = None THEN @ ELSE c,
              !.cover = IF op[c].do \in NewCover THEN c ELSE @]

(* Mutant of Released: the new public id is put in the outbox.             *)
ReleasedNew(c) ==
    IF op[c].do = "edit" THEN {c}
    ELSE IF op[c].do = "delete" /\ seen[c].img # None THEN {seen[c].img} ELSE {}

(* Mutant of Released: only deletions are seen.                            *)
ReleasedByDelete(c) ==
    IF op[c].do = "delete" /\ seen[c].img # None THEN {seen[c].img} ELSE {}

(* What cloud_image_public_id_changes finds before the flush: changed      *)
(* public ids and rows of images that are deleted.  The row of a replaced  *)
(* image is an orphan, which only the flush itself finds out.              *)
Released(c) ==
    IF op[c].do \in {"edit", "delete"} /\ seen[c].img # None
    THEN {seen[c].img} ELSE {}

(* public_id is unique in the outbox.                                      *)
Clashes(c) == \E entry \in outbox : entry[1] \in Released(c)

(* The rows of images: an edit changes one, a replacement and a deletion   *)
(* delete the one they loaded.                                             *)
Pictures(c) ==
    LET old == seen[c].row.cover IN
    CASE op[c].do = "edit" -> [pic EXCEPT ![old] = c]
      [] op[c].do \in NewCover ->
            [i \in Images |-> IF i = c THEN c ELSE IF i = old THEN None ELSE pic[i]]
      [] op[c].do = "delete" -> [i \in Images |-> IF i = old THEN None ELSE pic[i]]
      [] OTHER -> pic

(* An edit needs the row of the image it loaded.                           *)
Stale(c) ==
    \/ ~Live(op[c].prop)
    \/ op[c].do = "edit"
       /\ (seen[c].row.cover = None \/ pic[seen[c].row.cover] = None)

(* A creation with the id of a property has no hook.                       *)
Rewrite(c) ==
    /\ At(c, "commit") /\ ~Inserts(c) /\ op[c].do \in NewContent
    /\ IF Stale(c) \/ Clashes(c)
       THEN Replies(c, "error") /\ UNCHANGED <<row, pic, outbox>>
       ELSE /\ row' = [row EXCEPT ![op[c].prop] =
                  IF op[c].do = "recreate" THEN Filled(@, c) ELSE Unverified(Filled(@, c), c)]
            /\ pic' = Pictures(c)
            /\ outbox' = outbox \cup (Released(c) \X {c})
            /\ Goes(c, "refresh")
    /\ UNCHANGED <<stat, cloud, op, seen, met, routine, faults>>

(* update_verification_state.                                              *)
Judged(r, c) ==
    LET old == seen[c].row IN
    IF op[c].do = "verify"
    THEN [r EXCEPT !.verified = Column(TRUE, old.verified, @),
                   !.declined = Column(FALSE, old.declined, @)]
    ELSE [r EXCEPT !.verified = Column(FALSE, old.verified, @), !.declined = TRUE]

Verdict(c) ==
    /\ At(c, "commit") /\ op[c].do \in {"verify", "cancel"}
    /\ IF Live(op[c].prop)
       THEN /\ row' = [row EXCEPT ![op[c].prop] = Judged(@, c)]
            /\ Goes(c, "refresh")
       ELSE Replies(c, "error") /\ UNCHANGED row
    /\ UNCHANGED <<pic, stat, outbox, cloud, op, seen, met, routine, faults>>

(* A deletion takes the stats along (ON DELETE CASCADE), and succeeds also *)
(* when another one was faster.                                            *)
Delete(c) ==
    /\ At(c, "commit") /\ op[c].do = "delete"
    /\ IF Clashes(c) THEN Replies(c, "error") /\ UNCHANGED tables
       ELSE /\ row' = [row EXCEPT ![op[c].prop] = [NoRow EXCEPT !.state = "deleted"]]
            /\ pic' = Pictures(c)
            /\ stat' = [d \in Calls |->
                   IF op[d].prop = op[c].prop THEN "none" ELSE stat[d]]
            /\ outbox' = outbox \cup (Released(c) \X {c})
            /\ Replies(c, "ok")
    /\ UNCHANGED <<cloud, op, seen, met, routine, faults>>

(* refresh, which raises when the property is gone by now.                 *)
Refresh(c) ==
    /\ At(c, "refresh")
    /\ IF Live(op[c].prop) THEN Replies(c, "ok")
       ELSE reply' = [reply EXCEPT ![c] = "error"] /\ UNCHANGED pc
    /\ UNCHANGED <<tables, cloud, op, seen, met, routine, faults>>

(* Mutant of Tally: every like counts.                                     *)
TallyAll(c) ==
    IF op[c].do = "like" THEN seen[c].row.likes + 1
    ELSE IF seen[c].row.likes = 0 THEN 0 ELSE seen[c].row.likes - 1

(* asset.likes, which changes when the user's own like does.               *)
Tally(c) ==
    LET n == seen[c].row.likes liked == seen[c].liked IN
    CASE op[c].do = "like" /\ ~liked -> n + 1
      [] op[c].do = "unlike" /\ liked /\ n > 0 -> n - 1
      [] OTHER -> n

(* handle_persist_property_interaction.  The event it inserts refers to    *)
(* the property, and the stats row it changes must be there.               *)
Interact(c) ==
    /\ At(c, "commit") /\ op[c].do \in Interactions
    /\ LET p == op[c].prop  d == seen[c].stat
           likes == op[c].do = "like"
           value == IF likes THEN "liked" ELSE "unliked"
       IN IF ~Live(p) \/ (d # None /\ stat[d] = "none" /\ likes # seen[c].liked)
          THEN Replies(c, "error") /\ UNCHANGED <<row, stat>>
          ELSE /\ row' = [row EXCEPT ![p].likes = Column(Tally(c), seen[c].row.likes, @)]
               /\ stat' = IF d = None THEN [stat EXCEPT ![c] = value]
                          ELSE IF likes # seen[c].liked THEN [stat EXCEPT ![d] = value]
                          ELSE stat
               /\ Replies(c, "ok")
    /\ UNCHANGED <<pic, outbox, cloud, op, seen, met, routine, faults>>

(***************************************************************************)
(* The celery routine.  Beat starts it time and again; a run that finds    *)
(* the outbox empty changes nothing and is left out.  It destroys every    *)
(* image it has read in the cloud and deletes the rows in one commit, so   *)
(* that a run that fails leaves them to the next one.  The lock is deleted *)
(* without a look at whose it is.                                          *)
(***************************************************************************)
Starts(w) ==
    /\ w \in scene.workers /\ run[w].at = "idle" /\ ~lock /\ outbox # {}
    /\ lock' = TRUE
    /\ run' = [run EXCEPT ![w].at = "select"]

Selects(w) ==
    /\ run[w].at = "select"
    /\ run' = [run EXCEPT ![w] = [at |-> "destroy", jobs |-> outbox, left |-> outbox]]
    /\ UNCHANGED lock

Destroys(w) ==
    \E job \in run[w].left :
        /\ cloud' = cloud \ {job[1]}
        /\ run' = [run EXCEPT ![w].left = @ \ {job}]

CommitsJobs(w) ==
    /\ run[w].at = "destroy" /\ run[w].left = {}
    /\ outbox' = outbox \ run[w].jobs
    /\ run' = [run EXCEPT ![w] = [NoRun EXCEPT !.at = "release"]]

Releases(w) ==
    /\ run[w].at = "release"
    /\ lock' = FALSE
    /\ run' = [run EXCEPT ![w] = NoRun]

Works(w) ==
    /\ \/ (Starts(w) \/ Selects(w) \/ Releases(w)) /\ UNCHANGED <<cloud, outbox>>
       \/ Destroys(w) /\ UNCHANGED <<lock, outbox>>
       \/ CommitsJobs(w) /\ UNCHANGED <<lock, cloud>>
    /\ UNCHANGED <<row, pic, stat, op, seen, pc, reply, met, faults, scene>>

(* Mutant of LockExpires: the lock is set without one.                     *)
LockStays == FALSE

(* The lock has an expiry, however long the run takes.                     *)
LockExpires ==
    /\ lock /\ lock' = FALSE
    /\ UNCHANGED <<tables, cloud, op, seen, pc, reply, met, run, faults, scene>>

(***************************************************************************)
(* Failures.                                                               *)
(***************************************************************************)
Faulty == faults < scene.faults /\ faults' = faults + 1

(* The database raises or the server dies: what is committed stays.        *)
Fail(c) ==
    /\ Running(c) /\ Faulty
    /\ reply' = [reply EXCEPT ![c] = "error"]
    /\ UNCHANGED <<tables, cloud, op, seen, pc, met, routine>>

(* Cloudinary or the database raises, and the lock is deleted (finally).   *)
RunFails(w) ==
    /\ run[w].at \in {"select", "destroy"} /\ Faulty
    /\ run' = [run EXCEPT ![w] = [NoRun EXCEPT !.at = "release"]]
    /\ UNCHANGED <<tables, cloud, op, seen, pc, reply, met, lock, scene>>

WorkerDies(w) ==
    /\ run[w].at # "idle" /\ Faulty
    /\ run' = [run EXCEPT ![w] = NoRun]
    /\ UNCHANGED <<tables, cloud, op, seen, pc, reply, met, lock, scene>>

Step(c) ==
    \/ Count(c) \/ Stats(c)
    \/ LoadProperty(c) \/ LoadForVerdict(c) \/ LoadForDelete(c) \/ LoadAsset(c)
    \/ Flush(c) \/ Insert(c) \/ Rewrite(c) \/ Verdict(c) \/ Delete(c) \/ Interact(c)
    \/ Refresh(c)

Next ==
    \/ \E c \in Calls : Request(c) \/ Step(c) \/ Fail(c)
    \/ \E w \in Workers : Works(w) \/ RunFails(w) \/ WorkerDies(w)
    \/ LockExpires

(* Beat starts the routine every interval and its calls come to an end;    *)
(* redis expires the lock.                                                 *)
Fairness == WF_vars(LockExpires) /\ \A w \in Workers : WF_vars(Works(w))

Spec == Init /\ [][Next]_vars /\ Fairness

----------------------------------------------------------------------------
About(p, ops) == {c \in Calls : op[c].prop = p /\ op[c].do \in ops}
Met(S, T) == \E c \in S, d \in T : <<c, d>> \in met

(* An agent of the beta launch has more properties than the limit only if  *)
(* two of them were created at the same time, each before the other was    *)
(* committed, or if one was there before and given to the agent by an      *)
(* update, which counts nothing (check_limit_exceeded and the listener     *)
(* before the insertion).                                                  *)
LimitPassedProperly ==
    \A g \in People \ Unlimited :
        LET givers == {row[p].giver : p \in Owned(row, g)} \ {None} IN
        Cardinality(Owned(row, g)) > Limit =>
            Met(givers, givers) \/ \E c \in givers : op[c].do # "create"

(* What the public sees as verified was seen by who verified it, unless    *)
(* the verification overlapped with the call that wrote the content, or    *)
(* that call was a creation with the id of the property, which does not    *)
(* take the verification back.  An update writes verified = False only if  *)
(* it had loaded True.                                                     *)
VerifiedWasSeen ==
    \A p \in Props :
        LET u == row[p].by  verdicts == {v \in About(p, {"verify"}) : Committed(v)} IN
        Live(p) /\ row[p].verified =>
            \/ \E v \in verdicts : seen[v].row.by = u
            \/ Met({u}, verdicts)
            \/ u # None /\ op[u].do = "recreate"

(* The likes of a property are the users who like it, however often they   *)
(* say so and whatever fails, as long as no two interactions overlapped,   *)
(* nor one and a deletion: the tally is read, changed and written.         *)
LikesAreCounted ==
    \A p \in Props :
        LET voters == About(p, Interactions) IN
        Live(p) /\ ~Met(voters, voters \cup About(p, {"delete"})) =>
            row[p].likes = Cardinality({d \in StatRows(p) : stat[d] = "liked"})

(* An image that was in the database is the cover of its property, waits   *)
(* in the outbox, or is destroyed.  The exceptions are images that were    *)
(* replaced, and those of a property where two writers overlapped.         *)
Shown(p) == IF row[p].cover = None THEN None ELSE pic[row[p].cover]
ImagesAccounted ==
    \A i \in cloud \cap Calls :
        LET p == op[i].prop  writers == About(p, NewContent \cup {"create", "delete"})
        IN Committed(i) =>
            \/ Live(p) /\ Shown(p) = i
            \/ \E entry \in outbox : entry[1] = i
            \/ \E d \in About(p, NewCover) : Committed(d) /\ seen[d].img = i
            \/ Met(writers, writers)

(* The cover of a property is never destroyed, whatever runs of the        *)
(* routine overlap with updates, with each other and fail midway: only     *)
(* committed rows of the outbox are read, and these name former covers.    *)
CoverNeverDestroyed ==
    \A p \in Props : Live(p) /\ row[p].cover # None => Shown(p) \in cloud

(* A public id in the outbox is destroyed in the end, though a worker may  *)
(* die with the lock and a run fail after it destroyed some images.        *)
ReleasedIsDestroyed ==
    \A i \in Calls \cup Registered : (scene.workers # {} /\ \E entry \in outbox : entry[1] = i) ~> i \notin cloud

=============================================================================
