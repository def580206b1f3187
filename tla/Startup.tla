------------------------------ MODULE Startup ------------------------------
(***************************************************************************)
(* What a server does before it serves (the lifespan of main.py): it makes *)
(* sure of the administrator (auth/utils.py), clears the cache of newly    *)
(* created properties once (controllers/utils.py) and starts the listener  *)
(* for keys that expire in Redis (cache_expiration).  Servers share the    *)
(* database and Redis, start in any order, and stop or crash at any step.  *)
(***************************************************************************)
EXTENDS Naturals, FiniteSets

CONSTANTS
    Servers,
    Emails,      \* values of ADMIN_EMAIL
    MaxBoots     \* bound: starts

ASSUME StartupAssumption == MaxBoots \in Nat

VARIABLES
    admin,       \* users with is_admin: the address, by the server that inserted it
    usersOf,     \* addresses that ordinary accounts have
    singleton,   \* the row of the table singleton: "none", "fresh" or "cleared"
    leftover,    \* newly_created_asset and what belongs to it is in Redis
    emailOf,     \* ADMIN_EMAIL of a server
    bpc,         \* control of a server
    row,         \* the administrator a server has loaded
    action,      \* the singleton it has loaded
    indicator,   \* the key expiry_pubsub_loop_entered
    listening,   \* servers whose listener runs
    boots

startupVars == <<admin, usersOf, singleton, leftover, emailOf, bpc, row, action,
                 indicator, listening, boots>>
noStart == <<usersOf, emailOf, boots>>
Rows == DOMAIN admin

(* The row of singleton, once there is one, and what its action tells.     *)
Singletons == {"none", "fresh", "cleared"}

StartupTypeOK ==
    /\ Rows \subseteq Servers /\ admin \in [Rows -> Emails]
    /\ usersOf \subseteq Emails /\ emailOf \in [Servers -> Emails]
    /\ singleton \in Singletons /\ action \in [Servers -> Singletons]
    /\ leftover \in BOOLEAN /\ indicator \in BOOLEAN /\ listening \subseteq Servers
    /\ bpc \in [Servers -> {"down", "admin", "flush", "commit", "update", "singleton",
                            "create", "clear", "flag", "listen", "up"}]
    /\ row \in [Servers -> Servers] /\ boots \in 0..MaxBoots

StartupInit ==
    /\ admin = <<>>
    /\ usersOf \in SUBSET Emails
    /\ singleton = "none"
    /\ leftover \in BOOLEAN
    /\ emailOf \in [Servers -> Emails]
    /\ bpc = [v \in Servers |-> "down"]
    /\ row = [v \in Servers |-> v]
    /\ action = [v \in Servers |-> "none"]
    /\ indicator = FALSE /\ listening = {} /\ boots = 0

BootGoes(v, pc) == bpc' = [bpc EXCEPT ![v] = pc]
BootFails(v) == BootGoes(v, "down")

Boot(v) ==
    /\ bpc[v] = "down" /\ boots < MaxBoots
    /\ boots' = boots + 1 /\ BootGoes(v, "admin")
    /\ UNCHANGED <<admin, usersOf, singleton, leftover, emailOf, row, action,
                   indicator, listening>>

----------------------------------------------------------------------------
(* ensure_admin_user.                                                      *)

(* scalar_one_or_none raises when there are two.                           *)
LooksForAdmin(v) ==
    /\ bpc[v] = "admin"
    /\ IF Cardinality(Rows) > 1 THEN BootFails(v) /\ UNCHANGED row
       ELSE IF Rows = {} THEN BootGoes(v, "flush") /\ UNCHANGED row
       ELSE /\ BootGoes(v, "update")
            /\ row' = [row EXCEPT ![v] = CHOOSE w \in Rows : TRUE]
    /\ UNCHANGED <<noStart, admin, singleton, leftover, action, indicator, listening>>

(* The listener of the insertion refuses a second administrator, the       *)
(* unique index a second account with the address.                         *)
FlushesAdmin(v) ==
    /\ bpc[v] = "flush"
    /\ IF Rows = {} THEN BootGoes(v, "commit") ELSE BootFails(v)
    /\ UNCHANGED <<noStart, admin, singleton, leftover, row, action, indicator, listening>>

Free(email) == email \notin usersOf /\ \A w \in Rows : admin[w] # email
With(v, email) == [w \in Rows \cup {v} |-> IF w = v THEN email ELSE admin[w]]
(* Mutant: the address is not unique.                                      *)
CommitsAnyAdmin(v) ==
    /\ bpc[v] = "commit"
    /\ admin' = With(v, emailOf[v]) /\ BootGoes(v, "singleton")
    /\ UNCHANGED <<noStart, singleton, leftover, row, action, indicator, listening>>
CommitsAdmin(v) ==
    /\ bpc[v] = "commit"
    /\ IF Free(emailOf[v])
       THEN admin' = With(v, emailOf[v]) /\ BootGoes(v, "singleton")
       ELSE UNCHANGED admin /\ BootFails(v)
    /\ UNCHANGED <<noStart, singleton, leftover, row, action, indicator, listening>>

(* The administrator takes over the address of the environment.            *)
UpdatesAdmin(v) ==
    /\ bpc[v] = "update"
    /\ IF row[v] \in Rows /\ (admin[row[v]] = emailOf[v] \/ Free(emailOf[v]))
       THEN admin' = With(row[v], emailOf[v]) /\ BootGoes(v, "singleton")
       ELSE UNCHANGED admin /\ BootFails(v)
    /\ UNCHANGED <<noStart, singleton, leftover, row, action, indicator, listening>>

----------------------------------------------------------------------------
(* remove_all_newly_created_cached_asset_once_on_app_startup.              *)

ReadsSingleton(v) ==
    /\ bpc[v] = "singleton"
    /\ action' = [action EXCEPT ![v] = singleton]
    /\ BootGoes(v, CASE singleton = "none" -> "create"
                     [] singleton = "fresh" -> "clear"
                     [] OTHER -> "listen")
    /\ UNCHANGED <<noStart, admin, singleton, leftover, row, indicator, listening>>

(* Every singleton has the id 1.                                           *)
CreatesSingleton(v) ==
    /\ bpc[v] = "create"
    /\ IF singleton = "none"
       THEN singleton' = "fresh" /\ BootGoes(v, "clear")
       ELSE UNCHANGED singleton /\ BootFails(v)
    /\ UNCHANGED <<noStart, admin, leftover, row, action, indicator, listening>>

ClearsCache(v) ==
    /\ bpc[v] = "clear"
    /\ leftover' = FALSE /\ BootGoes(v, "flag")
    /\ UNCHANGED <<noStart, admin, singleton, row, action, indicator, listening>>
FlagsCleared(v) ==
    /\ bpc[v] = "flag"
    /\ singleton' = "cleared" /\ BootGoes(v, "listen")
    /\ UNCHANGED <<noStart, admin, leftover, row, action, indicator, listening>>

----------------------------------------------------------------------------
(* cache_expiry_initializer; a failure is logged and the server starts     *)
(* without a listener.                                                     *)
StartsListener(v) ==
    /\ bpc[v] = "listen"
    /\ BootGoes(v, "up")
    /\ listening' \in {listening, listening \cup {v}}
    /\ UNCHANGED <<noStart, admin, singleton, leftover, row, action, indicator>>

ListenerLoops(v) ==
    /\ v \in listening
    /\ indicator' = TRUE
    /\ UNCHANGED <<noStart, admin, singleton, leftover, bpc, row, action, listening>>

(* A key expires.  The message holds a str, which has no decode(): the     *)
(* loop of every listener ends before dispatch_expiry_case is called.      *)
KeyExpires ==
    /\ listening # {}
    /\ listening' = {} /\ indicator' = FALSE
    /\ UNCHANGED <<noStart, admin, singleton, leftover, bpc, row, action>>

(* Shutdown ends the listener, which deletes the indicator for all; a      *)
(* crash leaves it, and a failure of any step of the start is a crash too. *)
Stops(v) ==
    /\ bpc[v] = "up" /\ BootGoes(v, "down")
    /\ listening' = listening \ {v}
    /\ indicator' = (indicator /\ v \notin listening)
    /\ UNCHANGED <<noStart, admin, singleton, leftover, row, action>>
Crashes(v) ==
    /\ bpc[v] # "down" /\ BootGoes(v, "down")
    /\ listening' = listening \ {v}
    /\ UNCHANGED <<noStart, admin, singleton, leftover, row, action, indicator>>

StartupNext ==
    \/ \E v \in Servers :
          \/ Boot(v) \/ LooksForAdmin(v) \/ FlushesAdmin(v) \/ CommitsAdmin(v)
          \/ UpdatesAdmin(v) \/ ReadsSingleton(v) \/ CreatesSingleton(v)
          \/ ClearsCache(v) \/ FlagsCleared(v)
          \/ StartsListener(v) \/ ListenerLoops(v) \/ Stops(v) \/ Crashes(v)
    \/ KeyExpires

StartupSpec == StartupInit /\ [][StartupNext]_startupVars

----------------------------------------------------------------------------
(* However many servers start at once, there is one administrator, unless  *)
(* they start with different addresses; none has the address of another    *)
(* account.  With two, no server starts any more.                          *)
OneAdmin ==
    /\ (\A v, w \in Servers : emailOf[v] = emailOf[w]) => Cardinality(Rows) <= 1
    /\ \A w \in Rows : admin[w] \notin usersOf
    /\ \A v, w \in Rows : admin[v] = admin[w] => v = w

============================================================================
