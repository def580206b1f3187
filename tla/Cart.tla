-------------------------------- MODULE Cart --------------------------------
(***************************************************************************)
(* The cart of one user (cart/cart_methods.py) and the routine that is to  *)
(* bring it to the database (cart/routines/offload_task.py).  Three keys   *)
(* in Redis hold a set of items each; a call reads them and writes them    *)
(* back whole, one command at a time, and only the cart itself expires.    *)
(* No router and no schedule of the program refers to either file.         *)
(***************************************************************************)
EXTENDS Naturals, FiniteSets

CONSTANTS
    CartItems,
    CartCalls,
    MaxCartCalls   \* bound: calls that are ever made

ASSUME CartAssumption == CartItems # {} /\ MaxCartCalls \in Nat

Keys == {"cart", "pre_offload", "pre_deletion"}

Unread == [k \in Keys |-> {}]

VARIABLES
    store,      \* what the keys hold; an empty set is no key
    offloadLock,\* cart_offload_lock
    cpc,        \* control of a call
    item,       \* its item
    saw,        \* what it has read
    wanted,     \* history: items added and not removed, by the calls that returned
    faded,      \* history: items whose cart expired with them
    doubled,    \* history: items that were in the cart and in pre_offload at once
    crossed,    \* history: items of calls that ran at once
    calls       \* calls made so far

cartVars == <<store, offloadLock, cpc, item, saw, wanted, faded, doubled, crossed, calls>>

Adding == {"add", "add.deletion", "add.undelete", "add.put", "add.pending", "add.offload"}
Removing ==
    {"remove", "remove.pending", "remove.cart", "remove.none", "remove.take",
     "remove.deletion", "remove.mark"}
ClearPcs ==
    {"clear", "clear.cart", "clear.pending", "clear.delete", "clear.deletion", "clear.mark"}

CartTypeOK ==
    /\ store \in [Keys -> SUBSET CartItems]
    /\ offloadLock \in BOOLEAN
    /\ cpc \in [CartCalls -> {"new"} \cup Adding \cup Removing \cup ClearPcs]
    /\ item \in [CartCalls -> CartItems]
    /\ saw \in [CartCalls -> [Keys -> SUBSET CartItems]]
    /\ {wanted, faded, doubled, crossed} \subseteq SUBSET CartItems
    /\ calls \in 0..MaxCartCalls

CartInit ==
    /\ store = [k \in Keys |-> {}]
    /\ offloadLock = FALSE
    /\ cpc = [c \in CartCalls |-> "new"]
    /\ item = [c \in CartCalls |-> CHOOSE i \in CartItems : TRUE]
    /\ saw = [c \in CartCalls |-> Unread]
    /\ wanted = {} /\ faded = {} /\ doubled = {} /\ crossed = {} /\ calls = 0

(* get_cart: what is pending and what is in the cart, merged.  With neither*)
(* it asks the database by CartItem.user_id, which is no column, and fails.*)
Visible == store["pre_offload"] \cup store["cart"]

(* A command of a call: read a key, or write it, and go on.                *)
Read(c, at, key, next(_)) ==
    /\ cpc[c] = at
    /\ saw' = [saw EXCEPT ![c][key] = store[key]]
    /\ cpc' = [cpc EXCEPT ![c] = next(store[key])]
    /\ UNCHANGED <<store, offloadLock, item, wanted, faded, doubled, crossed, calls>>
Write(c, at, key, value, next) ==
    /\ cpc[c] = at
    /\ store' = [store EXCEPT ![key] = value]
    /\ cpc' = [cpc EXCEPT ![c] = next]
    /\ doubled' = doubled \cup (store'["cart"] \cap store'["pre_offload"])
    /\ saw' = IF next = "new" THEN [saw EXCEPT ![c] = Unread] ELSE saw
    /\ UNCHANGED <<offloadLock, item, faded, crossed, calls>>

Busy(c) == cpc[c] # "new"
Clearing(c) == cpc[c] \in ClearPcs
CartCall(c, first, i) ==
    /\ cpc[c] = "new" /\ calls < MaxCartCalls
    /\ calls' = calls + 1
    /\ cpc' = [cpc EXCEPT ![c] = first]
    /\ item' = [item EXCEPT ![c] = i]
    /\ crossed' = crossed \cup
          LET others == {d \in CartCalls : Busy(d)}
          IN  CASE others = {} -> {}
                [] first = "clear" \/ (\E d \in others : Clearing(d)) -> CartItems
                [] OTHER -> {i} \cup {item[d] : d \in others}
    /\ UNCHANGED <<store, offloadLock, saw, wanted, faded, doubled>>

----------------------------------------------------------------------------
(* add_to_cart: an item pending deletion goes back to the cart; an item    *)
(* that is not in an existing cart goes to the cart; any other is pending  *)
(* offload, also one that is in the cart.                                  *)

Adds(c) == wanted' = wanted \cup {item[c]}
AddReadsCart(c) == Read(c, "add", "cart", LAMBDA v : "add.deletion")
AddReadsDeletion(c) ==
    Read(c, "add.deletion", "pre_deletion",
         LAMBDA v : IF item[c] \in v THEN "add.undelete"
                    ELSE IF saw[c]["cart"] # {} /\ item[c] \notin saw[c]["cart"]
                    THEN "add.put" ELSE "add.pending")
AddUndeletes(c) ==
    /\ Write(c, "add.undelete", "pre_deletion", saw[c]["pre_deletion"] \ {item[c]}, "add.put")
    /\ UNCHANGED wanted
AddPuts(c) ==
    /\ Write(c, "add.put", "cart", saw[c]["cart"] \cup {item[c]}, "new") /\ Adds(c)
AddReadsPending(c) == Read(c, "add.pending", "pre_offload", LAMBDA v : "add.offload")
AddOffloads(c) ==
    /\ Write(c, "add.offload", "pre_offload",
             IF item[c] \in saw[c]["pre_offload"]
             THEN store["pre_offload"] ELSE saw[c]["pre_offload"] \cup {item[c]}, "new")
    /\ Adds(c)

(* remove_from_cart: from what is pending, or else from the cart.          *)
Removes(c) == wanted' = wanted \ {item[c]}
RemoveReads(c) ==
    Read(c, "remove", "pre_offload",
         LAMBDA v : IF item[c] \in v THEN "remove.pending" ELSE "remove.cart")
(* Mutant: everything that is pending goes.                                *)
RemovePendingAll(c) ==
    /\ Write(c, "remove.pending", "pre_offload", {}, "new") /\ Removes(c)
RemovePending(c) ==
    /\ Write(c, "remove.pending", "pre_offload", saw[c]["pre_offload"] \ {item[c]}, "new")
    /\ Removes(c)
RemoveReadsCart(c) ==
    Read(c, "remove.cart", "cart",
         LAMBDA v : IF item[c] \in v THEN "remove.take" ELSE "remove.none")
RemoveNothing(c) ==
    /\ Write(c, "remove.none", "cart", store["cart"], "new") /\ Removes(c)
RemoveTakes(c) ==
    /\ Write(c, "remove.take", "cart", saw[c]["cart"] \ {item[c]}, "remove.deletion")
    /\ UNCHANGED wanted
RemoveReadsDeletion(c) ==
    Read(c, "remove.deletion", "pre_deletion", LAMBDA v : "remove.mark")
RemoveMarks(c) ==
    /\ Write(c, "remove.mark", "pre_deletion", saw[c]["pre_deletion"] \cup {item[c]}, "new")
    /\ Removes(c)

(* clear_cart: both are deleted, and their items are pending deletion.     *)
ClearReads(c) == Read(c, "clear", "pre_offload", LAMBDA v : "clear.cart")
ClearReadsCart(c) == Read(c, "clear.cart", "cart", LAMBDA v : "clear.pending")
Joint(c) == saw[c]["pre_offload"] \cup saw[c]["cart"]
ClearPending(c) ==
    /\ Write(c, "clear.pending", "pre_offload",
             IF saw[c]["pre_offload"] = {} THEN store["pre_offload"] ELSE {}, "clear.delete")
    /\ UNCHANGED wanted
ClearDeletes(c) ==
    /\ Write(c, "clear.delete", "cart",
             IF saw[c]["cart"] = {} THEN store["cart"] ELSE {}, "clear.deletion")
    /\ UNCHANGED wanted
ClearReadsDeletion(c) == Read(c, "clear.deletion", "pre_deletion", LAMBDA v : "clear.mark")
ClearMarks(c) ==
    /\ Write(c, "clear.mark", "pre_deletion",
             IF Joint(c) = {} THEN store["pre_deletion"]
             ELSE saw[c]["pre_deletion"] \cup Joint(c), "new")
    /\ wanted' = {}

----------------------------------------------------------------------------
CartExpires ==
    /\ store["cart"] # {}
    /\ store' = [store EXCEPT !["cart"] = {}]
    /\ faded' = faded \cup store["cart"]
    /\ UNCHANGED <<offloadLock, cpc, item, saw, wanted, doubled, crossed, calls>>

(* The routine, run by hand: Redis answers with str, and the routine calls *)
(* decode() on the first key it finds; the error is logged and the lock is *)
(* released, with nothing moved.                                           *)
OffloadStarts ==
    /\ ~offloadLock /\ offloadLock' = TRUE
    /\ UNCHANGED <<store, cpc, item, saw, wanted, faded, doubled, crossed, calls>>
OffloadGivesUp ==
    /\ offloadLock /\ offloadLock' = FALSE
    /\ UNCHANGED <<store, cpc, item, saw, wanted, faded, doubled, crossed, calls>>

CartStep(c) ==
    \/ \E first \in {"add", "remove", "clear"}, i \in CartItems : CartCall(c, first, i)
    \/ AddReadsCart(c) \/ AddReadsDeletion(c) \/ AddUndeletes(c) \/ AddPuts(c)
    \/ AddReadsPending(c) \/ AddOffloads(c)
    \/ RemoveReads(c) \/ RemovePending(c) \/ RemoveReadsCart(c) \/ RemoveNothing(c)
    \/ RemoveTakes(c) \/ RemoveReadsDeletion(c) \/ RemoveMarks(c)
    \/ ClearReads(c) \/ ClearReadsCart(c) \/ ClearPending(c) \/ ClearDeletes(c)
    \/ ClearReadsDeletion(c) \/ ClearMarks(c)

CartNext ==
    \/ \E c \in CartCalls : CartStep(c)
    \/ CartExpires \/ OffloadStarts \/ OffloadGivesUp

CartSpec == CartInit /\ [][CartNext]_cartVars

----------------------------------------------------------------------------
(* When no call runs, the cart shows of the items whose calls never ran at *)
(* once with another what was added and not removed, but for what went with*)
(* an expired cart: nothing else keeps it.  What was removed can still show*)
(* only if it was added again while it was in the cart.                    *)
CartShowsWanted ==
    (\A c \in CartCalls : ~Busy(c)) =>
        /\ wanted \ (faded \cup crossed) \subseteq Visible
        /\ Visible \ (wanted \cup crossed) \subseteq doubled

============================================================================
