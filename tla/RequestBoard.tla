---------------------------- MODULE RequestBoard ----------------------------
(***************************************************************************)
(* What a user may rely on about one roommate request and those who apply  *)
(* for it: as if every application and the withdrawal of the request were  *)
(* one atomic step each.  RoommateFinder, with its transactions, locks,    *)
(* faults and crashes, is shown to implement it.                           *)
(***************************************************************************)
CONSTANTS Applicants, Applications

VARIABLES
    posted,    \* the request stands
    entries    \* the applications of a user that refer to it

boardVars == <<posted, entries>>

BoardInit ==
    /\ posted = TRUE
    /\ entries = [a \in Applicants |-> {}]

(* A user who has not applied applies, while the request stands.           *)
Join(a) ==
    /\ posted
    /\ entries[a] = {}
    /\ \E e \in Applications : entries' = [entries EXCEPT ![a] = {e}]
    /\ UNCHANGED posted

(* The request is withdrawn, for good, and no application refers to it.    *)
Withdraw ==
    /\ posted
    /\ posted' = FALSE
    /\ entries' = [a \in Applicants |-> {}]

BoardNext == Withdraw \/ \E a \in Applicants : Join(a)

BoardSpec == BoardInit /\ [][BoardNext]_boardVars

============================================================================
