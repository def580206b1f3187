----------------------------- MODULE MCAccounts -----------------------------
(* Accounts for TLC: one user at the beginning.  The operations that meet  *)
(* in a behaviour are those on one kind of secret, with what creates and   *)
(* removes the accounts they are about.                                    *)
EXTENDS Accounts, TLC

CONSTANTS a1, e1

MCEmailOf == a1 :> e1
MCScenarios ==
    {{"sendCode", "confirmCode", "signUp", "changeEmail", "google", "recordEmail"},
     {"sendReset", "changePassword", "recordEmail", "deleteAccount"},
     {"confirmPassword", "updatePassword", "recordPassword", "deleteAccount"},
     {"sendInvite", "acceptInvite", "deleteAccount"},
     {"register", "google", "deleteAccount"}}

============================================================================
