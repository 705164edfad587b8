-------------------------------- MODULE Registry --------------------------------
(***************************************************************************)
(* What Shellter promises about accounts, without its processes: accounts  *)
(* are opened, never changed or closed, and no two share a name or an      *)
(* e-mail address.                                                         *)
(***************************************************************************)
CONSTANT Account        \* records with a name and an email

VARIABLE accounts

Distinct(A) == \A a, b \in A : a # b => a.name # b.name /\ a.email # b.email

Init == accounts = {}

(* One account or several (the seed opens its own in one commit).          *)
Open == /\ accounts' \in SUBSET Account
        /\ accounts \subseteq accounts'
        /\ Distinct(accounts')

Spec == Init /\ [][Open]_accounts
=============================================================================
