-------------------------------- MODULE Accounts --------------------------------
(***************************************************************************)
(* The users table and POST /register (app/auth.py).  Sessions are signed  *)
(* cookies, so login and logout change nothing here; what a registration   *)
(* holds in memory is reg[r], the account it is about to insert.           *)
(***************************************************************************)
EXTENDS Gunicorn

CONSTANTS Names, Emails     \* what visitors and seeds may ask for

VARIABLES accounts, reg

accountVars == <<accounts, reg>>

Account == [name : Names, email : Emails]

AccountsTypeOK == /\ accounts \in SUBSET Account
                  /\ reg \in [Requests -> SUBSET Account]

AccountsInit == accounts = {} /\ reg = [r \in Requests |-> {}]

(* Mutant: the table has no unique constraint.                             *)
ClashNever(new) == FALSE

(* The unique constraints of users.username and users.email.               *)
Clash(new) == \E a \in new, b \in accounts : a.name = b.name \/ a.email = b.email

-----------------------------------------------------------------------------
(* Both queries find nothing.                                              *)
RegCheck(r, a) ==
    /\ reg[r] = {}
    /\ \A b \in accounts : a.name # b.name /\ a.email # b.email
    /\ reg' = [reg EXCEPT ![r] = {a}]
    /\ UNCHANGED accounts

RegCommit(r) ==
    /\ reg[r] # {}
    /\ ~Clash(reg[r])
    /\ accounts' = accounts \cup reg[r]
    /\ reg' = [reg EXCEPT ![r] = {}]

(* IntegrityError, which register() does not catch (500), or a kill.       *)
RegFail(r) ==
    /\ reg[r] # {}
    /\ reg' = [reg EXCEPT ![r] = {}]
    /\ UNCHANGED accounts

Register(r) == \/ \E a \in Account : RegCheck(r, a)
               \/ RegCommit(r)
               \/ RegFail(r)
=============================================================================
