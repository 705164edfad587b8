-------------------------------- MODULE Catalog --------------------------------
(***************************************************************************)
(* The distributions table and the operations of the administrators        *)
(* (app/admin.py).  The name of a distribution is not unique for the       *)
(* database: distro[n] holds the rows of that name, in order of insertion. *)
(***************************************************************************)
EXTENDS Naturals, Gunicorn

CONSTANTS Distros,      \* names of distributions
          MaxCopies     \* bound: rows of one name

ASSUME CopiesAssumption == MaxCopies \in Nat

VARIABLES distro,
          adm           \* what the handler of each process holds in memory

catalogVars == <<distro, adm>>

Copies == 1..MaxCopies
DistroStatus == {"enabled", "disabled"}

AdmIdle == [pc |-> "idle"]

Adm == {AdmIdle} \cup [pc : {"creating"}, name : Distros]
       \cup [pc : {"toggling"}, name : Distros, copy : Copies,
             status : DistroStatus]

CatalogTypeOK ==
    /\ distro \in [Distros -> [Copies -> DistroStatus \cup {"absent"}]]
    /\ adm \in [Requests -> Adm]

CatalogInit == /\ distro = [n \in Distros |-> [c \in Copies |-> "absent"]]
               /\ adm = [r \in Requests |-> AdmIdle]

Rows(n) == {c \in Copies : distro[n][c] # "absent"}

(* The rows of the names in new, inserted after those that are there.      *)
HasRoom(new) == \A n \in new : Cardinality(Rows(n)) < MaxCopies

Inserted(new) ==
    [n \in Distros |->
        IF n \in new
        THEN [distro[n] EXCEPT ![Cardinality(Rows(n)) + 1] = "enabled"]
        ELSE distro[n]]

-----------------------------------------------------------------------------
(* POST /admin/distributions: no row has the name ...                      *)
CreateCheck(r, n) ==
    /\ adm[r] = AdmIdle
    /\ Rows(n) = {}
    /\ adm' = [adm EXCEPT ![r] = [pc |-> "creating", name |-> n]]
    /\ UNCHANGED distro

(* ... when the query was made; the commit asks no more.                   *)
CreateCommit(r) ==
    /\ adm[r].pc = "creating"
    /\ HasRoom({adm[r].name})
    /\ distro' = Inserted({adm[r].name})
    /\ adm' = [adm EXCEPT ![r] = AdmIdle]

(* Mutant: a status that the table does not allow.                         *)
ToggledActive(n, c) == IF distro[n][c] = "enabled" THEN "disabled" ELSE "active"

Toggled(n, c) == IF distro[n][c] = "enabled" THEN "disabled" ELSE "enabled"

(* POST /admin/distributions/<id>/toggle: the new status is computed from  *)
(* the one that was loaded.                                                *)
ToggleLoad(r, n, c) ==
    /\ adm[r] = AdmIdle
    /\ c \in Rows(n)
    /\ adm' = [adm EXCEPT ![r] =
                 [pc |-> "toggling", name |-> n, copy |-> c,
                  status |-> Toggled(n, c)]]
    /\ UNCHANGED distro

ToggleCommit(r) ==
    /\ adm[r].pc = "toggling"
    /\ distro' = [distro EXCEPT ![adm[r].name][adm[r].copy] = adm[r].status]
    /\ adm' = [adm EXCEPT ![r] = AdmIdle]

(* The process is killed.                                                  *)
AdminDies(r) == /\ adm[r] # AdmIdle
                /\ adm' = [adm EXCEPT ![r] = AdmIdle]
                /\ UNCHANGED distro

Administer(r) == \/ \E n \in Distros : CreateCheck(r, n)
                 \/ CreateCommit(r)
                 \/ \E n \in Distros, c \in Copies : ToggleLoad(r, n, c)
                 \/ ToggleCommit(r)
                 \/ AdminDies(r)
=============================================================================
