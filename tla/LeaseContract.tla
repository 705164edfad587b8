------------------------------ MODULE LeaseContract ------------------------------
(***************************************************************************)
(* What Shellter promises about rentals, without its processes, workers    *)
(* and containers: a lease is granted once, to one user, within a limit    *)
(* per user; it ends once, and an ended lease is never active again.       *)
(***************************************************************************)
EXTENDS Naturals, FiniteSets

CONSTANTS Leases, Users, None,
          Limit         \* leases a user may have active at a time

VARIABLE lease

Active(u) == {i \in Leases : lease[i].state = "active" /\ lease[i].user = u}

Init == lease = [i \in Leases |-> [state |-> "none", user |-> None]]

(* A rental is given to a user who has fewer than the limit.               *)
Grant(i, u) ==
    /\ lease[i].state = "none"
    /\ Cardinality(Active(u)) < Limit
    /\ lease' = [lease EXCEPT ![i] = [state |-> "active", user |-> u]]

(* The container could not be created: the rental ends as it begins.       *)
Refuse(i, u) ==
    /\ lease[i].state = "none"
    /\ lease' = [lease EXCEPT ![i] = [state |-> "over", user |-> u]]

(* The user stops it, or its time has come.                                *)
End(i) == /\ lease[i].state = "active"
          /\ lease' = [lease EXCEPT ![i] = [state |-> "over", user |-> lease[i].user]]

Next == \/ \E i \in Leases, u \in Users : Grant(i, u) \/ Refuse(i, u)
        \/ \E i \in Leases : End(i)

Spec == Init /\ [][Next]_lease
=============================================================================
