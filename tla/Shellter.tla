-------------------------------- MODULE Shellter --------------------------------
(***************************************************************************)
(* The whole controller: request processes, expiration worker, recovery    *)
(* worker, heartbeats, redeployments and clock over the shared rows and    *)
(* the agents.                                                             *)
(***************************************************************************)
EXTENDS Leasing, Failover

vars == <<leaseVars, rec, hb, webVars>>

TypeOK == LeaseTypeOK /\ RecTypeOK /\ HbTypeOK /\ WebTypeOK

Init == LeaseInit /\ RecInit /\ HbInit /\ WebInit

Next == \/ (ServeRequest \/ ServeHeartbeat) /\ UNCHANGED <<exp, rec>>
        \/ ExpNext /\ UNCHANGED <<req, rec, hb, webVars>>
        \/ RecNext /\ UNCHANGED <<req, exp, hb, webVars>>
        \/ AgentNext /\ UNCHANGED <<dbVars, req, exp, rec, hb, webVars>>
        \/ Tick /\ UNCHANGED <<container, req, exp, rec, hb, webVars>>
        \/ (WebStops \/ Boot) /\ UNCHANGED <<exp, rec>>
        \/ \E w \in Workers : Unheard(w) /\ UNCHANGED <<exp, rec>>

Spec == Init /\ [][Next]_vars

-----------------------------------------------------------------------------
(* What counts against the quota of a user is on the user's dashboard, or  *)
(* in error after a failed move: no mix of stop, expiration and recovery   *)
(* takes the instance and leaves the rental.                               *)
ActiveRentalHasInstance ==
    \A i \in Ids : ActiveRental(i) =>
        \/ i \in Dashboard(rental[i].user)
        \/ inst[i].status = "error"
=============================================================================
