-------------------------------- MODULE Leasing --------------------------------
(***************************************************************************)
(* The life of a rental while no worker fails: the request processes, the  *)
(* expiration worker, the agents and the clock, over the shared rows.      *)
(***************************************************************************)
EXTENDS RentalApi, Expiration

leaseVars == <<apiVars, exp>>

LeaseTypeOK == ApiTypeOK /\ ExpTypeOK

LeaseInit == ApiInit /\ ExpInit

LeaseNext == \/ ApiNext /\ UNCHANGED exp
             \/ ExpNext /\ UNCHANGED req
             \/ AgentNext /\ UNCHANGED <<dbVars, req, exp>>
             \/ Tick /\ UNCHANGED <<container, req, exp>>

LeaseSafety == LeaseInit /\ [][LeaseNext]_leaseVars

(* What the deployment guarantees.  The expiration worker loops and is     *)
(* restarted.  A pass that is begun again and again is not always cut      *)
(* before its first rental, an agent that is called again and again        *)
(* answers at last, a commit that is tried again and again succeeds: hence *)
(* strong fairness, since each may fail any number of times.  A request    *)
(* that holds locks ends, by its answer or by gunicorn's timeout, and of   *)
(* the stops of one instance not every one is killed before it commits.    *)
LeaseFairness ==
    /\ WF_leaseVars((ExpScan \/ ExpDone) /\ UNCHANGED req)
    /\ SF_leaseVars(ExpLoad /\ UNCHANGED req)
    /\ SF_leaseVars(ExpCall /\ UNCHANGED req)
    /\ SF_leaseVars(ExpCommit /\ UNCHANGED req)
    /\ \A r \in Requests :
          WF_leaseVars((StopCommit(r) \/ RequestDies(r)) /\ UNCHANGED exp)
    /\ \A i \in Ids :
          SF_leaseVars(/\ \E r \in Requests : StopCommit(r) /\ req[r].id = i
                       /\ UNCHANGED exp)

LeaseSpec == LeaseSafety /\ LeaseFairness

-----------------------------------------------------------------------------
(* The expiration worker calls an instance deleted only when its container *)
(* is gone, whatever failed on the way: "on ne prétend pas que le          *)
(* conteneur a été supprimé" (expiration_manager.py:57).                   *)
DeletedMeansGone ==
    \A i \in Ids : inst[i].status = "deleted" =>
        \A c \in Cids : container[c].live => container[c].id # i

(* "le worker n'est peut-être plus plein -> il redevient AVAILABLE"        *)
(* (api.py:162): when nothing is under way, a worker that was left BUSY    *)
(* hosts something.  select_worker() skips a BUSY worker, so that only a   *)
(* stop or an expiration on it can give its capacity back.                 *)
NoStrandedWorker ==
    (\A r \in Requests : req[r].pc = "idle") /\ exp.pc = "idle" =>
        \A w \in Workers :
            worker[w].status = "BUSY" => ActiveOn(inst, w) # {}

(* Two active instances never share an ssh port: pick_free_ssh_port()      *)
(* gives one "non utilisé par une instance active" (resource_manager.py:67)*)
PortsDistinct ==
    \A i, j \in Ids : i # j /\ Active(inst, i) /\ Active(inst, j)
                     => inst[i].port # inst[j].port

(* A paid extension is never taken back: the end of a rental that stays    *)
(* ACTIVE only moves later (docs/api.md: end_time is pushed back by the    *)
(* duration).                                                              *)
ExtensionsKept ==
    [][\A i \in Ids : ActiveRental(i) /\ ActiveRental(i)'
                      => rental'[i].end >= rental[i].end]_rental

(* A rental becomes EXPIRED only when its end, as committed, has come.     *)
ExpiredOnlyWhenDue ==
    [][\A i \in Ids : ActiveRental(i) /\ rental'[i].status = "EXPIRED"
                      => Due(i)]_rental

(* A rental that is due does not stay ACTIVE, in spite of AgentErrors,     *)
(* refused commits and crashes of the worker.                              *)
DueRentalsEnd == \A i \in Ids : Due(i) ~> ~Due(i)

-----------------------------------------------------------------------------
(* The rentals as LeaseContract sees them.                                 *)
Lease(i) ==
    [state |-> CASE rental[i].status = "absent" -> "none"
                 [] rental[i].status = "ACTIVE" -> "active"
                 [] OTHER -> "over",
     user  |-> rental[i].user]

Contract == INSTANCE LeaseContract
                WITH Leases <- Ids,
                     Limit <- Quota - 1 + Cardinality(Requests),
                     lease <- [i \in Ids |-> Lease(i)]

(* However the requests and the expiration mix, a rental is granted once,  *)
(* within the limit, keeps its user, ends once and is never active again.  *)
ImplementsContract == Contract!Spec
=============================================================================
