---------------------------- MODULE ResourceManager ----------------------------
(***************************************************************************)
(* app/resource_manager.py: which worker, which port, is the worker full.  *)
(* The operators take the instance rows they count, because a query of a   *)
(* session sees the committed rows and the rows the session has flushed.   *)
(***************************************************************************)
EXTENDS Database

ACTIVE_INSTANCE_STATUSES == {"pending", "creating", "running", "recovering"}

Active(rows, i) == rows[i].status \in ACTIVE_INSTANCE_STATUSES

(* _active_counts, as the set that it counts.                              *)
ActiveOn(rows, w) == {i \in Ids : Active(rows, i) /\ rows[i].worker = w}

ActiveCount(rows, w) == Cardinality(ActiveOn(rows, w))

(* Mutant: the capacity is off by one.                                     *)
EligibleWhenFull(rows) == {w \in Workers : /\ worker[w].status = "AVAILABLE"
                                           /\ worker[w].fresh
                                           /\ ActiveCount(rows, w) <= Capacity}

Eligible(rows) == {w \in Workers : /\ worker[w].status = "AVAILABLE"
                                   /\ worker[w].fresh
                                   /\ ActiveCount(rows, w) < Capacity}

(* select_worker: a least loaded eligible worker; the query has no ORDER   *)
(* BY, so a tie goes either way.  The empty set is the None it returns.    *)
SelectWorker(rows) ==
    {w \in Eligible(rows) :
        \A v \in Eligible(rows) : ActiveCount(rows, w) <= ActiveCount(rows, v)}

UsedPorts(rows) == {rows[i].port : i \in {j \in Ids : Active(rows, j)}}

FreePorts(rows) == Ports \ UsedPorts(rows)

(* pick_free_ssh_port: the first of the range that no active instance has, *)
(* as a set; the empty set is the None it returns.                         *)
PickFreeSshPort(rows) ==
    {p \in FreePorts(rows) : \A q \in FreePorts(rows) : p <= q}

WorkerIsFull(rows, w) == ActiveCount(rows, w) >= Capacity
=============================================================================
