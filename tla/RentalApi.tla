------------------------------- MODULE RentalApi -------------------------------
(***************************************************************************)
(* The handlers of app/api.py that change state, run by gunicorn's sync    *)
(* processes: each serves one request at a time and several run at once.   *)
(* An action is the stretch of a handler between two points where another  *)
(* process can slip in: a query, a call to an agent, a commit.             *)
(***************************************************************************)
EXTENDS ResourceManager, Agent, Gunicorn

VARIABLE req            \* what the handler of each process holds in memory

apiVars == <<dbVars, container, req>>

Pc == {"idle",
       "admitted", "chosen", "flushed", "created", "counted",   \* rent
       "loaded", "called", "stopping",                          \* stop
       "extending"}                                             \* extend

RentPc == {"admitted", "chosen", "flushed", "created", "counted"}

Idle == [pc |-> "idle", user |-> None, worker |-> None, id |-> NoId,
         port |-> NoPort, cid |-> NoCid, end |-> 0,
         status |-> "absent",       \* instance.status as loaded
         active |-> FALSE,          \* rental.status was ACTIVE as loaded
         flag |-> FALSE]            \* the worker's status is to be written

(* Past the first steps of a rent a handler works on some instance.        *)
Request == {q \in [pc : Pc, user : Users \cup {None},
                   worker : Workers \cup {None}, id : Ids \cup {NoId},
                   port : Ports \cup {NoPort}, cid : Cids \cup {NoCid},
                   end : Times,
                   status : InstanceStatus \cup {"absent"},
                   active : BOOLEAN, flag : BOOLEAN] :
               q.pc \in {"idle", "admitted", "chosen"} \/ q.id \in Ids}

ApiTypeOK == DbTypeOK /\ AgentTypeOK /\ req \in [Requests -> Request]

ApiInit == DbInit /\ AgentInit /\ req = [r \in Requests |-> Idle]

Goto(r, new) == req' = [req EXCEPT ![r] = new]

-----------------------------------------------------------------------------
(* Mutant: off by one.                                                     *)
BelowQuotaOrAt(u) == Cardinality(ActiveRentals(u)) <= Quota

(* The quota, by a count of the committed rows.                            *)
BelowQuota(u) == Cardinality(ActiveRentals(u)) < Quota

(* POST /rent                                                              *)
RentAdmit(r, u) ==
    /\ req[r].pc = "idle"
    /\ BelowQuota(u)
    /\ Goto(r, [Idle EXCEPT !.pc = "admitted", !.user = u])
    /\ UNCHANGED <<dbVars, container>>

(* select_worker(), or 503.                                                *)
RentChoose(r) ==
    /\ req[r].pc = "admitted"
    /\ \/ \E w \in SelectWorker(inst) :
             Goto(r, [req[r] EXCEPT !.pc = "chosen", !.worker = w])
       \/ SelectWorker(inst) = {} /\ Goto(r, Idle)
    /\ UNCHANGED <<dbVars, container>>

(* pick_free_ssh_port() and the flush that draws the id, or 503.           *)
RentFlush(r) ==
    /\ req[r].pc = "chosen"
    /\ \/ /\ seq < MaxId
          /\ seq' = seq + 1
          /\ \E p \in PickFreeSshPort(inst), d \in Durations :
                /\ now + d <= MaxEnd
                /\ Goto(r, [req[r] EXCEPT !.pc = "flushed", !.id = seq + 1,
                                          !.port = p, !.end = now + d])
       \/ PickFreeSshPort(inst) = {} /\ Goto(r, Idle) /\ UNCHANGED seq
    /\ UNCHANGED <<now, worker, inst, rental, locked, container>>

(* The agent answered.                                                     *)
RentCreate(r) ==
    /\ req[r].pc = "flushed"
    /\ \E c \in Cids :
          /\ CreateOk(req[r].worker, req[r].id, req[r].port, c)
          /\ Goto(r, [req[r] EXCEPT !.pc = "created", !.cid = c])
    /\ UNCHANGED dbVars

(* The instance row of the request, with the status it is to have.         *)
OwnInstance(q, status) ==
    [status |-> status, worker |-> q.worker, port |-> q.port, cid |-> q.cid]

(* worker_is_full(): the session counts its own flushed row too.           *)
RentCount(r) ==
    /\ req[r].pc = "created"
    /\ LET q    == req[r]
           rows == [inst EXCEPT ![q.id] = OwnInstance(q, "running")]
       IN  Goto(r, [q EXCEPT !.pc = "counted",
                             !.flag = WorkerIsFull(rows, q.worker)])
    /\ UNCHANGED <<dbVars, container>>

(* The rows of the request become visible, the full worker with them,      *)
(* whatever the worker's row says by now.                                  *)
RentCommit(r) ==
    /\ req[r].pc = "counted"
    /\ LET q == req[r] IN
       /\ inst' = [inst EXCEPT ![q.id] = OwnInstance(q, "running")]
       /\ rental' = [rental EXCEPT ![q.id] =
                       [status |-> "ACTIVE", user |-> q.user, end |-> q.end]]
       /\ worker' = IF q.flag
                    THEN [worker EXCEPT ![q.worker].status = "BUSY"]
                    ELSE worker
    /\ Goto(r, Idle)
    /\ UNCHANGED <<now, seq, locked, container>>

(* AgentError: the rows are committed as error and CANCELLED, 502.         *)
RentFail(r) ==
    /\ req[r].pc = "flushed"
    /\ LET q == req[r] IN
       /\ CreateError(q.worker, q.id, q.port)
       /\ inst' = [inst EXCEPT ![q.id] = OwnInstance(q, "error")]
       /\ rental' = [rental EXCEPT ![q.id] =
                       [status |-> "CANCELLED", user |-> q.user, end |-> q.end]]
    /\ Goto(r, Idle)
    /\ UNCHANGED <<now, seq, worker, locked>>

-----------------------------------------------------------------------------
(* POST /instances/<id>/stop by the owner, whatever the status: load the   *)
(* instance, its rental and its worker.  Without container no call.        *)
StopLoad(r, u, i) ==
    /\ req[r].pc = "idle"
    /\ Committed(i) /\ OwnedBy(i, u)
    /\ Goto(r, [pc     |-> IF inst[i].cid # NoCid THEN "loaded" ELSE "called",
                user   |-> u,
                worker |-> inst[i].worker,
                id     |-> i,
                port   |-> NoPort,
                cid    |-> inst[i].cid,
                end    |-> 0,
                status |-> inst[i].status,
                active |-> ActiveRental(i),
                flag   |-> worker[inst[i].worker].status = "BUSY"])
    /\ UNCHANGED <<dbVars, container>>

(* The deletion on the agent; AgentError is swallowed.                     *)
StopCall(r) ==
    /\ req[r].pc = "loaded"
    /\ \/ DeleteOk(req[r].worker, req[r].cid)
       \/ DeleteError(req[r].worker, req[r].cid)
    /\ Goto(r, [req[r] EXCEPT !.pc = "called"])
    /\ UNCHANGED dbVars

(* Mutant: a status that rentals have and instances do not.                *)
StoppedAsCancelled(q) == [inst EXCEPT ![q.id].status = "CANCELLED"]

(* SQLAlchemy updates a column only when its value differs from the one    *)
(* that was loaded.                                                        *)
Stopped(q) == IF q.status = "stopped" THEN inst
              ELSE [inst EXCEPT ![q.id].status = "stopped"]

(* Mutant: the rental is forgotten.                                        *)
CancelledNot(q) == rental

Cancelled(q) == IF q.active THEN [rental EXCEPT ![q.id].status = "CANCELLED"]
                ELSE rental

(* The query of worker_is_full() flushes the updates, which locks the      *)
(* rows; it runs only for a worker that was BUSY when it was loaded.       *)
StopFlush(r) ==
    /\ req[r].pc = "called"
    /\ req[r].id \notin locked
    /\ locked' = locked \cup {req[r].id}
    /\ LET q == req[r] IN
       Goto(r, [q EXCEPT
                 !.pc = "stopping",
                 !.flag = q.flag /\ ~WorkerIsFull(Stopped(q), q.worker)])
    /\ UNCHANGED <<now, seq, worker, inst, rental, container>>

StopCommit(r) ==
    /\ req[r].pc = "stopping"
    /\ LET q == req[r] IN
       /\ inst' = Stopped(q)
       /\ rental' = Cancelled(q)
       /\ worker' = IF q.flag
                    THEN [worker EXCEPT ![q.worker].status = "AVAILABLE"]
                    ELSE worker
       /\ locked' = locked \ {q.id}
    /\ Goto(r, Idle)
    /\ UNCHANGED <<now, seq, container>>

-----------------------------------------------------------------------------
Extended(i, d) == rental[i].end + d

(* POST /instances/<id>/extend by the owner: read the ACTIVE rental.       *)
ExtendLoad(r, u, i, d) ==
    /\ req[r].pc = "idle"
    /\ Committed(i) /\ OwnedBy(i, u)
    /\ ActiveRental(i)
    /\ Extended(i, d) <= MaxEnd
    /\ Goto(r, [Idle EXCEPT !.pc = "extending", !.user = u, !.id = i,
                            !.end = Extended(i, d)])
    /\ UNCHANGED <<dbVars, container>>

(* Mutant: the whole row is written, as it was loaded.                     *)
ExtendCommitWholeRow(r) ==
    /\ req[r].pc = "extending"
    /\ req[r].id \notin locked
    /\ rental' = [rental EXCEPT ![req[r].id].end = req[r].end,
                                ![req[r].id].status = "ACTIVE"]
    /\ Goto(r, Idle)
    /\ UNCHANGED <<now, seq, worker, inst, locked, container>>

(* The commit writes the sum that was computed, and only end_time.         *)
ExtendCommit(r) ==
    /\ req[r].pc = "extending"
    /\ req[r].id \notin locked
    /\ rental' = [rental EXCEPT ![req[r].id].end = req[r].end]
    /\ Goto(r, Idle)
    /\ UNCHANGED <<now, seq, worker, inst, locked, container>>

-----------------------------------------------------------------------------
(* gunicorn kills the process, or the database aborts the transaction:     *)
(* the session is rolled back and the record forgotten.  The agent that it *)
(* was waiting for may go on.                                              *)
RequestDies(r) ==
    /\ req[r].pc # "idle"
    /\ locked' = IF req[r].pc = "stopping" THEN locked \ {req[r].id} ELSE locked
    /\ \/ UNCHANGED container
       \/ /\ req[r].pc = "flushed"
          /\ \E c \in Cids : CreateLate(req[r].worker, req[r].id, req[r].port, c)
    /\ Goto(r, Idle)
    /\ UNCHANGED <<now, seq, worker, inst, rental>>

Rent(r) == \/ \E u \in Users : RentAdmit(r, u)
           \/ RentChoose(r) \/ RentFlush(r)
           \/ RentCreate(r) \/ RentCount(r) \/ RentCommit(r)
           \/ RentFail(r)

Stop(r) == \/ \E u \in Users, i \in Ids : StopLoad(r, u, i)
           \/ StopCall(r) \/ StopFlush(r) \/ StopCommit(r)

Extend(r) == \/ \E u \in Users, i \in Ids, d \in Durations :
                    ExtendLoad(r, u, i, d)
             \/ ExtendCommit(r)

ApiNext == \E r \in Requests : Rent(r) \/ Stop(r) \/ Extend(r) \/ RequestDies(r)

ApiAndAgents == \/ ApiNext
                \/ AgentNext /\ UNCHANGED <<dbVars, req>>

ApiSpec == ApiInit /\ [][ApiAndAgents]_apiVars

-----------------------------------------------------------------------------
HIDDEN_STATUSES == {"stopped", "error", "deleted"}

(* GET /dashboard: the instances of u's rentals, each with its worker and  *)
(* port as the ssh command.                                                *)
Dashboard(u) ==
    {i \in Ids : OwnedBy(i, u) /\ inst[i].status \notin HIDDEN_STATUSES}

(* Requests that rent for u and are past the quota check.                  *)
Renting(u) == {r \in Requests : req[r].pc \in RentPc /\ req[r].user = u}

(* Requests that rent and have chosen w.                                   *)
Placing(w) == {r \in Requests : req[r].pc \in RentPc \ {"admitted"}
                                /\ req[r].worker = w}

RentalClaims(u) == Cardinality(ActiveRentals(u)) + Cardinality(Renting(u))

PlaceClaims(w) == ActiveCount(inst, w) + Cardinality(Placing(w))

(* Two rents of a user may both count the rentals before either commits.   *)
(* The quota check of rent() still bounds what is committed and what is    *)
(* under way together: one rental per process beyond the last allowed one, *)
(* however the processes mix, and whatever fails on the way.               *)
QuotaClaims ==
    \A u \in Users : RentalClaims(u) <= Quota - 1 + Cardinality(Requests)

(* "Quota : nombre maximum d'instances actives simultanées pour cet        *)
(* utilisateur" (models.py:167).                                           *)
QuotaRespected == \A u \in Users : Cardinality(ActiveRentals(u)) <= Quota

(* The same for the places of a worker, that select_worker() checks.       *)
CapacityClaims ==
    \A w \in Workers : PlaceClaims(w) <= Capacity - 1 + Cardinality(Requests)

(* An instance is running exactly as long as its rental is ACTIVE: no      *)
(* handler commits one half of the pair, even when two of them overlap.    *)
LeaseConsistent ==
    \A i \in Ids : inst[i].status = "running" <=> ActiveRental(i)

(* A committed instance names the container that was started for it, on    *)
(* the worker and the port its ssh command shows.                          *)
EndpointGenuine ==
    \A i \in Ids : inst[i].cid # NoCid =>
        LET c == container[inst[i].cid] IN
        c.id = i /\ c.worker = inst[i].worker /\ c.port = inst[i].port
=============================================================================
