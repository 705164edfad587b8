-------------------------------- MODULE Failover --------------------------------
(***************************************************************************)
(* Workers fail and come back, and the web server with them, while users   *)
(* rent and stop: the request processes, the recovery worker, heartbeats   *)
(* and redeployments.                                                      *)
(***************************************************************************)
EXTENDS RentalApi, Recovery, Redeploy

failVars == <<apiVars, rec, hb, webVars>>

FailInit == ApiInit /\ RecInit /\ HbInit /\ WebInit

(* The steps while the recovery worker does not crash.                     *)
FailStep == \/ (ServeRequest \/ ServeHeartbeat) /\ UNCHANGED rec
            \/ RecStep /\ UNCHANGED <<req, hb, webVars>>
            \/ (WebStops \/ Boot) /\ UNCHANGED rec
            \/ AgentNext /\ UNCHANGED <<dbVars, req, rec, hb, webVars>>
            \/ \E w \in Workers : Unheard(w) /\ UNCHANGED rec

FailNext == \/ FailStep
            \/ RecCrash /\ UNCHANGED <<req, hb, webVars>>

FailSafety == FailInit /\ [][FailNext]_failVars

(* The recovery worker loops and is restarted; a request that holds locks  *)
(* ends, and PostgreSQL queues those who wait for a lock, so that a        *)
(* process that meets locked rows again and again gets its turn: strong    *)
(* fairness.  start.py is restarted until it does not fail.  The agents    *)
(* that are not flaky keep sending heartbeats; they wait for a process     *)
(* like every request, and a process that has begun with one ends.  A web  *)
(* server that stops again and again does not cut each of them off.        *)
FailFairness ==
    /\ SF_failVars(RecStep /\ UNCHANGED <<req, hb, webVars>>)
    /\ \A r \in Requests :
          WF_failVars(/\ StopCommit(r) \/ RequestDies(r)
                      /\ UNCHANGED <<rec, hb, webVars>>)
    /\ WF_failVars(BootLoad /\ UNCHANGED rec)
    /\ SF_failVars(BootCommit /\ UNCHANGED rec)
    /\ \A w \in Workers : SF_failVars(HbCommit(w) /\ ServeHeartbeat /\ UNCHANGED rec)
    /\ \A w \in Workers \ Flaky :
          SF_failVars(HbLoad(w) /\ ServeHeartbeat /\ UNCHANGED rec)

(* With crashes of the recovery worker, and without.                       *)
FailSpec   == FailSafety /\ FailFairness
SteadySpec == FailInit /\ [][FailStep]_failVars /\ FailFairness

-----------------------------------------------------------------------------
(* Recovery is one more process that places instances, and it may mark     *)
(* recovering an instance that a stop has just taken off a full worker: a  *)
(* worker holds at most one instance per process beyond the last that the  *)
(* capacity check of select_worker() allows, counting the recovery worker. *)
CapacityBoundFailover ==
    \A w \in Workers : ActiveCount(inst, w) <= Capacity + Cardinality(Requests)

(* The worker that recovery has chosen is another one, and is not taken    *)
(* OFFLINE before the instance is committed on it: only the recovery       *)
(* worker itself takes workers OFFLINE.                                    *)
RecoveryTargetOnline ==
    rec.pc \in {"placed", "created"} =>
        rec.target # rec.from /\ worker[rec.target].status # "OFFLINE"

(* While the recovery worker does not crash, an instance that runs on a    *)
(* worker whose heartbeat is lost, before it is OFFLINE, does not stay     *)
(* there as running: it is moved or taken in charge, unless the heartbeat  *)
(* comes back first.  (That of a worker that is not flaky always does.)    *)
FailedWorkerDrained ==
    \A i \in Ids, w \in Flaky :
        (inst[i].status = "running" /\ inst[i].worker = w /\ Stale(w))
        ~> (\/ inst[i].status # "running" \/ inst[i].worker # w
            \/ worker[w].fresh)

(* A worker whose agent keeps sending heartbeats does not stay OFFLINE,    *)
(* even when a heartbeat, the recovery worker and a redeployment write its *)
(* row together.                                                           *)
WorkerRevives ==
    \A w \in Workers \ Flaky :
        worker[w].status = "OFFLINE" ~> worker[w].status # "OFFLINE"

(* db.md:107-117: a stopped, deleted or failed instance is at its end; it  *)
(* does not run again.                                                     *)
EndedStaysEnded ==
    [][\A i \in Ids : inst[i].status \in {"stopped", "deleted", "error"}
                      => inst'[i].status \notin {"running", "recovering"}]_inst

(* recovery_worker.py:7-9: the rentals of a dead worker are started again  *)
(* elsewhere.  An instance does not stay recovering for ever while another *)
(* worker could take it.                                                   *)
RecoveringResumes ==
    \A i \in Ids :
        (/\ inst[i].status = "recovering"
         /\ [](SelectWorker(inst) \ {inst[i].worker} # {}))
        ~> inst[i].status # "recovering"
=============================================================================
