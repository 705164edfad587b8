-------------------------------- MODULE Recovery --------------------------------
(***************************************************************************)
(* The recovery worker (scripts/recovery_worker.py, app/recovery.py), a    *)
(* single process that Docker restarts: it takes the workers whose         *)
(* heartbeat is old OFFLINE and, in the passes where it took some, starts  *)
(* the instances of every OFFLINE worker anew on another one.              *)
(***************************************************************************)
EXTENDS ResourceManager, Agent

VARIABLE rec

RecPc == {"idle", "marking", "marked", "workers",
          "instances", "checked", "recovering", "placed", "created"}

RecIdle == [pc |-> "idle", workers |-> {}, todo |-> {}, from |-> None,
            id |-> NoId, status |-> "absent", target |-> None,
            port |-> NoPort, cid |-> NoCid]

RecState == [pc : RecPc, workers : SUBSET Workers, todo : SUBSET Ids,
             from : Workers \cup {None}, id : Ids \cup {NoId},
             status : InstanceStatus \cup {"absent"},
             target : Workers \cup {None}, port : Ports \cup {NoPort},
             cid : Cids \cup {NoCid}]

RecTypeOK == rec \in RecState

RecInit == rec = RecIdle

(* Mutant: running instances are left where they are.                      *)
RECOVERABLE_ONLY_RECOVERING == {"recovering"}

RECOVERABLE_STATUSES == {"running", "recovering"}

Stale(w) == worker[w].status \notin {"OFFLINE", "absent"} /\ ~worker[w].fresh

-----------------------------------------------------------------------------
(* mark_stale_workers_offline(): find them; with none the pass is over.    *)
MarkScan ==
    /\ rec.pc = "idle"
    /\ LET stale == {w \in Workers : Stale(w)} IN
       rec' = IF stale = {} THEN RecIdle
              ELSE [RecIdle EXCEPT !.pc = "marking", !.workers = stale]
    /\ UNCHANGED <<dbVars, container>>

MarkCommit ==
    /\ rec.pc = "marking"
    /\ worker' = [w \in Workers |->
                    IF w \in rec.workers
                    THEN [worker[w] EXCEPT !.status = "OFFLINE"]
                    ELSE worker[w]]
    /\ rec' = [RecIdle EXCEPT !.pc = "marked"]
    /\ UNCHANGED <<now, seq, inst, rental, locked, container>>

(* recover_instances(): the OFFLINE workers, those of earlier passes too.  *)
RecList ==
    /\ rec.pc = "marked"
    /\ rec' = [RecIdle EXCEPT
                !.pc = "workers",
                !.workers = {w \in Workers : worker[w].status = "OFFLINE"}]
    /\ UNCHANGED <<dbVars, container>>

RecOpen ==
    /\ rec.pc = "workers"
    /\ \E w \in rec.workers :
          rec' = [rec EXCEPT !.pc = "instances", !.workers = @ \ {w},
                             !.from = w,
                             !.todo = {i \in Ids : inst[i].worker = w}]
    /\ UNCHANGED <<dbVars, container>>

(* The list is done: the next worker, or the end of the pass.              *)
NextInstance == [RecIdle EXCEPT !.pc = "instances", !.workers = rec.workers,
                                !.from = rec.from, !.todo = rec.todo]

RecDone ==
    /\ \/ /\ rec.pc = "instances" /\ rec.todo = {}
          /\ rec' = [RecIdle EXCEPT !.pc = "workers", !.workers = rec.workers]
       \/ /\ rec.pc = "workers" /\ rec.workers = {}
          /\ rec' = RecIdle
    /\ UNCHANGED <<dbVars, container>>

RecCheck ==
    /\ rec.pc = "instances"
    /\ \E i \in rec.todo :
          rec' = IF inst[i].status \in RECOVERABLE_STATUSES
                 THEN [rec EXCEPT !.pc = "checked", !.todo = @ \ {i},
                                  !.id = i, !.status = inst[i].status]
                 ELSE [rec EXCEPT !.todo = @ \ {i}]
    /\ UNCHANGED <<dbVars, container>>

(* 1) mark the instance; nothing is written when it was recovering.        *)
RecMark ==
    /\ rec.pc = "checked"
    /\ rec.id \notin locked
    /\ inst' = IF rec.status = "recovering" THEN inst
               ELSE [inst EXCEPT ![rec.id].status = "recovering"]
    /\ rec' = [rec EXCEPT !.pc = "recovering"]
    /\ UNCHANGED <<now, seq, worker, rental, locked, container>>

(* Mutant: the worker that fell silent may be its own replacement.         *)
OtherWorkersAny == SelectWorker(inst)

OtherWorkers == SelectWorker(inst) \ {rec.from}

(* The port that was picked; it may be None, and is passed on.             *)
PickedPorts == IF PickFreeSshPort(inst) = {} THEN {NoPort}
               ELSE PickFreeSshPort(inst)

(* 2) choose another worker and a port; without one it stays recovering.   *)
RecPlace ==
    /\ rec.pc = "recovering"
    /\ \/ \E w \in OtherWorkers :
             \E p \in PickedPorts :
                rec' = [rec EXCEPT !.pc = "placed", !.target = w, !.port = p]
       \/ /\ SelectWorker(inst) = {} \/ rec.from \in SelectWorker(inst)
          /\ rec' = NextInstance
    /\ UNCHANGED <<dbVars, container>>

(* 3) start it there.                                                      *)
RecCreate ==
    /\ rec.pc = "placed"
    /\ \E c \in Cids :
          /\ CreateOk(rec.target, rec.id, rec.port, c)
          /\ rec' = [rec EXCEPT !.pc = "created", !.cid = c]
    /\ UNCHANGED dbVars

(* AgentError: the instance is in error; its rental is left as it is.      *)
RecFail ==
    /\ rec.pc = "placed"
    /\ rec.id \notin locked
    /\ CreateError(rec.target, rec.id, rec.port)
    /\ inst' = [inst EXCEPT ![rec.id].status = "error"]
    /\ rec' = NextInstance
    /\ UNCHANGED <<now, seq, worker, rental, locked>>

(* Mutant: the status of a rental is written to the instance.              *)
MovedAsActive == [status |-> "ACTIVE", worker |-> rec.target,
                  port |-> rec.port, cid |-> rec.cid]

(* Mutant: the new port is forgotten.                                      *)
MovedWithOldPort == [status |-> "running", worker |-> rec.target,
                     port |-> inst[rec.id].port, cid |-> rec.cid]

Moved == [status |-> "running", worker |-> rec.target,
          port |-> rec.port, cid |-> rec.cid]

(* 4) the instance runs on the new worker, whatever its row says by now.   *)
RecCommit ==
    /\ rec.pc = "created"
    /\ rec.id \notin locked
    /\ inst' = [inst EXCEPT ![rec.id] = Moved]
    /\ rec' = NextInstance
    /\ UNCHANGED <<now, seq, worker, rental, locked, container>>

(* An exception that is not an AgentError, or a kill: the process          *)
(* restarts; the agent that it was waiting for may go on.                  *)
RecCrash == /\ rec.pc # "idle"
            /\ rec' = RecIdle
            /\ \/ UNCHANGED container
               \/ /\ rec.pc = "placed"
                  /\ \E c \in Cids : CreateLate(rec.target, rec.id, rec.port, c)
            /\ UNCHANGED dbVars

RecStep == \/ MarkScan \/ MarkCommit \/ RecList \/ RecOpen \/ RecDone
           \/ RecCheck \/ RecMark \/ RecPlace \/ RecCreate \/ RecFail
           \/ RecCommit

RecNext == RecStep \/ RecCrash
=============================================================================
