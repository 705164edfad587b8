------------------------------- MODULE Expiration -------------------------------
(***************************************************************************)
(* The expiration worker: scripts/expiration_worker.py calls               *)
(* expire_due_rentals() for ever, in a single process that Docker restarts *)
(* when it dies.                                                           *)
(***************************************************************************)
EXTENDS Agent

VARIABLE exp

ExpPc == {"idle", "next", "loaded", "called"}

ExpIdle == [pc |-> "idle", due |-> {}, id |-> NoId, worker |-> None,
            cid |-> NoCid, busy |-> FALSE]

ExpState == [pc : ExpPc, due : SUBSET Ids, id : Ids \cup {NoId},
             worker : Workers \cup {None}, cid : Cids \cup {NoCid},
             busy : BOOLEAN]

ExpTypeOK == exp \in ExpState

ExpInit == exp = ExpIdle

-----------------------------------------------------------------------------
(* Mutant: only the rentals on workers that are AVAILABLE.                 *)
DueRentalsAvailable ==
    {i \in Ids : Due(i) /\ worker[inst[i].worker].status = "AVAILABLE"}

DueRentals == {i \in Ids : Due(i)}

(* A pass begins: the rentals that are due by the clock of the pass.       *)
ExpScan ==
    /\ exp.pc = "idle"
    /\ exp' = [ExpIdle EXCEPT !.pc = "next", !.due = DueRentals]
    /\ UNCHANGED <<dbVars, container>>

(* The next rental of the list, with its instance and worker as they are   *)
(* now; neither the status nor the end of the rental is looked at again.   *)
ExpLoad ==
    /\ exp.pc = "next"
    /\ \E i \in exp.due :
          exp' = [pc     |-> IF inst[i].cid # NoCid THEN "loaded" ELSE "called",
                  due    |-> exp.due \ {i},
                  id     |-> i,
                  worker |-> inst[i].worker,
                  cid    |-> inst[i].cid,
                  busy   |-> worker[inst[i].worker].status = "BUSY"]
    /\ UNCHANGED <<dbVars, container>>

(* The list is done: the pass ends.                                        *)
ExpDone == /\ exp.pc = "next" /\ exp.due = {}
           /\ exp' = ExpIdle
           /\ UNCHANGED <<dbVars, container>>

ExpCall == /\ exp.pc = "loaded"
           /\ DeleteOk(exp.worker, exp.cid)
           /\ exp' = [exp EXCEPT !.pc = "called"]
           /\ UNCHANGED dbVars

(* Mutant: the AgentError is swallowed, as stop_instance() does.           *)
ExpCallErrorSwallowed == /\ exp.pc = "loaded"
                         /\ DeleteError(exp.worker, exp.cid)
                         /\ exp' = [exp EXCEPT !.pc = "called"]
                         /\ UNCHANGED dbVars

(* AgentError: roll back and go on; the next pass tries again.             *)
ExpCallError == /\ exp.pc = "loaded"
                /\ DeleteError(exp.worker, exp.cid)
                /\ exp' = [ExpIdle EXCEPT !.pc = "next", !.due = exp.due]
                /\ UNCHANGED dbVars

(* Mutant: the rental is forgotten.                                        *)
ExpiredNot == rental

(* A worker that was BUSY when it was loaded, whatever else it runs.       *)
Freed == IF exp.busy THEN [worker EXCEPT ![exp.worker].status = "AVAILABLE"]
         ELSE worker

Expired == [rental EXCEPT ![exp.id].status = "EXPIRED"]

(* The three rows in one commit.                                           *)
ExpCommit ==
    /\ exp.pc = "called"
    /\ exp.id \notin locked
    /\ rental' = Expired
    /\ inst' = [inst EXCEPT ![exp.id].status = "deleted"]
    /\ worker' = Freed
    /\ exp' = [ExpIdle EXCEPT !.pc = "next", !.due = exp.due]
    /\ UNCHANGED <<now, seq, locked, container>>

(* The database refuses the commit (a deadlock, a lost connection): roll   *)
(* back and go on.                                                         *)
ExpRollback == /\ exp.pc = "called"
               /\ exp' = [ExpIdle EXCEPT !.pc = "next", !.due = exp.due]
               /\ UNCHANGED <<dbVars, container>>

(* The process dies in the middle of a pass and is restarted.              *)
ExpCrash == /\ exp.pc # "idle"
            /\ exp' = ExpIdle
            /\ UNCHANGED <<dbVars, container>>

ExpNext == \/ ExpScan \/ ExpLoad \/ ExpDone \/ ExpCall \/ ExpCallError
           \/ ExpCommit \/ ExpRollback \/ ExpCrash
=============================================================================
