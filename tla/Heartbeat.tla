------------------------------- MODULE Heartbeat -------------------------------
(***************************************************************************)
(* POST /workers/heartbeat (app/workers.py): each agent has one heartbeat  *)
(* in flight at a time.  hb[w] is the status that the handler loaded.      *)
(***************************************************************************)
EXTENDS Database

CONSTANT Flaky      \* the workers that may fall silent; of the others only the
                    \* heartbeats that change something are modelled

ASSUME FlakyAssumption == Flaky \subseteq Workers

VARIABLE hb

HbTypeOK == hb \in [Workers -> WorkerStatus \cup {"absent", "none"}]

HbInit == hb = [w \in Workers |-> "none"]

(* The query by hostname.                                                  *)
HbLoad(w) ==
    /\ hb[w] = "none"
    /\ \/ w \in Flaky
       \/ worker[w].status \in {"absent", "OFFLINE"} \/ ~worker[w].fresh
    /\ hb' = [hb EXCEPT ![w] = worker[w].status]
    /\ UNCHANGED dbVars

(* Mutant: a worker that was OFFLINE only has its heartbeat refreshed.     *)
MadeAvailableNew == {"absent"}

MadeAvailable == {"absent", "OFFLINE"}

(* The commit: an unknown worker is inserted, a worker that was OFFLINE    *)
(* becomes AVAILABLE, any other only has its last_heartbeat refreshed.     *)
HbCommit(w) ==
    /\ hb[w] # "none"
    /\ worker' = [worker EXCEPT
                   ![w].fresh  = TRUE,
                   ![w].status = IF hb[w] \in MadeAvailable
                                 THEN "AVAILABLE" ELSE @]
    /\ hb' = [hb EXCEPT ![w] = "none"]
    /\ UNCHANGED <<now, seq, inst, rental, locked>>

(* HEARTBEAT_TIMEOUT_SECONDS pass without a heartbeat: the host is down,   *)
(* or slow.                                                                *)
GoStale(w) ==
    /\ worker[w].fresh
    /\ worker' = [worker EXCEPT ![w].fresh = FALSE]
    /\ UNCHANGED <<now, seq, inst, rental, locked, hb>>

HbNext == \E w \in Workers : HbLoad(w) \/ HbCommit(w)
=============================================================================
