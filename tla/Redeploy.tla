-------------------------------- MODULE Redeploy --------------------------------
(***************************************************************************)
(* The web container stops and comes back (a redeployment, a crash) while  *)
(* the background workers and the agents go on.  Until gunicorn serves     *)
(* again no request and no heartbeat is answered; docker/start.py makes    *)
(* the workers of REAL_WORKERS AVAILABLE before.                           *)
(***************************************************************************)
EXTENDS RentalApi, Heartbeat

CONSTANTS
    WebProcesses,   \* gunicorn --workers; Requests bounds those that serve
                    \* rents, stops and extensions at one time
    MaxStops        \* bound: how often the container stops

ASSUME ProcessesAssumption == /\ WebProcesses \in Nat
                              /\ Cardinality(Requests) <= WebProcesses
ASSUME StopsAssumption == MaxStops \in Nat

VARIABLES web,      \* unready: the seeded workers that start.py has to make
                    \* AVAILABLE, by what it has loaded
          stops     \* so many times the container has stopped

webVars == <<web, stops>>

WebState == [pc : {"up", "down", "loaded"}, unready : SUBSET Workers]

WebUp   == [pc |-> "up", unready |-> {}]
WebDown == [pc |-> "down", unready |-> {}]

WebTypeOK == web \in WebState /\ stops \in 0..MaxStops

WebInit == web = WebUp /\ stops = 0

Serving == web.pc = "up"

(* Requests and heartbeats are served by the same processes.               *)
EnoughProcesses ==
    Cardinality({r \in Requests : req[r].pc # "idle"})
    + Cardinality({w \in Workers : hb[w] # "none"}) <= WebProcesses

(* Every process waits for an agent, for up to AGENT_TIMEOUT.              *)
Occupied ==
    Cardinality({r \in Requests : req[r].pc \in {"flushed", "loaded"}})
    >= WebProcesses

ServeRequest == Serving /\ ApiNext /\ UNCHANGED <<hb, webVars>> /\ EnoughProcesses'

ServeHeartbeat == /\ Serving /\ HbNext
                  /\ UNCHANGED <<container, req, webVars>>
                  /\ EnoughProcesses'

-----------------------------------------------------------------------------
(* The requests and heartbeats that are being served are forgotten, and    *)
(* their transactions rolled back.  (A creation that an agent goes on with *)
(* is that of a RequestDies just before.)                                  *)
WebStops ==
    /\ Serving
    /\ stops < MaxStops
    /\ stops' = stops + 1
    /\ web' = WebDown
    /\ req' = [r \in Requests |-> Idle]
    /\ hb' = [w \in Workers |-> "none"]
    /\ locked' = {}
    /\ UNCHANGED <<now, seq, worker, inst, rental, container>>

BootLoad ==
    /\ web.pc = "down"
    /\ web' = [pc |-> "loaded",
               unready |-> {w \in Seeded : worker[w].status # "AVAILABLE"}]
    /\ UNCHANGED <<dbVars, container, req, hb, stops>>

(* last_heartbeat is written always, the status when it differed.          *)
BootCommit ==
    /\ web.pc = "loaded"
    /\ worker' = [w \in Workers |->
                    IF w \in Seeded
                    THEN [status |-> IF w \in web.unready THEN "AVAILABLE"
                                     ELSE worker[w].status,
                          fresh  |-> TRUE]
                    ELSE worker[w]]
    /\ web' = WebUp
    /\ UNCHANGED <<now, seq, inst, rental, locked, container, req, hb, stops>>

(* start.py fails, and Docker starts it again.                             *)
BootFail == /\ web.pc = "loaded"
            /\ web' = WebDown
            /\ UNCHANGED <<dbVars, container, req, hb, stops>>

Boot == BootLoad \/ BootCommit \/ BootFail

(* A flaky worker falls silent; without a web server, or while all the     *)
(* processes wait for longer than HEARTBEAT_TIMEOUT_SECONDS, every worker  *)
(* does.                                                                   *)
Unheard(w) == /\ w \in Flaky \/ ~Serving \/ Occupied
              /\ GoStale(w)
              /\ UNCHANGED <<container, req, webVars>>
=============================================================================
