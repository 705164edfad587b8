----------------------------- MODULE ShellterProofs -----------------------------
(***************************************************************************)
(* What holds of the whole controller for every value of the constants.    *)
(***************************************************************************)
EXTENDS Shellter, ContainerProofs

(* Between two passes.                                                     *)
LEMMA RecIdleType == RecIdle \in RecState
BY DEF RecIdle, RecState, RecPc

(* Between two instances of a pass.                                        *)
LEMMA NextInstanceType ==
    ASSUME RecTypeOK
    PROVE  NextInstance \in RecState
BY RecIdleType DEF NextInstance, RecTypeOK, RecState, RecPc

(* The steps of the recovery worker keep the types.                        *)
LEMMA RecStepTypes ==
    ASSUME DbTypeOK, AgentTypeOK, RecTypeOK, RecNext
    PROVE  DbTypeOK' /\ AgentTypeOK' /\ RecTypeOK'
<1>t. /\ inst \in [Ids -> InstanceRow]
      /\ worker \in [Workers -> WorkerRow]
      /\ rec \in RecState
  BY DEF DbTypeOK, RecTypeOK
<1>d. (UNCHANGED dbVars) => DbTypeOK'
  BY DEF DbTypeOK, dbVars
<1>a. (UNCHANGED container) => AgentTypeOK'
  BY DEF AgentTypeOK
<1>n. NextInstance \in RecState
  BY NextInstanceType
<1>1. CASE MarkScan
  <2>1. [RecIdle EXCEPT !.pc = "marking", !.workers = {w \in Workers : Stale(w)}]
          \in RecState
    BY RecIdleType DEF RecState, RecPc
  <2>2. rec' \in RecState
    BY <1>1, <2>1, RecIdleType DEF MarkScan
  <2> QED
    BY <1>1, <1>d, <1>a, <2>2 DEF MarkScan, RecTypeOK
<1>2. CASE MarkCommit
  <2>1. worker' \in [Workers -> WorkerRow]
    BY <1>2, <1>t DEF MarkCommit, WorkerRow, WorkerStatus
  <2>2. rec' \in RecState
    BY <1>2, RecIdleType DEF MarkCommit, RecState, RecPc
  <2> QED
    BY <1>2, <1>a, <2>1, <2>2 DEF MarkCommit, DbTypeOK, RecTypeOK
<1>3. CASE RecList
  <2>1. rec' \in RecState
    BY <1>3, RecIdleType DEF RecList, RecState, RecPc
  <2> QED
    BY <1>3, <1>d, <1>a, <2>1 DEF RecList, RecTypeOK
<1>4. CASE RecOpen
  <2>1. PICK w \in rec.workers :
           rec' = [rec EXCEPT !.pc = "instances", !.workers = @ \ {w},
                              !.from = w,
                              !.todo = {i \in Ids : inst[i].worker = w}]
    BY <1>4 DEF RecOpen
  <2>2. w \in Workers
    BY <1>t DEF RecState
  <2>3. rec' \in RecState
    BY <1>t, <2>1, <2>2 DEF RecState, RecPc
  <2> QED
    BY <1>4, <1>d, <1>a, <2>3 DEF RecOpen, RecTypeOK
<1>5. CASE RecDone
  <2>1. [RecIdle EXCEPT !.pc = "workers", !.workers = rec.workers] \in RecState
    BY <1>t, RecIdleType DEF RecState, RecPc
  <2> QED
    BY <1>5, <1>d, <1>a, <2>1, RecIdleType DEF RecDone, RecTypeOK
<1>6. CASE RecCheck
  <2>1. PICK i \in rec.todo :
           rec' = IF inst[i].status \in RECOVERABLE_STATUSES
                  THEN [rec EXCEPT !.pc = "checked", !.todo = @ \ {i},
                                   !.id = i, !.status = inst[i].status]
                  ELSE [rec EXCEPT !.todo = @ \ {i}]
    BY <1>6 DEF RecCheck
  <2>2. i \in Ids
    BY <1>t DEF RecState
  <2>3. inst[i].status \in InstanceStatus \cup {"absent"}
    BY <1>t, <2>2 DEF InstanceRow
  <2>4. rec' \in RecState
    BY <1>t, <2>1, <2>2, <2>3 DEF RecState, RecPc
  <2> QED
    BY <1>6, <1>d, <1>a, <2>4 DEF RecCheck, RecTypeOK
<1>7. CASE RecMark
  <2>1. inst' \in [Ids -> InstanceRow]
    BY <1>7, <1>t DEF RecMark, InstanceRow, InstanceStatus
  <2>2. rec' \in RecState
    BY <1>7, <1>t DEF RecMark, RecState, RecPc
  <2> QED
    BY <1>7, <1>a, <2>1, <2>2 DEF RecMark, DbTypeOK, RecTypeOK
<1>8. CASE RecPlace
  <2>1. ASSUME NEW w \in OtherWorkers, NEW p \in PickedPorts
        PROVE  [rec EXCEPT !.pc = "placed", !.target = w, !.port = p] \in RecState
    <3>1. w \in Workers /\ p \in Ports \cup {NoPort}
      BY SelectionTypes DEF OtherWorkers, PickedPorts
    <3> QED
      BY <1>t, <3>1 DEF RecState, RecPc
  <2>2. rec' \in RecState
    BY <1>8, <1>n, <2>1 DEF RecPlace
  <2> QED
    BY <1>8, <1>d, <1>a, <2>2 DEF RecPlace, RecTypeOK
<1>9. CASE RecCreate
  <2>1. PICK c \in Cids :
           /\ CreateOk(rec.target, rec.id, rec.port, c)
           /\ rec' = [rec EXCEPT !.pc = "created", !.cid = c]
    BY <1>9 DEF RecCreate
  <2>2. AgentTypeOK'
    BY <1>t, <2>1, CreateType DEF RecState
  <2>3. rec' \in RecState
    BY <1>t, <2>1 DEF RecState, RecPc
  <2> QED
    BY <1>9, <1>d, <2>2, <2>3 DEF RecCreate, RecTypeOK
<1>10. CASE RecFail
  <2>1. AgentTypeOK'
    BY <1>10, <1>t, CreateType DEF RecFail, RecState
  <2>2. inst' \in [Ids -> InstanceRow]
    BY <1>10, <1>t DEF RecFail, InstanceRow, InstanceStatus
  <2> QED
    BY <1>10, <1>n, <2>1, <2>2 DEF RecFail, DbTypeOK, RecTypeOK
<1>11. CASE RecCommit
  <2>1. Moved \in InstanceRow
    BY <1>t DEF Moved, RecState, InstanceRow, InstanceStatus
  <2>2. inst' \in [Ids -> InstanceRow]
    BY <1>11, <1>t, <2>1 DEF RecCommit
  <2> QED
    BY <1>11, <1>n, <1>a, <2>2 DEF RecCommit, DbTypeOK, RecTypeOK
<1>12. CASE RecCrash
  <2>1. AgentTypeOK'
    BY <1>12, <1>t, <1>a, StartedType DEF RecCrash, RecState
  <2> QED
    BY <1>12, <1>d, <2>1, RecIdleType DEF RecCrash, RecTypeOK
<1> QED
  BY <1>1, <1>2, <1>3, <1>4, <1>5, <1>6, <1>7, <1>8, <1>9, <1>10, <1>11, <1>12
     DEF RecNext, RecStep

(* The steps of the heartbeats, and their absence, keep the types.         *)
LEMMA HbStepTypes ==
    ASSUME DbTypeOK, HbTypeOK, HbNext \/ \E w \in Workers : GoStale(w)
    PROVE  DbTypeOK' /\ HbTypeOK'
<1>t. /\ worker \in [Workers -> WorkerRow]
      /\ hb \in [Workers -> WorkerStatus \cup {"absent", "none"}]
  BY DEF DbTypeOK, HbTypeOK
<1>1. ASSUME NEW w \in Workers, HbLoad(w)
      PROVE  DbTypeOK' /\ HbTypeOK'
  <2>1. worker[w].status \in WorkerStatus \cup {"absent"}
    BY <1>t DEF WorkerRow
  <2> QED
    BY <1>1, <1>t, <2>1 DEF HbLoad, HbTypeOK, DbTypeOK, dbVars
<1>2. ASSUME NEW w \in Workers, HbCommit(w)
      PROVE  DbTypeOK' /\ HbTypeOK'
  <2>1. worker' \in [Workers -> WorkerRow]
    BY <1>2, <1>t DEF HbCommit, WorkerRow, WorkerStatus
  <2>2. HbTypeOK'
    BY <1>2, <1>t DEF HbCommit, HbTypeOK
  <2> QED
    BY <1>2, <2>1, <2>2 DEF HbCommit, DbTypeOK
<1>3. ASSUME NEW w \in Workers, GoStale(w)
      PROVE  DbTypeOK' /\ HbTypeOK'
  <2>1. worker' \in [Workers -> WorkerRow]
    BY <1>3, <1>t DEF GoStale, WorkerRow
  <2> QED
    BY <1>3, <2>1 DEF GoStale, DbTypeOK, HbTypeOK
<1> QED
  BY <1>1, <1>2, <1>3 DEF HbNext

(* Neither of them writes a rental.                                        *)
LEMMA FailoverKeepsRentals ==
    ASSUME RecNext \/ HbNext
    PROVE  UNCHANGED rental
BY DEF RecNext, RecStep, RecCrash, MarkScan, MarkCommit, RecList, RecOpen,
       RecDone, RecCheck, RecMark, RecPlace, RecCreate, RecFail, RecCommit,
       HbNext, HbLoad, HbCommit, dbVars

-----------------------------------------------------------------------------
(* The redeployment: the steps of the web container as a whole, and the    *)
(* silence of the workers.                                                 *)
Redeployment == WebStops \/ Boot \/ \E w \in Workers : Unheard(w)

(* A step of the controller is one of these.                               *)
LEMMA NextSteps ==
    ASSUME Next
    PROVE  \/ ApiNext /\ UNCHANGED <<exp, rec, hb, webVars>>
           \/ ExpNext /\ UNCHANGED <<req, rec, hb, webVars>>
           \/ RecNext /\ UNCHANGED <<req, exp, hb, webVars>>
           \/ HbNext /\ UNCHANGED <<container, req, exp, rec, webVars>>
           \/ AgentNext /\ UNCHANGED <<dbVars, req, exp, rec, hb, webVars>>
           \/ Tick /\ UNCHANGED <<container, req, exp, rec, hb, webVars>>
           \/ Redeployment /\ UNCHANGED <<exp, rec>>
BY DEF Next, ServeRequest, ServeHeartbeat, Redeployment

(* It writes no instance and no rental, and only forgets requests.         *)
LEMMA RedeploymentKeeps ==
    ASSUME Redeployment
    PROVE  /\ UNCHANGED <<inst, rental>>
           /\ req' = req \/ req' = [r \in Requests |-> Idle]
BY DEF Redeployment, WebStops, Boot, BootLoad, BootCommit, BootFail, Unheard,
       GoStale, dbVars

(* It keeps the types.                                                     *)
LEMMA RedeploymentTypes ==
    ASSUME ApiTypeOK, HbTypeOK, WebTypeOK, Redeployment
    PROVE  ApiTypeOK' /\ HbTypeOK' /\ WebTypeOK'
<1>t. /\ DbTypeOK /\ AgentTypeOK /\ req \in [Requests -> Request]
      /\ worker \in [Workers -> WorkerRow]
      /\ web \in WebState /\ stops \in 0..MaxStops
  BY DEF ApiTypeOK, DbTypeOK, WebTypeOK
<1>1. CASE WebStops
  <2>1. stops' \in 0..MaxStops
    BY <1>1, <1>t, StopsAssumption DEF WebStops
  <2>2. web' \in WebState
    BY <1>1 DEF WebStops, WebDown, WebState
  <2>3. req' \in [Requests -> Request] /\ locked' \subseteq Ids
    BY <1>1, IdleType DEF WebStops
  <2>4. HbTypeOK'
    BY <1>1 DEF WebStops, HbTypeOK
  <2> QED
    BY <1>1, <1>t, <2>1, <2>2, <2>3, <2>4
       DEF WebStops, WebTypeOK, ApiTypeOK, DbTypeOK, AgentTypeOK
<1>2. CASE BootLoad
  <2>1. web' \in WebState
    BY <1>2, WorkersAssumption DEF BootLoad, WebState
  <2> QED
    BY <1>2, <1>t, <2>1
       DEF BootLoad, WebTypeOK, ApiTypeOK, DbTypeOK, AgentTypeOK, HbTypeOK, dbVars
<1>3. CASE BootCommit
  <2>1. worker' \in [Workers -> WorkerRow]
    <3>1. ASSUME NEW w \in Workers
          PROVE  (IF w \in Seeded
                  THEN [status |-> IF w \in web.unready THEN "AVAILABLE"
                                   ELSE worker[w].status,
                        fresh  |-> TRUE]
                  ELSE worker[w]) \in WorkerRow
      BY <1>t DEF WorkerRow, WorkerStatus
    <3> QED
      BY <1>3, <3>1 DEF BootCommit
  <2>2. web' \in WebState
    BY <1>3 DEF BootCommit, WebUp, WebState
  <2> QED
    BY <1>3, <1>t, <2>1, <2>2
       DEF BootCommit, WebTypeOK, ApiTypeOK, DbTypeOK, AgentTypeOK, HbTypeOK
<1>4. CASE BootFail
  <2>1. web' \in WebState
    BY <1>4 DEF BootFail, WebDown, WebState
  <2> QED
    BY <1>4, <1>t, <2>1
       DEF BootFail, WebTypeOK, ApiTypeOK, DbTypeOK, AgentTypeOK, HbTypeOK, dbVars
<1>5. ASSUME NEW w \in Workers, Unheard(w)
      PROVE  ApiTypeOK' /\ HbTypeOK' /\ WebTypeOK'
  <2>1. DbTypeOK' /\ HbTypeOK'
    BY <1>5, <1>t, HbStepTypes DEF Unheard
  <2> QED
    BY <1>5, <1>t, <2>1 DEF Unheard, webVars, WebTypeOK, ApiTypeOK, AgentTypeOK
<1> QED
  BY <1>1, <1>2, <1>3, <1>4, <1>5 DEF Redeployment, Boot

-----------------------------------------------------------------------------

(* The types hold when the controller starts.                              *)
LEMMA InitTypes == Init => TypeOK
<1> SUFFICES ASSUME Init PROVE TypeOK
  OBVIOUS
<1>1. ApiTypeOK
  BY ApiInitTypes DEF Init, LeaseInit
<1>2. ExpTypeOK
  BY ExpIdleType DEF Init, LeaseInit, ExpInit, ExpTypeOK
<1>3. RecTypeOK
  BY RecIdleType DEF Init, RecInit, RecTypeOK
<1>4. HbTypeOK
  BY DEF Init, HbInit, HbTypeOK
<1>5. WebTypeOK
  BY StopsAssumption DEF Init, WebInit, WebUp, WebTypeOK, WebState
<1> QED
  BY <1>1, <1>2, <1>3, <1>4, <1>5 DEF TypeOK, LeaseTypeOK

(* Every step keeps the types.                                             *)
LEMMA StepTypes ==
    ASSUME TypeOK, Next
    PROVE  TypeOK'
<1>t. /\ ApiTypeOK /\ ExpTypeOK /\ RecTypeOK /\ HbTypeOK /\ WebTypeOK
      /\ DbTypeOK /\ AgentTypeOK /\ req \in [Requests -> Request]
  BY DEF TypeOK, LeaseTypeOK, ApiTypeOK
<1>a. (UNCHANGED container) => AgentTypeOK'
  BY <1>t DEF AgentTypeOK
<1>q. (UNCHANGED req) => (req \in [Requests -> Request])'
  BY <1>t
<1>e. (UNCHANGED exp) => ExpTypeOK'
  BY <1>t DEF ExpTypeOK
<1>r. (UNCHANGED rec) => RecTypeOK'
  BY <1>t DEF RecTypeOK
<1>h. (UNCHANGED hb) => HbTypeOK'
  BY <1>t DEF HbTypeOK
<1>w. (UNCHANGED webVars) => WebTypeOK'
  BY <1>t DEF WebTypeOK, webVars
<1>g. (DbTypeOK /\ AgentTypeOK /\ req \in [Requests -> Request])' => ApiTypeOK'
  BY DEF ApiTypeOK
<1>k. (ApiTypeOK /\ ExpTypeOK /\ RecTypeOK /\ HbTypeOK /\ WebTypeOK)' => TypeOK'
  BY DEF TypeOK, LeaseTypeOK
<1>1. CASE ApiNext /\ UNCHANGED <<exp, rec, hb, webVars>>
  BY <1>1, <1>t, <1>e, <1>r, <1>h, <1>w, <1>k, ApiStepTypes
<1>2. CASE ExpNext /\ UNCHANGED <<req, rec, hb, webVars>>
  <2>1. DbTypeOK' /\ AgentTypeOK' /\ ExpTypeOK'
    BY <1>2, <1>t, ExpStepTypes
  <2> QED
    BY <1>2, <2>1, <1>q, <1>r, <1>h, <1>w, <1>g, <1>k
<1>3. CASE Tick /\ UNCHANGED <<container, req, exp, rec, hb, webVars>>
  <2>1. DbTypeOK'
    BY <1>3, <1>t, BoundsAssumption DEF Tick, DbTypeOK
  <2> QED
    BY <1>3, <2>1, <1>a, <1>q, <1>e, <1>r, <1>h, <1>w, <1>g, <1>k
<1>4. CASE RecNext /\ UNCHANGED <<req, exp, hb, webVars>>
  <2>1. DbTypeOK' /\ AgentTypeOK' /\ RecTypeOK'
    BY <1>4, <1>t, RecStepTypes
  <2> QED
    BY <1>4, <2>1, <1>q, <1>e, <1>h, <1>w, <1>g, <1>k
<1>5. CASE HbNext /\ UNCHANGED <<container, req, exp, rec, webVars>>
  <2>1. DbTypeOK' /\ HbTypeOK'
    BY <1>5, <1>t, HbStepTypes
  <2> QED
    BY <1>5, <2>1, <1>a, <1>q, <1>e, <1>r, <1>w, <1>g, <1>k
<1>6. CASE Redeployment /\ UNCHANGED <<exp, rec>>
  BY <1>6, <1>t, <1>e, <1>r, <1>k, RedeploymentTypes
<1>7. CASE AgentNext /\ UNCHANGED <<dbVars, req, exp, rec, hb, webVars>>
  <2>1. AgentTypeOK' /\ DbTypeOK'
    BY <1>7, <1>t, LateType DEF DbTypeOK, dbVars
  <2> QED
    BY <1>7, <2>1, <1>q, <1>e, <1>r, <1>h, <1>w, <1>g, <1>k
<1> QED
  BY <1>1, <1>2, <1>3, <1>4, <1>5, <1>6, <1>7, NextSteps

(* A step that changes nothing keeps them.                                 *)
LEMMA StutterTypes ==
    ASSUME TypeOK, UNCHANGED vars
    PROVE  TypeOK'
BY DEF vars, leaseVars, apiVars, dbVars, webVars, TypeOK, LeaseTypeOK,
       ApiTypeOK, DbTypeOK, AgentTypeOK, ExpTypeOK, RecTypeOK, HbTypeOK,
       WebTypeOK

(* Requests, workers in the background, heartbeats, crashes and lost       *)
(* answers keep every row and every record within its type: no handler     *)
(* writes a status, a worker, a port or a container that cannot be.        *)
THEOREM ShellterTypes == Spec => []TypeOK
<1>1. Init => TypeOK
  BY InitTypes
<1>2. TypeOK /\ [Next]_vars => TypeOK'
  BY StepTypes, StutterTypes
<1> QED
  BY <1>1, <1>2, PTL DEF Spec

(* No step of the controller breaks the bound on rentals and claims.       *)
LEMMA QuotaClaimsStep ==
    ASSUME TypeOK, QuotaClaims, Next
    PROVE  QuotaClaims'
<1>t. ApiTypeOK /\ DbTypeOK
  BY DEF TypeOK, LeaseTypeOK, ApiTypeOK
<1>s. (UNCHANGED rental) =>
        \A u \in Users : ActiveRentals(u)' \subseteq ActiveRentals(u)
  BY DEF ActiveRentals, ActiveRental
<1>1. CASE ApiNext
  BY <1>1, <1>t, QuotaClaimsKept
<1>2. CASE ExpNext /\ UNCHANGED req
  BY <1>2, <1>t, ExpEndsRentals, QuotaClaimsShrink
<1>3. CASE Tick /\ UNCHANGED req
  BY <1>3, <1>s, QuotaClaimsShrink DEF Tick
<1>4. CASE (RecNext \/ HbNext) /\ UNCHANGED req
  BY <1>4, <1>s, FailoverKeepsRentals, QuotaClaimsShrink
<1>5. CASE Redeployment
  BY <1>5, <1>s, RedeploymentKeeps, QuotaClaimsShrink
<1>6. CASE UNCHANGED dbVars /\ UNCHANGED req
  BY <1>6, <1>s, QuotaClaimsShrink DEF dbVars
<1> QED
  BY <1>1, <1>2, <1>3, <1>4, <1>5, <1>6, NextSteps

(* The bound on the quota of rent() (api.py:62-70) is not weakened by the  *)
(* expiration worker, by recovery or by anything else that runs beside the *)
(* requests.                                                               *)
THEOREM ShellterQuota == Spec => [](QuotaClaims /\ QuotaBound)
<1> DEFINE IInv == TypeOK /\ QuotaClaims
<1>1. Init => IInv
  BY InitTypes, ClaimsInit DEF Init, LeaseInit
<1>2. IInv /\ [Next]_vars => IInv'
  <2>1. ASSUME IInv, UNCHANGED vars
        PROVE  QuotaClaims'
    BY <2>1 DEF vars, leaseVars, apiVars, dbVars, QuotaClaims, RentalClaims,
                ActiveRentals, ActiveRental, Renting
  <2> QED
    BY <2>1, StepTypes, StutterTypes, QuotaClaimsStep
<1>3. IInv => QuotaBound
  BY QuotaClaimsBound
<1> QED
  BY <1>1, <1>2, <1>3, PTL DEF Spec

-----------------------------------------------------------------------------
(* No step outside the recovery worker takes a worker OFFLINE.             *)
LEMMA OthersKeepOnline ==
    ASSUME TypeOK, NEW w \in Workers, worker[w].status # "OFFLINE",
           \/ ApiNext
           \/ ExpNext
           \/ Tick
           \/ HbNext
           \/ Redeployment
    PROVE  worker[w].status' # "OFFLINE"
<1>t. worker \in [Workers -> WorkerRow]
  BY DEF TypeOK, LeaseTypeOK, ApiTypeOK, DbTypeOK
<1>1. CASE UNCHANGED worker
  BY <1>1
<1>2. ASSUME NEW v, NEW s, worker' = [worker EXCEPT ![v].status = s],
             s # "OFFLINE"
      PROVE  worker[w].status' # "OFFLINE"
  BY <1>2, <1>t DEF WorkerRow
<1>3. CASE ApiNext
  <2>1. PICK r \in Requests : Rent(r) \/ Stop(r) \/ Extend(r) \/ RequestDies(r)
    BY <1>3 DEF ApiNext
  <2>2. CASE RentCommit(r)
    BY <2>2, <1>1, <1>2 DEF RentCommit
  <2>3. CASE StopCommit(r)
    BY <2>3, <1>1, <1>2 DEF StopCommit
  <2>4. UNCHANGED worker \/ RentCommit(r) \/ StopCommit(r)
    BY <2>1 DEF Rent, RentAdmit, RentChoose, RentFlush, RentCreate, RentCount,
                RentFail, Stop, StopLoad, StopCall, StopFlush, Extend,
                ExtendLoad, ExtendCommit, RequestDies, dbVars
  <2> QED
    BY <2>2, <2>3, <2>4, <1>1
<1>4. CASE ExpNext
  <2>1. CASE ExpCommit
    BY <2>1, <1>1, <1>2 DEF ExpCommit, Freed
  <2>2. UNCHANGED worker \/ ExpCommit
    BY <1>4 DEF ExpNext, ExpScan, ExpLoad, ExpDone, ExpCall, ExpCallError,
                ExpRollback, ExpCrash, dbVars
  <2> QED
    BY <2>1, <2>2, <1>1
<1>5. CASE HbNext
  <2>1. PICK v \in Workers : HbLoad(v) \/ HbCommit(v)
    BY <1>5 DEF HbNext
  <2>2. CASE HbLoad(v)
    BY <2>2, <1>1 DEF HbLoad, dbVars
  <2>3. CASE HbCommit(v)
    BY <2>3, <1>t DEF HbCommit, WorkerRow
  <2> QED
    BY <2>1, <2>2, <2>3
<1>6. CASE Redeployment
  <2>1. ASSUME NEW v \in Workers, Unheard(v)
        PROVE  worker[w].status' # "OFFLINE"
    BY <2>1, <1>t DEF Unheard, GoStale, WorkerRow
  <2>2. CASE BootCommit
    BY <2>2, <1>t DEF BootCommit, WorkerRow
  <2>3. CASE WebStops \/ BootLoad \/ BootFail
    BY <2>3, <1>1 DEF WebStops, BootLoad, BootFail, dbVars
  <2> QED
    BY <1>6, <2>1, <2>2, <2>3 DEF Redeployment, Boot
<1> QED
  BY <1>1, <1>3, <1>4, <1>5, <1>6 DEF Tick

(* RecoveryTargetOnline, and that there is a target.                       *)
TargetChosen ==
    rec.pc \in {"placed", "created"} =>
        /\ rec.target \in Workers
        /\ rec.target # rec.from
        /\ worker[rec.target].status # "OFFLINE"

(* Every step keeps the target of a recovery.                              *)
LEMMA TargetStep ==
    ASSUME TypeOK, TargetChosen, Next
    PROVE  TargetChosen'
<1>t. rec \in RecState
  BY DEF TypeOK, RecTypeOK
<1>n. NextInstance.pc = "instances" /\ RecIdle.pc = "idle"
  BY DEF NextInstance, RecIdle
<1>1. CASE /\ ApiNext \/ ExpNext \/ Tick \/ HbNext \/ Redeployment
           /\ UNCHANGED rec
  BY <1>1, OthersKeepOnline DEF TargetChosen
<1>0. CASE UNCHANGED dbVars /\ UNCHANGED rec
  BY <1>0 DEF TargetChosen, dbVars
<1>2. CASE RecPlace
  <2>1. CASE rec' = NextInstance
    BY <2>1, <1>n DEF TargetChosen
  <2>2. ASSUME NEW w \in OtherWorkers, NEW p,
               rec' = [rec EXCEPT !.pc = "placed", !.target = w, !.port = p]
        PROVE  TargetChosen'
    <3>1. /\ w \in Workers /\ w # rec.from
          /\ worker[w].status = "AVAILABLE"
      BY DEF OtherWorkers, SelectWorker, Eligible
    <3>2. rec'.target = w /\ rec'.from = rec.from
      BY <2>2, <1>t DEF RecState
    <3>3. UNCHANGED worker
      BY <1>2 DEF RecPlace, dbVars
    <3> QED
      BY <3>1, <3>2, <3>3 DEF TargetChosen
  <2> QED
    BY <1>2, <2>1, <2>2 DEF RecPlace
<1>3. CASE RecCreate
  <2>1. /\ rec.pc = "placed" /\ UNCHANGED worker
        /\ rec'.target = rec.target /\ rec'.from = rec.from
    BY <1>3, <1>t DEF RecCreate, RecState, dbVars
  <2> QED
    BY <2>1 DEF TargetChosen
<1>4. ASSUME RecNext, ~RecPlace, ~RecCreate
      PROVE  rec'.pc \notin {"placed", "created"}
  <2>1. CASE RecOpen
    BY <2>1, <1>t DEF RecOpen, RecState
  <2>2. CASE RecCheck
    BY <2>2, <1>t DEF RecCheck, RecState
  <2>3. CASE RecMark
    BY <2>3, <1>t DEF RecMark, RecState
  <2>4. CASE MarkScan
    <3>1. \/ rec' = RecIdle
          \/ rec' = [RecIdle EXCEPT !.pc = "marking",
                                    !.workers = {w \in Workers : Stale(w)}]
      BY <2>4 DEF MarkScan
    <3> QED
      BY <3>1, <1>n, RecIdleType DEF RecState
  <2>5. CASE MarkCommit \/ RecList
    BY <2>5, RecIdleType DEF MarkCommit, RecList, RecState
  <2>6. CASE RecDone
    BY <2>6, <1>n, RecIdleType DEF RecDone, RecState
  <2>7. CASE RecFail \/ RecCommit \/ RecCrash
    BY <2>7, <1>n DEF RecFail, RecCommit, RecCrash
  <2> QED
    BY <1>4, <2>1, <2>2, <2>3, <2>4, <2>5, <2>6, <2>7 DEF RecNext, RecStep
<1> QED
  BY <1>0, <1>1, <1>2, <1>3, <1>4, NextSteps DEF TargetChosen

(* A worker that recovery has chosen (recovery.py:70) is another one than  *)
(* the one that fell silent, and nothing takes it OFFLINE before the       *)
(* instance is committed there (recovery.py:95-99).                        *)
THEOREM ShellterTarget == Spec => []RecoveryTargetOnline
<1> DEFINE IInv == TypeOK /\ TargetChosen
<1>1. Init => IInv
  BY InitTypes DEF Init, RecInit, RecIdle, TargetChosen
<1>2. IInv /\ [Next]_vars => IInv'
  <2>1. ASSUME TargetChosen, UNCHANGED vars
        PROVE  TargetChosen'
    BY <2>1 DEF vars, leaseVars, apiVars, dbVars, TargetChosen
  <2> QED
    BY <2>1, StepTypes, StutterTypes, TargetStep
<1>3. IInv => RecoveryTargetOnline
  BY DEF TargetChosen, RecoveryTargetOnline
<1> QED
  BY <1>1, <1>2, <1>3, PTL DEF Spec

-----------------------------------------------------------------------------
(* Recovery claims places too: one on the worker it has chosen, and, once  *)
(* it has seen an instance recoverable, the place the instance has where   *)
(* it is, even if a stop takes the instance off before it is marked.       *)
Marking(w) == {i \in Residents(w) : rec.pc = "checked" /\ rec.id = i}

Held(w) == ActiveOn(inst, w) \cup Marking(w)

Moving(w) == IF rec.pc \in {"placed", "created"} /\ rec.target = w THEN 1 ELSE 0

HeldClaims(w) == Cardinality(Held(w)) + Cardinality(Placing(w)) + Moving(w)

FailoverClaims ==
    \A w \in Workers : HeldClaims(w) <= Capacity + Cardinality(Requests)

(* The sets that are counted are finite; at most one place is claimed by   *)
(* recovery.                                                               *)
LEMMA HeldCounts ==
    ASSUME NEW w
    PROVE  /\ IsFiniteSet(Held(w)) /\ Cardinality(Held(w)) \in Nat
           /\ Cardinality(Held(w)) + Moving(w) <= ActiveCount(inst, w) + 1
           /\ ActiveCount(inst, w) <= Cardinality(Held(w))
           /\ Moving(w) \in {0, 1}
<1>1. IsFiniteSet(ActiveOn(inst, w)) /\ ActiveCount(inst, w) \in Nat
  BY CountType
<1>2. /\ IsFiniteSet(ActiveOn(inst, w) \cup {rec.id})
      /\ Cardinality(ActiveOn(inst, w) \cup {rec.id})
           = IF rec.id \in ActiveOn(inst, w) THEN ActiveCount(inst, w)
             ELSE ActiveCount(inst, w) + 1
  BY <1>1, FS_AddElement DEF ActiveCount
<1>3. Held(w) \subseteq ActiveOn(inst, w) \cup {rec.id}
  BY DEF Held, Marking
<1>4. /\ IsFiniteSet(Held(w)) /\ Cardinality(Held(w)) \in Nat
      /\ Cardinality(Held(w)) <= Cardinality(ActiveOn(inst, w) \cup {rec.id})
  BY <1>2, <1>3, FS_Subset, FS_CardinalityType
<1>5. ActiveCount(inst, w) <= Cardinality(Held(w))
  <2>1. ActiveOn(inst, w) \subseteq Held(w)
    BY DEF Held
  <2> QED
    BY <1>4, <2>1, FS_Subset DEF ActiveCount
<1>6. CASE rec.pc = "checked"
  BY <1>1, <1>2, <1>4, <1>5, <1>6 DEF Moving
<1>7. CASE rec.pc # "checked"
  <2>1. Held(w) = ActiveOn(inst, w)
    BY <1>7 DEF Held, Marking
  <2> QED
    BY <1>1, <1>4, <1>5, <2>1 DEF Moving, ActiveCount
<1> QED
  BY <1>6, <1>7

(* A step of the recovery worker either chooses w, with the count of       *)
(* instances that was checked, or turns its claim on w into an instance,   *)
(* or adds neither.                                                        *)
LEMMA RecStepPlaces ==
    ASSUME TypeOK, RecNext, NEW w \in Workers
    PROVE  \/ /\ ActiveCount(inst, w) < Capacity
              /\ Held(w)' \subseteq ActiveOn(inst, w)
           \/ /\ Moving(w) = 1 /\ Moving(w)' = 0
              /\ Held(w)' \subseteq Held(w) \cup {rec.id}
           \/ Held(w)' \subseteq Held(w) /\ Moving(w)' <= Moving(w)
<1>t. rec \in RecState /\ inst \in [Ids -> InstanceRow]
  BY DEF TypeOK, RecTypeOK, LeaseTypeOK, ApiTypeOK, DbTypeOK
<1>n. NextInstance.pc = "instances" /\ RecIdle.pc = "idle"
  BY DEF NextInstance, RecIdle
<1> DEFINE Away == {"idle", "marking", "marked", "workers", "instances",
                    "recovering"}
<1>a. ASSUME rec'.pc \in Away
      PROVE  Held(w)' = ActiveOn(inst, w)' /\ Moving(w)' = 0
  BY <1>a DEF Held, Marking, Moving
<1>m. Moving(w) \in {0, 1} /\ ActiveOn(inst, w) \subseteq Held(w)
  BY DEF Moving, Held
<1>s. (UNCHANGED inst) => ActiveOn(inst, w)' = ActiveOn(inst, w)
  BY DEF ActiveOn, Active
<1>1. ASSUME MarkScan \/ MarkCommit \/ RecList \/ RecOpen \/ RecDone \/ RecCrash
      PROVE  Held(w)' \subseteq Held(w) /\ Moving(w)' <= Moving(w)
  <2>1. UNCHANGED inst
    BY <1>1 DEF MarkScan, MarkCommit, RecList, RecOpen, RecDone, RecCrash, dbVars
  <2>2. rec'.pc \in Away
    <3>1. CASE MarkScan
      <4>1. \/ rec' = RecIdle
            \/ rec' = [RecIdle EXCEPT !.pc = "marking",
                                      !.workers = {v \in Workers : Stale(v)}]
        BY <3>1 DEF MarkScan
      <4> QED
        BY <4>1, <1>n, RecIdleType DEF RecState
    <3>2. CASE MarkCommit \/ RecList
      BY <3>2, RecIdleType DEF MarkCommit, RecList, RecState
    <3>3. CASE RecOpen
      BY <3>3, <1>t DEF RecOpen, RecState
    <3>4. CASE RecDone
      BY <3>4, <1>n, RecIdleType DEF RecDone, RecState
    <3>5. CASE RecCrash
      BY <3>5, <1>n DEF RecCrash
    <3> QED
      BY <1>1, <3>1, <3>2, <3>3, <3>4, <3>5
  <2> QED
    BY <2>1, <2>2, <1>a, <1>m, <1>s
<1>2. ASSUME RecCheck
      PROVE  Held(w)' \subseteq Held(w) /\ Moving(w)' <= Moving(w)
  <2>1. PICK i \in rec.todo :
           rec' = IF inst[i].status \in RECOVERABLE_STATUSES
                  THEN [rec EXCEPT !.pc = "checked", !.todo = @ \ {i},
                                   !.id = i, !.status = inst[i].status]
                  ELSE [rec EXCEPT !.todo = @ \ {i}]
    BY <1>2 DEF RecCheck
  <2>2. UNCHANGED inst /\ rec.pc = "instances" /\ i \in Ids
    BY <1>2, <1>t DEF RecCheck, RecState, dbVars
  <2>3. CASE inst[i].status \in RECOVERABLE_STATUSES
    <3>1. rec'.pc = "checked" /\ rec'.id = i
      BY <2>1, <2>3, <1>t DEF RecState
    <3>2. Active(inst, i)
      BY <2>3 DEF Active, RECOVERABLE_STATUSES, ACTIVE_INSTANCE_STATUSES
    <3>3. Marking(w)' \subseteq ActiveOn(inst, w)
      BY <2>2, <3>1, <3>2 DEF Marking, Residents, ActiveOn
    <3>4. Moving(w)' = 0
      BY <3>1 DEF Moving
    <3> QED
      BY <2>2, <3>3, <3>4, <1>m, <1>s DEF Held
  <2>4. CASE inst[i].status \notin RECOVERABLE_STATUSES
    <3>1. rec'.pc = "instances"
      BY <2>1, <2>2, <2>4, <1>t DEF RecState
    <3> QED
      BY <2>2, <3>1, <1>a, <1>m, <1>s
  <2> QED
    BY <2>3, <2>4
<1>3. ASSUME RecMark
      PROVE  Held(w)' \subseteq Held(w) /\ Moving(w)' <= Moving(w)
  <2>1. rec.pc = "checked" /\ rec'.pc = "recovering"
    BY <1>3, <1>t DEF RecMark, RecState
  <2>2. inst' = inst \/ inst' = [inst EXCEPT ![rec.id].status = "recovering"]
    BY <1>3 DEF RecMark
  <2>3. ActiveOn(inst, w)' \subseteq Held(w)
    BY <2>1, <2>2, <1>t DEF ActiveOn, Active, Held, Marking, Residents, InstanceRow
  <2> QED
    BY <2>1, <2>3, <1>a, <1>m
<1>4. ASSUME RecPlace
      PROVE  \/ /\ ActiveCount(inst, w) < Capacity
                /\ Held(w)' \subseteq ActiveOn(inst, w)
             \/ Held(w)' \subseteq Held(w) /\ Moving(w)' <= Moving(w)
  <2>1. UNCHANGED inst
    BY <1>4 DEF RecPlace, dbVars
  <2>2. CASE rec' = NextInstance
    BY <2>1, <2>2, <1>n, <1>a, <1>m, <1>s
  <2>3. ASSUME NEW v \in OtherWorkers, NEW p,
               rec' = [rec EXCEPT !.pc = "placed", !.target = v, !.port = p]
        PROVE  \/ /\ ActiveCount(inst, w) < Capacity
                  /\ Held(w)' \subseteq ActiveOn(inst, w)
               \/ Held(w)' \subseteq Held(w) /\ Moving(w)' <= Moving(w)
    <3>1. rec'.pc = "placed" /\ rec'.target = v
      BY <2>3, <1>t DEF RecState
    <3>2. Held(w)' = ActiveOn(inst, w)
      BY <2>1, <3>1, <1>s DEF Held, Marking
    <3>3. CASE v = w
      BY <3>2, <3>3 DEF OtherWorkers, SelectWorker, Eligible
    <3>4. CASE v # w
      <4>1. Moving(w)' = 0
        BY <3>1, <3>4 DEF Moving
      <4> QED
        BY <3>2, <4>1, <1>m
    <3> QED
      BY <3>3, <3>4
  <2> QED
    BY <1>4, <2>2, <2>3 DEF RecPlace
<1>5. ASSUME RecCreate
      PROVE  Held(w)' \subseteq Held(w) /\ Moving(w)' <= Moving(w)
  <2>1. /\ UNCHANGED inst /\ rec.pc = "placed" /\ rec'.pc = "created"
        /\ rec'.target = rec.target
    BY <1>5, <1>t DEF RecCreate, RecState, dbVars
  <2>2. Held(w)' = ActiveOn(inst, w) /\ Moving(w)' = Moving(w)
    BY <2>1, <1>s DEF Held, Marking, Moving
  <2> QED
    BY <2>2, <1>m
<1>6. ASSUME RecFail
      PROVE  Held(w)' \subseteq Held(w) /\ Moving(w)' <= Moving(w)
  <2>1. ActiveOn(inst, w)' \subseteq ActiveOn(inst, w)
    BY <1>6, <1>t DEF RecFail, ActiveOn, Active, InstanceRow,
                      ACTIVE_INSTANCE_STATUSES
  <2>2. rec'.pc = "instances"
    BY <1>6, <1>n DEF RecFail
  <2> QED
    BY <2>1, <2>2, <1>a, <1>m
<1>7. ASSUME RecCommit
      PROVE  \/ /\ Moving(w) = 1 /\ Moving(w)' = 0
                /\ Held(w)' \subseteq Held(w) \cup {rec.id}
             \/ Held(w)' \subseteq Held(w) /\ Moving(w)' <= Moving(w)
  <2>0. Held(w)' = ActiveOn(inst, w)' /\ Moving(w)' = 0
    BY <1>7, <1>n, <1>a DEF RecCommit
  <2>1. rec.pc = "created" /\ inst' = [inst EXCEPT ![rec.id] = Moved]
    BY <1>7 DEF RecCommit
  <2>2. CASE rec.target = w
    <3>1. ActiveOn(inst, w)' \subseteq ActiveOn(inst, w) \cup {rec.id}
      BY <2>1 DEF ActiveOn, Active
    <3>2. Moving(w) = 1
      BY <2>1, <2>2 DEF Moving
    <3> QED
      BY <2>0, <3>1, <3>2, <1>m
  <2>3. CASE rec.target # w
    <3>1. ActiveOn(inst, w)' \subseteq ActiveOn(inst, w)
      BY <2>1, <2>3 DEF ActiveOn, Active, Moved
    <3>2. Held(w)' \subseteq Held(w) /\ Moving(w)' <= Moving(w)
      BY <2>0, <3>1, <1>m
    <3> QED
      BY <3>2
  <2> QED
    BY <2>2, <2>3
<1> QED
  BY <1>1, <1>2, <1>3, <1>4, <1>5, <1>6, <1>7 DEF RecNext, RecStep

(* What happens to the claims on w, step by step.                          *)
LEMMA FailoverClaimsStep ==
    ASSUME TypeOK, FailoverClaims, Next
    PROVE  FailoverClaims'
<1> SUFFICES ASSUME NEW w \in Workers
             PROVE  HeldClaims(w)' <= Capacity + Cardinality(Requests)
  BY DEF FailoverClaims
<1>t. ApiTypeOK /\ inst \in [Ids -> InstanceRow]
  BY DEF TypeOK, LeaseTypeOK, ApiTypeOK, DbTypeOK
<1>h. HeldClaims(w) <= Capacity + Cardinality(Requests)
  BY DEF FailoverClaims
<1>f. /\ IsFiniteSet(Requests) /\ Cardinality(Requests) \in Nat
      /\ IsFiniteSet(Placing(w)) /\ Cardinality(Placing(w)) \in Nat
      /\ IsFiniteSet(ActiveOn(inst, w)) /\ ActiveCount(inst, w) \in Nat
  BY CountedFinite, CountType, FS_CardinalityType
<1>c. /\ IsFiniteSet(Held(w)) /\ Cardinality(Held(w)) \in Nat
      /\ Cardinality(Held(w)) + Moving(w) <= ActiveCount(inst, w) + 1
      /\ Moving(w) \in {0, 1}
  BY HeldCounts
<1>d. /\ Cardinality(Held(w)') \in Nat /\ Moving(w)' \in {0, 1}
  <2>1. IsFiniteSet(Held(w)')
    <3>1. Held(w)' \subseteq Ids
      BY DEF Held, Marking, Residents, ActiveOn
    <3>2. IsFiniteSet(Ids)
      BY FS_Interval, BoundsAssumption DEF Ids
    <3> QED
      BY <3>1, <3>2, FS_Subset
  <2> QED
    BY <2>1, FS_CardinalityType DEF Moving
<1>p. /\ Cardinality(Placing(w)') \in Nat
      /\ Cardinality(Placing(w)') <= Cardinality(Requests)
      /\ Cardinality(Placing(w)) <= Cardinality(Requests)
  <2>1. Placing(w)' \subseteq Requests /\ Placing(w) \subseteq Requests
    BY DEF Placing
  <2> QED
    BY <2>1, <1>f, FS_Subset, FS_CardinalityType
<1>1. ASSUME Held(w)' \subseteq Held(w), Placing(w)' \subseteq Placing(w),
             Moving(w)' <= Moving(w)
      PROVE  HeldClaims(w)' <= HeldClaims(w)
  <2>1. Cardinality(Held(w)') + Cardinality(Placing(w)')
          <= Cardinality(Held(w)) + Cardinality(Placing(w))
    BY <1>1, <1>c, <1>f, SumShrinks
  <2> QED
    BY <2>1, <1>1, <1>c, <1>d, <1>f, <1>p DEF HeldClaims
<1>2. ASSUME NEW i, NEW r \in Placing(w), Held(w)' \subseteq Held(w) \cup {i},
             Placing(w)' \subseteq Placing(w) \ {r}, Moving(w)' <= Moving(w)
      PROVE  HeldClaims(w)' <= HeldClaims(w)
  <2>1. Cardinality(Held(w)') + Cardinality(Placing(w)')
          <= Cardinality(Held(w)) + Cardinality(Placing(w))
    BY <1>2, <1>c, <1>f, SumMoves
  <2> QED
    BY <2>1, <1>2, <1>c, <1>d, <1>f, <1>p DEF HeldClaims
<1>3. CASE ApiNext /\ UNCHANGED rec
  <2>m. Moving(w)' = Moving(w)
    BY <1>3 DEF Moving
  <2>1. CASE ActiveCount(inst, w) < Capacity /\ UNCHANGED inst
    <3>1. Held(w)' = Held(w)
      BY <1>3, <2>1 DEF Held, Marking, Residents, ActiveOn, Active
    <3> QED
      BY <2>1, <2>m, <3>1, <1>c, <1>f, <1>p, CapacityAssumption DEF HeldClaims
  <2>2. ASSUME NEW i \in Ids, NEW r \in Placing(w),
               ActiveOn(inst, w)' \subseteq ActiveOn(inst, w) \cup {i},
               Residents(w)' \subseteq Residents(w) \cup {i},
               Placing(w)' \subseteq Placing(w) \ {r}
        PROVE  HeldClaims(w)' <= HeldClaims(w)
    <3>1. Held(w)' \subseteq Held(w) \cup {i}
      BY <1>3, <2>2 DEF Held, Marking
    <3> QED
      BY <2>2, <2>m, <3>1, <1>2, <1>c
  <2>3. ASSUME ActiveOn(inst, w)' \subseteq ActiveOn(inst, w),
               Residents(w)' \subseteq Residents(w),
               Placing(w)' \subseteq Placing(w)
        PROVE  HeldClaims(w)' <= HeldClaims(w)
    <3>1. Held(w)' \subseteq Held(w)
      BY <1>3, <2>3 DEF Held, Marking
    <3> QED
      BY <2>3, <2>m, <3>1, <1>1, <1>c
  <2>4. \/ ActiveCount(inst, w) < Capacity /\ UNCHANGED inst
        \/ HeldClaims(w)' <= HeldClaims(w)
    BY <1>3, <1>t, <2>2, <2>3, ApiStepPlaces
  <2> QED
    BY <2>1, <2>4, <1>h, <1>c, <1>d, <1>f, <1>p, CapacityAssumption
       DEF HeldClaims
<1>4. CASE /\ \/ (ExpNext \/ Tick \/ HbNext \/ UNCHANGED dbVars) /\ UNCHANGED req
              \/ Redeployment
           /\ UNCHANGED rec
  <2>1. \/ UNCHANGED inst
        \/ inst' = [inst EXCEPT ![exp.id].status = "deleted"]
    BY <1>4, RedeploymentKeeps
       DEF ExpNext, ExpScan, ExpLoad, ExpDone, ExpCall, ExpCallError, ExpCommit,
           ExpRollback, ExpCrash, Tick, HbNext, HbLoad, HbCommit, dbVars
  <2>2. Held(w)' \subseteq Held(w)
    <3>1. ActiveOn(inst, w)' \subseteq ActiveOn(inst, w)
      BY <2>1, <1>t DEF ActiveOn, Active, InstanceRow, ACTIVE_INSTANCE_STATUSES
    <3>2. Residents(w)' \subseteq Residents(w)
      BY <2>1, <1>t DEF Residents, InstanceRow
    <3> QED
      BY <1>4, <3>1, <3>2 DEF Held, Marking
  <2>3. Placing(w)' \subseteq Placing(w) /\ Moving(w)' = Moving(w)
    BY <1>4, RedeploymentKeeps, ForgottenClaims DEF Moving
  <2>4. HeldClaims(w)' <= HeldClaims(w)
    BY <2>2, <2>3, <1>1, <1>c
  <2> QED
    BY <2>4, <1>h, <1>c, <1>d, <1>f, <1>p, CapacityAssumption DEF HeldClaims
<1>5. CASE RecNext /\ UNCHANGED req
  <2>m. Placing(w)' = Placing(w)
    BY <1>5 DEF Placing
  <2>1. CASE ActiveCount(inst, w) < Capacity /\ Held(w)' \subseteq ActiveOn(inst, w)
    <3>1. Cardinality(Held(w)') <= ActiveCount(inst, w)
      BY <2>1, <1>f, FS_Subset DEF ActiveCount
    <3> QED
      BY <2>1, <2>m, <3>1, <1>d, <1>f, <1>p, CapacityAssumption DEF HeldClaims
  <2>2. CASE /\ Moving(w) = 1 /\ Moving(w)' = 0
             /\ Held(w)' \subseteq Held(w) \cup {rec.id}
    <3>1. /\ IsFiniteSet(Held(w) \cup {rec.id})
          /\ Cardinality(Held(w) \cup {rec.id}) <= Cardinality(Held(w)) + 1
      <4>1. /\ IsFiniteSet(Held(w) \cup {rec.id})
            /\ Cardinality(Held(w) \cup {rec.id}) =
                 IF rec.id \in Held(w) THEN Cardinality(Held(w))
                 ELSE Cardinality(Held(w)) + 1
        BY <1>c, FS_AddElement
      <4> QED
        BY <4>1, <1>c
    <3>2. /\ Cardinality(Held(w) \cup {rec.id}) \in Nat
          /\ Cardinality(Held(w)') <= Cardinality(Held(w) \cup {rec.id})
      BY <2>2, <3>1, FS_Subset, FS_CardinalityType
    <3> QED
      BY <2>2, <2>m, <3>1, <3>2, <1>h, <1>c, <1>d, <1>f, CapacityAssumption
         DEF HeldClaims
  <2>3. CASE Held(w)' \subseteq Held(w) /\ Moving(w)' <= Moving(w)
    <3>1. HeldClaims(w)' <= HeldClaims(w)
      BY <2>3, <2>m, <1>1
    <3> QED
      BY <3>1, <1>h, <1>c, <1>d, <1>f, <1>p, CapacityAssumption DEF HeldClaims
  <2> QED
    BY <1>5, <2>1, <2>2, <2>3, RecStepPlaces
<1> QED
  BY <1>3, <1>4, <1>5, NextSteps

(* Nothing is claimed when the controller starts.                          *)
LEMMA FailoverClaimsInit == Init => FailoverClaims
<1> SUFFICES ASSUME Init, NEW w \in Workers
             PROVE  HeldClaims(w) <= Capacity + Cardinality(Requests)
  BY DEF FailoverClaims
<1>1. Held(w) = {} /\ Placing(w) = {} /\ Moving(w) = 0
  BY DEF Init, LeaseInit, ApiInit, DbInit, RecInit, RecIdle, NoInstance, Idle,
         Held, Marking, Moving, ActiveOn, Active, Placing, RentPc,
         ACTIVE_INSTANCE_STATUSES
<1>2. HeldClaims(w) = 0
  BY <1>1, FS_EmptySet DEF HeldClaims
<1>3. Cardinality(Requests) \in Nat
  BY CountedFinite
<1> QED
  BY <1>2, <1>3, CapacityAssumption

(* With recovery beside the requests a worker holds at most one instance   *)
(* more: the check of select_worker() (resource_manager.py:36-63) is then  *)
(* shared by one process more, and recovery marks an instance it has seen  *)
(* running even when a stop came first (recovery.py:62-67).                *)
THEOREM ShellterCapacity == Spec => []CapacityBoundFailover
<1> DEFINE IInv == TypeOK /\ FailoverClaims
<1>1. Init => IInv
  BY InitTypes, FailoverClaimsInit
<1>2. IInv /\ [Next]_vars => IInv'
  <2>1. ASSUME FailoverClaims, UNCHANGED vars
        PROVE  FailoverClaims'
    BY <2>1 DEF vars, leaseVars, apiVars, dbVars, FailoverClaims, HeldClaims,
                Held, Marking, Residents, Moving, ActiveOn, Active, Placing
  <2> QED
    BY <2>1, StepTypes, StutterTypes, FailoverClaimsStep
<1>3. IInv => CapacityBoundFailover
  <2> SUFFICES ASSUME FailoverClaims, NEW w \in Workers
               PROVE  ActiveCount(inst, w) <= Capacity + Cardinality(Requests)
    BY DEF CapacityBoundFailover
  <2>1. HeldClaims(w) <= Capacity + Cardinality(Requests)
    BY DEF FailoverClaims
  <2>2. /\ ActiveCount(inst, w) \in Nat /\ Cardinality(Held(w)) \in Nat
        /\ ActiveCount(inst, w) <= Cardinality(Held(w))
        /\ Moving(w) \in {0, 1}
    BY HeldCounts, CountType
  <2>3. Cardinality(Placing(w)) \in Nat /\ Cardinality(Requests) \in Nat
    BY CountedFinite, FS_CardinalityType
  <2> QED
    BY <2>1, <2>2, <2>3, CapacityAssumption DEF HeldClaims
<1> QED
  BY <1>1, <1>2, <1>3, PTL DEF Spec

-----------------------------------------------------------------------------
(* The instances.  Recovery works on a row that is committed, and the      *)
(* container that it is about to name was started for that row.            *)
MovingPc == {"checked", "recovering", "placed", "created"}

RecGenuine == rec.pc \in MovingPc => rec.id \in Ids /\ Committed(rec.id)

RecHosts == rec.pc = "created" => Names(rec.cid, rec.target, rec.id, rec.port)

HostStatuses == {"running", "recovering", "error"}

ActiveHosted == \A i \in Ids : ActiveRental(i) => inst[i].status \in HostStatuses

(* What recovery does to a row and to the containers.                      *)
RecMoves(i) == \/ inst'[i] = inst[i]
               \/ /\ SamePlace(i) /\ Committed(i)
                  /\ inst'[i].status \in HostStatuses
               \/ /\ Committed(i) /\ inst'[i].status \in HostStatuses
                  /\ Names(inst'[i].cid, inst'[i].worker, i, inst'[i].port)

(* What it loads, it loads from a committed row, and it starts no          *)
(* container but for the row it is moving.                                 *)
LEMMA RecInstances ==
    ASSUME DbTypeOK, AgentTypeOK, RecTypeOK, RecGenuine, RecHosts, RecNext
    PROVE  /\ UNCHANGED <<seq, rental>>
           /\ AgentsMove
           /\ \A i \in Ids : RecMoves(i)
<1>t. /\ inst \in [Ids -> InstanceRow]
      /\ rec \in RecState
  BY DEF DbTypeOK, RecTypeOK
<1>k. (UNCHANGED container) => AgentsMove
  BY DEF AgentsMove, NoneNew, Kept, Coming
<1>1. CASE UNCHANGED <<seq, rental, inst, container>>
  BY <1>1, <1>k DEF RecMoves
<1>2. CASE RecMark
  <2>1. rec.id \in Ids /\ Committed(rec.id)
    BY <1>2 DEF RecMark, RecGenuine, MovingPc
  <2>2. ASSUME NEW i \in Ids PROVE RecMoves(i)
    <3>1. CASE i = rec.id /\ rec.status # "recovering"
      <4>1. SamePlace(i) /\ inst'[i].status = "recovering"
        BY <1>2, <1>t, <3>1 DEF RecMark, SamePlace, InstanceRow
      <4> QED
        BY <2>1, <3>1, <4>1 DEF RecMoves, HostStatuses
    <3>2. CASE i # rec.id \/ rec.status = "recovering"
      BY <1>2, <1>t, <3>2 DEF RecMark, RecMoves
    <3> QED
      BY <3>1, <3>2
  <2> QED
    BY <1>2, <1>k, <2>2 DEF RecMark
<1>3. CASE RecCreate
  <2>1. PICK c \in Cids : CreateOk(rec.target, rec.id, rec.port, c)
    BY <1>3 DEF RecCreate
  <2>2. NewContainer(rec.target, rec.id, rec.port, c)
    BY <2>1, StartEffect
  <2> QED
    BY <1>3, <2>2 DEF RecCreate, AgentsMove, RecMoves, dbVars
<1>4. CASE RecFail
  <2>1. rec.id \in Ids /\ Committed(rec.id)
    BY <1>4 DEF RecFail, RecGenuine, MovingPc
  <2>2. AgentsMove
    BY <1>4, CreateErrorEffect DEF RecFail, AgentsMove
  <2>3. ASSUME NEW i \in Ids PROVE RecMoves(i)
    <3>1. CASE i = rec.id
      <4>1. SamePlace(i) /\ inst'[i].status = "error"
        BY <1>4, <1>t, <3>1 DEF RecFail, SamePlace, InstanceRow
      <4> QED
        BY <2>1, <3>1, <4>1 DEF RecMoves, HostStatuses
    <3>2. CASE i # rec.id
      BY <1>4, <1>t, <3>2 DEF RecFail, RecMoves
    <3> QED
      BY <3>1, <3>2
  <2> QED
    BY <1>4, <2>2, <2>3 DEF RecFail
<1>5. CASE RecCommit
  <2>1. /\ rec.id \in Ids /\ Committed(rec.id)
        /\ Names(rec.cid, rec.target, rec.id, rec.port)
    BY <1>5 DEF RecCommit, RecGenuine, RecHosts, MovingPc
  <2>2. ASSUME NEW i \in Ids PROVE RecMoves(i)
    <3>1. CASE i = rec.id
      <4>1. /\ inst'[i].status = "running" /\ inst'[i].cid = rec.cid
            /\ inst'[i].worker = rec.target /\ inst'[i].port = rec.port
        BY <1>5, <1>t, <3>1 DEF RecCommit, Moved
      <4> QED
        BY <2>1, <3>1, <4>1 DEF RecMoves, HostStatuses
    <3>2. CASE i # rec.id
      BY <1>5, <1>t, <3>2 DEF RecCommit, RecMoves
    <3> QED
      BY <3>1, <3>2
  <2> QED
    BY <1>5, <1>k, <2>2 DEF RecCommit
<1>6. CASE RecCrash
  <2>1. AgentsMove
    BY <1>6, <1>k, StartEffect DEF RecCrash, AgentsMove
  <2> QED
    BY <1>6, <2>1 DEF RecCrash, RecMoves, dbVars
<1> QED
  BY <1>1, <1>2, <1>3, <1>4, <1>5, <1>6
     DEF RecNext, RecStep, MarkScan, MarkCommit, RecList, RecOpen,
         RecDone, RecCheck, RecPlace, dbVars

(* What recovery works on and has started, after its own step.             *)
LEMMA RecKeepsOwn ==
    ASSUME DbTypeOK, AgentTypeOK, RecTypeOK, RecGenuine, RecHosts, RecNext
    PROVE  RecGenuine' /\ RecHosts'
<1>t. /\ inst \in [Ids -> InstanceRow]
      /\ rec \in RecState
  BY DEF DbTypeOK, RecTypeOK
<1>c. \A i \in Ids : Committed(i) => inst'[i].status # "absent"
  BY RecInstances DEF RecMoves, Committed, HostStatuses
<1>n. NextInstance.pc = "instances" /\ RecIdle.pc = "idle"
  BY DEF NextInstance, RecIdle
<1>0. CASE rec'.pc \notin MovingPc
  BY <1>0 DEF RecGenuine, RecHosts, MovingPc
<1>1. CASE /\ rec'.pc \in MovingPc \ {"created"} /\ rec'.id = rec.id
           /\ rec.pc \in MovingPc
  <2>1. rec'.id \in Ids /\ inst'[rec'.id].status # "absent"
    BY <1>1, <1>c DEF RecGenuine
  <2> QED
    BY <1>1, <2>1 DEF RecGenuine, RecHosts, Committed
<1>2. CASE RecCheck
  <2>1. PICK i \in rec.todo :
           rec' = IF inst[i].status \in RECOVERABLE_STATUSES
                  THEN [rec EXCEPT !.pc = "checked", !.todo = @ \ {i},
                                   !.id = i, !.status = inst[i].status]
                  ELSE [rec EXCEPT !.todo = @ \ {i}]
    BY <1>2 DEF RecCheck
  <2>2. i \in Ids /\ rec.pc = "instances" /\ UNCHANGED inst
    BY <1>2, <1>t, <2>1 DEF RecCheck, RecState, dbVars
  <2>3. CASE inst[i].status \in RECOVERABLE_STATUSES
    <3>1. rec'.pc = "checked" /\ rec'.id = i
      BY <1>t, <2>1, <2>3 DEF RecState
    <3>2. inst'[rec'.id].status # "absent"
      BY <2>2, <2>3, <3>1 DEF RECOVERABLE_STATUSES
    <3> QED
      BY <2>2, <3>1, <3>2 DEF RecGenuine, RecHosts, Committed
  <2>4. CASE inst[i].status \notin RECOVERABLE_STATUSES
    <3>1. rec'.pc = "instances"
      BY <1>t, <2>1, <2>2, <2>4 DEF RecState
    <3> QED
      BY <3>1, <1>0 DEF MovingPc
  <2> QED
    BY <2>3, <2>4
<1>3. CASE RecMark
  <2>1. rec'.pc = "recovering" /\ rec'.id = rec.id /\ rec.pc = "checked"
    BY <1>3, <1>t DEF RecMark, RecState
  <2> QED
    BY <2>1, <1>1 DEF MovingPc
<1>4. CASE RecPlace
  <2>1. ASSUME NEW w, NEW p, rec' = [rec EXCEPT !.pc = "placed", !.target = w,
                                                !.port = p]
        PROVE  RecGenuine' /\ RecHosts'
    <3>1. rec'.pc = "placed" /\ rec'.id = rec.id /\ rec.pc = "recovering"
      BY <1>4, <1>t, <2>1 DEF RecPlace, RecState
    <3> QED
      BY <3>1, <1>1 DEF MovingPc
  <2>2. CASE rec' = NextInstance
    BY <2>2, <1>n, <1>0 DEF MovingPc
  <2> QED
    BY <1>4, <2>1, <2>2 DEF RecPlace
<1>5. CASE RecCreate
  <2>1. PICK c \in Cids :
           /\ CreateOk(rec.target, rec.id, rec.port, c)
           /\ rec' = [rec EXCEPT !.pc = "created", !.cid = c]
    BY <1>5 DEF RecCreate
  <2>2. /\ rec'.pc = "created" /\ rec'.cid = c /\ rec'.id = rec.id
        /\ rec'.target = rec.target /\ rec'.port = rec.port
    BY <1>t, <2>1 DEF RecState
  <2>3. /\ NewContainer(rec.target, rec.id, rec.port, c)
        /\ ~container'[c].late
    BY <2>1, StartEffect
  <2>4. rec.id \in Ids /\ inst'[rec.id].status # "absent"
    BY <1>5, <1>c DEF RecCreate, RecGenuine, MovingPc
  <2> QED
    BY <2>2, <2>3, <2>4 DEF RecGenuine, RecHosts, Names, Committed, NewContainer
<1>6. CASE RecFail \/ RecCommit
  BY <1>6, <1>0, <1>n DEF RecFail, RecCommit, MovingPc
<1>7. CASE RecOpen \/ RecDone
  <2>1. rec'.pc \in {"instances", "workers", "idle"}
    BY <1>7, <1>t, <1>n DEF RecOpen, RecDone, RecState, RecIdle
  <2> QED
    BY <2>1, <1>0 DEF MovingPc
<1>8. CASE MarkScan \/ MarkCommit \/ RecList \/ RecCrash
  <2>1. rec'.pc \in {"idle", "marking", "marked", "workers"}
    BY <1>8, <1>n DEF MarkScan, MarkCommit, RecList, RecCrash, RecIdle
  <2> QED
    BY <2>1, <1>0 DEF MovingPc
<1> QED
  BY <1>2, <1>3, <1>4, <1>5, <1>6, <1>7, <1>8 DEF RecNext, RecStep

-----------------------------------------------------------------------------
(* The whole controller, as far as rows and containers go, is the requests *)
(* and the expiration beside processes that insert no row and end no       *)
(* rental.                                                                 *)
InstancesInv == /\ IdsInv /\ HostsInv
                /\ RecGenuine /\ RecHosts
                /\ ActiveHosted

(* The steps of the web container and of the heartbeats.                   *)
LEMMA AsideKeeps ==
    ASSUME \/ HbNext /\ UNCHANGED <<container, req, exp, rec, webVars>>
           \/ Tick /\ UNCHANGED <<container, req, exp, rec, hb, webVars>>
           \/ Redeployment /\ UNCHANGED <<exp, rec>>
    PROVE  /\ UNCHANGED <<seq, inst, rental, container, exp, rec>>
           /\ req' = req \/ req' = [r \in Requests |-> Idle]
BY DEF Redeployment, WebStops, Boot, BootLoad, BootCommit, BootFail, Unheard,
       GoStale, HbNext, HbLoad, HbCommit, Tick, dbVars

(* A creation that nobody waits for writes no row.                         *)
LEMMA LateKeeps ==
    ASSUME AgentNext /\ UNCHANGED <<dbVars, req, exp, rec, hb, webVars>>
    PROVE  UNCHANGED <<seq, inst, rental, exp, rec, req>>
BY DEF dbVars

LEMMA NextRows ==
    ASSUME TypeOK, RecGenuine, RecHosts, Next
    PROVE  RowsNext
<1>t. DbTypeOK /\ AgentTypeOK /\ RecTypeOK
  BY DEF TypeOK, LeaseTypeOK, ApiTypeOK
<1>1. CASE RecNext /\ UNCHANGED <<req, exp, hb, webVars>>
  <2>1. UNCHANGED <<seq, rental>> /\ \A i \in Ids : RecMoves(i)
    BY <1>1, <1>t, RecInstances
  <2>2. \A i \in Ids : Committed(i)' <=> Committed(i)
    BY <2>1 DEF RecMoves, Committed, HostStatuses
  <2> QED
    BY <1>1, <2>1, <2>2 DEF RowsNext, Elsewhere
<1>2. CASE /\ UNCHANGED <<seq, inst, rental, exp, rec>>
           /\ req' = req \/ req' = [r \in Requests |-> Idle]
  BY <1>2 DEF RowsNext, Elsewhere, Committed
<1> QED
  BY <1>1, <1>2, AsideKeeps, LateKeeps, NextSteps DEF RowsNext

(* The containers under every step.                                        *)
LEMMA NextHosts ==
    ASSUME TypeOK, HostsInv, RecGenuine, RecHosts, Next
    PROVE  AgentsMove /\ HostsInv'
<1>t. ApiTypeOK /\ DbTypeOK /\ AgentTypeOK /\ RecTypeOK
  BY DEF TypeOK, LeaseTypeOK, ApiTypeOK
<1>k. (UNCHANGED container) => AgentsMove
  BY DEF AgentsMove, NoneNew, Kept, Coming
<1>1. CASE ApiNext
  <2>1. PICK r \in Requests : Rent(r) \/ Stop(r) \/ Extend(r) \/ RequestDies(r)
    BY <1>1 DEF ApiNext
  <2>2. PICK new : HostMoves(r, new)
    BY <2>1, <1>t, RequestHosts DEF HostsInv
  <2>3. AgentsMove
    BY <2>2, <1>k DEF HostMoves, AgentsMove
  <2> QED
    BY <1>1, <1>t, <2>3, HostsApi
<1>2. CASE ExpNext /\ UNCHANGED <<req, rec, hb, webVars>>
  <2>1. AgentsMove /\ \A i \in Ids : SamePlace(i)
    BY <1>2, <1>t, ExpHosting DEF AgentsMove
  <2> QED
    BY <1>2, <1>t, <2>1, HostsElsewhere
<1>3. CASE RecNext /\ UNCHANGED <<req, exp, hb, webVars>>
  <2>1. AgentsMove /\ \A i \in Ids : RecMoves(i)
    BY <1>3, <1>t, RecInstances
  <2>2. \A i \in Ids : \/ SamePlace(i)
                       \/ Names(inst'[i].cid, inst'[i].worker, i, inst'[i].port)
    BY <2>1 DEF RecMoves, SamePlace
  <2> QED
    BY <1>3, <1>t, <2>1, <2>2, HostsElsewhere
<1>4. CASE /\ UNCHANGED <<seq, inst, rental, container, exp, rec>>
           /\ req' = req \/ req' = [r \in Requests |-> Idle]
  <2>1. \A i \in Ids : SamePlace(i)
    BY <1>4 DEF SamePlace
  <2> QED
    BY <1>4, <1>t, <1>k, <2>1, HostsElsewhere
<1>5. CASE AgentNext /\ UNCHANGED <<dbVars, req, exp, rec, hb, webVars>>
  <2>1. AgentsMove /\ \A i \in Ids : SamePlace(i)
    BY <1>5, <1>t, LateEffect, LateKeeps DEF AgentsMove, SamePlace
  <2> QED
    BY <1>5, <1>t, <2>1, HostsElsewhere
<1> QED
  BY <1>1, <1>2, <1>3, <1>4, <1>5, AsideKeeps, NextSteps

(* What recovery knows, under every step.                                  *)
LEMMA NextRecovery ==
    ASSUME TypeOK, IdsInv, HostsInv, RecGenuine, RecHosts, Next
    PROVE  RecGenuine' /\ RecHosts'
<1>t. LeaseTypeOK /\ DbTypeOK /\ AgentTypeOK /\ RecTypeOK
  BY DEF TypeOK, LeaseTypeOK, ApiTypeOK
<1>1. CASE RecNext
  BY <1>1, <1>t, RecKeepsOwn
<1>2. CASE UNCHANGED rec
  <2>1. \A i \in Ids : Committed(i) => Committed(i)'
    BY <1>t, NextRows, RowStep, SequenceGrows, RowsKept
  <2>2. RecGenuine'
    BY <1>2, <2>1 DEF RecGenuine, Committed
  <2>3. RecHosts'
    <3>1. CASE rec.pc = "created"
      <4>1. rec.id \in Ids /\ Names(rec.cid, rec.target, rec.id, rec.port)
        BY <3>1 DEF RecGenuine, RecHosts, MovingPc
      <4>2. /\ container'[rec.cid].worker = rec.target
            /\ container'[rec.cid].id = rec.id
            /\ container'[rec.cid].port = rec.port
            /\ ~container'[rec.cid].late
        BY <4>1, NextHosts, NamesKept DEF Names
      <4> QED
        BY <1>2, <4>1, <4>2 DEF RecHosts, Names
    <3> QED
      BY <1>2, <3>1 DEF RecHosts
  <2> QED
    BY <2>2, <2>3
<1> QED
  BY <1>1, <1>2, AsideKeeps, LateKeeps, NextSteps

(* A rental that is ACTIVE keeps an instance, under every step: a stop and *)
(* an expiration take both, and a rent that fails writes neither.          *)
LEMMA NextActive ==
    ASSUME TypeOK, IdsInv, RecGenuine, RecHosts, ActiveHosted, Next
    PROVE  ActiveHosted'
<1>t. /\ inst \in [Ids -> InstanceRow]
      /\ rental \in [Ids -> RentalRow]
      /\ req \in [Requests -> Request]
      /\ DbTypeOK /\ AgentTypeOK /\ RecTypeOK
  BY DEF TypeOK, LeaseTypeOK, ApiTypeOK, DbTypeOK
<1> USE DEF ActiveHosted, ActiveRental, HostStatuses
<1>0. CASE UNCHANGED <<inst, rental>>
  BY <1>0
<1>1. ASSUME NEW r \in Requests, RentCommit(r) \/ RentFail(r)
      PROVE  ActiveHosted'
  <2>1. req[r].id \in Ids
    BY <1>1, <1>t DEF RentCommit, RentFail, Request
  <2> QED
    BY <1>1, <1>t, <2>1 DEF RentCommit, RentFail, OwnInstance
<1>2. ASSUME NEW r \in Requests, StopCommit(r)
      PROVE  ActiveHosted'
  <2>1. req[r].id \in Ids /\ req[r].pc \in StopPc
    BY <1>2, <1>t DEF StopCommit, Request, StopPc
  <2>2. ~req[r].active => ~ActiveRental(req[r].id)
    BY <2>1 DEF IdsInv, Genuine, StopGenuine
  <2>3. /\ rental'[req[r].id].status # "ACTIVE"
        /\ \A j \in Ids \ {req[r].id} : /\ inst'[j] = inst[j]
                                        /\ rental'[j] = rental[j]
    BY <1>2, <1>t, <2>1, <2>2 DEF StopCommit, Stopped, Cancelled, RentalRow
  <2> QED
    BY <2>3
<1>3. ASSUME NEW r \in Requests, ExtendCommit(r)
      PROVE  ActiveHosted'
  BY <1>3, <1>t DEF ExtendCommit, RentalRow
<1>4. CASE ApiNext
  <2>1. PICK r \in Requests : Rent(r) \/ Stop(r) \/ Extend(r) \/ RequestDies(r)
    BY <1>4 DEF ApiNext
  <2>2. \/ UNCHANGED <<inst, rental>>
        \/ RentCommit(r) \/ RentFail(r) \/ StopCommit(r) \/ ExtendCommit(r)
    BY <2>1 DEF Rent, RentAdmit, RentChoose, RentFlush, RentCreate, RentCount,
                Stop, StopLoad, StopCall, StopFlush, Extend, ExtendLoad,
                RequestDies, dbVars
  <2> QED
    BY <2>2, <1>0, <1>1, <1>2, <1>3
<1>5. CASE ExpNext
  <2>1. UNCHANGED <<inst, rental>> \/ ExpCommit
    BY <1>5 DEF ExpNext, ExpScan, ExpLoad, ExpDone, ExpCall, ExpCallError,
                ExpRollback, ExpCrash, dbVars
  <2>2. ExpCommit => ActiveHosted'
    BY <1>t DEF ExpCommit, Expired, InstanceRow, RentalRow
  <2> QED
    BY <2>1, <2>2, <1>0
<1>6. CASE RecNext
  <2>1. UNCHANGED rental /\ \A i \in Ids : RecMoves(i)
    BY <1>6, <1>t, RecInstances
  <2> QED
    BY <2>1 DEF RecMoves
<1> QED
  BY <1>0, <1>4, <1>5, <1>6, AsideKeeps, LateKeeps, NextSteps

(* The invariant of the rows and the containers.                           *)
LEMMA InstancesInit == Init => InstancesInv
<1> SUFFICES ASSUME Init PROVE InstancesInv
  OBVIOUS
<1>1. IdsInv /\ HostsInv
  BY LeaseInitInv, HostsInit DEF Init, LeaseInit, LeaseInv
<1>2. rec.pc = "idle" /\ \A i \in Ids : rental[i].status = "absent"
  BY DEF Init, RecInit, RecIdle, LeaseInit, ApiInit, DbInit, NoRental
<1> QED
  BY <1>1, <1>2
     DEF InstancesInv, RecGenuine, RecHosts, MovingPc, ActiveHosted, ActiveRental

LEMMA InstancesStep ==
    TypeOK /\ TypeOK' /\ InstancesInv /\ [Next]_vars => InstancesInv'
<1>1. TypeOK /\ TypeOK' /\ InstancesInv /\ Next => InstancesInv'
  BY NextRows, NextHosts, NextRecovery, NextActive, IdsInvStep
     DEF InstancesInv, TypeOK
<1>2. ASSUME InstancesInv, UNCHANGED vars
      PROVE  InstancesInv'
  <2> USE <1>2 DEF InstancesInv, vars, leaseVars, apiVars, dbVars
  <2>1. IdsInv'
    BY IdsStutter
  <2>2. EndpointGenuine' /\ Arrived'
    BY DEF HostsInv, EndpointGenuine, Arrived
  <2>3. \A r \in Requests : RentHosts(r)'
    BY DEF HostsInv, RentHosts, Names
  <2>4. RecGenuine' /\ RecHosts' /\ ActiveHosted'
    BY DEF RecGenuine, RecHosts, Names, Committed, ActiveHosted, ActiveRental
  <2> QED
    BY <2>1, <2>2, <2>3, <2>4 DEF HostsInv
<1> QED
  BY <1>1, <1>2

LEMMA InstancesHold == Spec => [](TypeOK /\ InstancesInv)
<1>1. Init => TypeOK /\ InstancesInv
  BY InitTypes, InstancesInit
<1>2. TypeOK /\ InstancesInv /\ [Next]_vars => (TypeOK /\ InstancesInv)'
  BY StepTypes, StutterTypes, InstancesStep
<1> QED
  BY <1>1, <1>2, PTL DEF Spec

(* Whatever recovery moves, and whatever fails or comes late: the worker   *)
(* and the port that a dashboard shows are those of the container that was *)
(* started for the instance and answered for, never of one left behind.    *)
THEOREM ShellterAddresses == Spec => []EndpointGenuine
<1>1. InstancesInv => EndpointGenuine
  BY DEF InstancesInv, HostsInv
<1> QED
  BY <1>1, InstancesHold, PTL

(* No mix of stop_instance(), expire_due_rentals() and recover_instances() *)
(* takes an instance and leaves its rental ACTIVE, so that it would count  *)
(* against the quota unseen.                                               *)
THEOREM ShellterInstances == Spec => []ActiveRentalHasInstance
<1>1. InstancesInv => ActiveRentalHasInstance
  BY DEF InstancesInv, ActiveHosted, HostStatuses, ActiveRentalHasInstance,
         Dashboard, OwnedBy, HIDDEN_STATUSES
<1> QED
  BY <1>1, InstancesHold, PTL

(* Recovery, redeployments and heartbeats leave the contract of the        *)
(* rentals untouched: the whole controller implements LeaseContract.       *)
THEOREM ShellterImplementsContract == Spec => ImplementsContract
<1>1. Init => Contract!Init
  BY LeaseInitInv DEF Init
<1>2. TypeOK /\ InstancesInv /\ QuotaClaims /\ [Next]_vars
        => [Contract!Next]_([i \in Ids |-> Lease(i)])
  <2>1. TypeOK /\ InstancesInv /\ QuotaClaims /\ Next
          => [Contract!Next]_([i \in Ids |-> Lease(i)])
    BY NextRows, ContractStep DEF InstancesInv, TypeOK
  <2>2. UNCHANGED vars => UNCHANGED [i \in Ids |-> Lease(i)]
    BY DEF vars, leaseVars, apiVars, dbVars, Lease
  <2> QED
    BY <2>1, <2>2
<1>3. Spec => []QuotaClaims
  BY ShellterQuota, PTL
<1> QED
  BY <1>1, <1>2, <1>3, InstancesHold, PTL
     DEF Spec, ImplementsContract, Contract!Spec
=============================================================================
