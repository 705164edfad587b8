----------------------------- MODULE RentalApiProofs -----------------------------
(***************************************************************************)
(* What holds of the request processes for every value of the constants:   *)
(* their steps keep the types, and the quota and the capacity are bounded. *)
(* Neither bound is inductive as it stands: a rent that has passed its     *)
(* check will add a row later.  Such a rent is a claim, and what stays     *)
(* bounded is the rows and the claims together.                            *)
(***************************************************************************)
EXTENDS RentalApi, AgentProofs, Counting

(* The record of a process is replaced by a record of the same type.       *)
LEMMA GotoType ==
    ASSUME req \in [Requests -> Request], NEW r \in Requests,
           NEW new \in Request, Goto(r, new)
    PROVE  req' \in [Requests -> Request]
BY DEF Goto

(* A process between two requests.                                         *)
LEMMA IdleType == Idle \in Request
<1>1. 0 \in Times
  BY BoundsAssumption DEF Times
<1> QED
  BY <1>1 DEF Idle, Request, Pc

-----------------------------------------------------------------------------
(* The parts of the type invariant.                                        *)
LEMMA RowTypes ==
    ASSUME ApiTypeOK
    PROVE  /\ now \in Nat /\ seq \in 0..MaxId /\ locked \subseteq Ids
           /\ worker \in [Workers -> WorkerRow]
           /\ inst \in [Ids -> InstanceRow]
           /\ rental \in [Ids -> RentalRow]
           /\ AgentTypeOK
           /\ req \in [Requests -> Request]
BY DEF ApiTypeOK, DbTypeOK

(* A step that leaves the rows alone keeps the types, if it leaves a       *)
(* request record in req.                                                  *)
LEMMA RowsUnchangedType ==
    ASSUME ApiTypeOK, UNCHANGED dbVars, AgentTypeOK',
           req' \in [Requests -> Request]
    PROVE  ApiTypeOK'
BY DEF ApiTypeOK, DbTypeOK, dbVars

(* The steps of a rent keep the types.                                     *)
LEMMA RentTypes ==
    ASSUME ApiTypeOK, NEW r \in Requests, Rent(r)
    PROVE  ApiTypeOK'
<1> USE RowTypes
<1>q. req[r] \in Request
  OBVIOUS
<1>a. (UNCHANGED container) => AgentTypeOK'
  BY DEF AgentTypeOK
<1>1. ASSUME NEW u \in Users, RentAdmit(r, u)
      PROVE  ApiTypeOK'
  <2>1. [Idle EXCEPT !.pc = "admitted", !.user = u] \in Request
    BY IdleType DEF Request, Pc
  <2> QED
    BY <1>1, <1>a, <2>1, GotoType, RowsUnchangedType DEF RentAdmit
<1>2. CASE RentChoose(r)
  <2>1. \A w \in SelectWorker(inst) :
           [req[r] EXCEPT !.pc = "chosen", !.worker = w] \in Request
    BY <1>q, SelectionTypes DEF Request, Pc
  <2>2. \E new \in Request : Goto(r, new)
    BY <1>2, <2>1, IdleType DEF RentChoose
  <2> QED
    BY <1>2, <1>a, <2>2, GotoType, RowsUnchangedType DEF RentChoose
<1>3. CASE RentFlush(r)
  <2>1. ASSUME NEW p \in PickFreeSshPort(inst), NEW d \in Durations,
               now + d <= MaxEnd, seq < MaxId
        PROVE  [req[r] EXCEPT !.pc = "flushed", !.id = seq + 1,
                              !.port = p, !.end = now + d] \in Request
    <3>1. seq + 1 \in Ids
      BY <2>1, BoundsAssumption DEF Ids
    <3>2. now + d \in Times
      BY <2>1, BoundsAssumption, DurationsAssumption DEF Times
    <3>3. p \in Ports
      BY SelectionTypes
    <3> QED
      BY <1>q, <3>1, <3>2, <3>3 DEF Request, Pc
  <2>2. \E new \in Request : Goto(r, new)
    BY <1>3, <2>1, IdleType DEF RentFlush
  <2>3. seq' \in 0..MaxId
    <3>1. seq' = seq \/ (seq < MaxId /\ seq' = seq + 1)
      BY <1>3 DEF RentFlush
    <3> QED
      BY <3>1, BoundsAssumption
  <2> QED
    BY <1>3, <1>a, <2>2, <2>3, GotoType DEF RentFlush, ApiTypeOK, DbTypeOK
<1>4. CASE RentCreate(r)
  <2>1. PICK c \in Cids :
           /\ CreateOk(req[r].worker, req[r].id, req[r].port, c)
           /\ Goto(r, [req[r] EXCEPT !.pc = "created", !.cid = c])
    BY <1>4 DEF RentCreate
  <2>2. [req[r] EXCEPT !.pc = "created", !.cid = c] \in Request
    BY <1>4, <1>q DEF RentCreate, Request, Pc
  <2>3. AgentTypeOK'
    BY <1>q, <2>1, CreateType DEF Request
  <2> QED
    BY <1>4, <2>1, <2>2, <2>3, GotoType, RowsUnchangedType DEF RentCreate
<1>5. CASE RentCount(r)
  <2>1. ASSUME NEW rows
        PROVE  [req[r] EXCEPT !.pc = "counted",
                              !.flag = WorkerIsFull(rows, req[r].worker)]
                 \in Request
    <3>1. WorkerIsFull(rows, req[r].worker) \in BOOLEAN
      BY CountType, CapacityAssumption DEF WorkerIsFull
    <3> QED
      BY <1>5, <1>q, <3>1 DEF RentCount, Request, Pc
  <2>2. \E new \in Request : Goto(r, new)
    BY <1>5, <2>1 DEF RentCount
  <2> QED
    BY <1>5, <1>a, <2>2, GotoType, RowsUnchangedType DEF RentCount
<1>6. CASE RentCommit(r)
  <2>1. /\ OwnInstance(req[r], "running") \in InstanceRow
        /\ [status |-> "ACTIVE", user |-> req[r].user, end |-> req[r].end]
             \in RentalRow
    BY <1>q DEF OwnInstance, InstanceRow, RentalRow, Request, InstanceStatus,
                RentalStatus
  <2>2. worker' \in [Workers -> WorkerRow]
    BY <1>6 DEF RentCommit, WorkerRow, WorkerStatus
  <2>3. inst' \in [Ids -> InstanceRow] /\ rental' \in [Ids -> RentalRow]
    BY <1>6, <2>1 DEF RentCommit
  <2> QED
    BY <1>6, <1>a, <2>2, <2>3, IdleType, GotoType
       DEF RentCommit, ApiTypeOK, DbTypeOK
<1>7. CASE RentFail(r)
  <2>1. /\ OwnInstance(req[r], "error") \in InstanceRow
        /\ [status |-> "CANCELLED", user |-> req[r].user, end |-> req[r].end]
             \in RentalRow
    BY <1>q DEF OwnInstance, InstanceRow, RentalRow, Request, InstanceStatus,
                RentalStatus
  <2>2. inst' \in [Ids -> InstanceRow] /\ rental' \in [Ids -> RentalRow]
    BY <1>7, <2>1 DEF RentFail
  <2>3. AgentTypeOK'
    BY <1>7, <1>q, CreateType DEF RentFail, Request
  <2> QED
    BY <1>7, <2>2, <2>3, IdleType, GotoType DEF RentFail, ApiTypeOK, DbTypeOK
<1> QED
  BY <1>1, <1>2, <1>3, <1>4, <1>5, <1>6, <1>7 DEF Rent

(* The steps of a stop keep the types.                                     *)
LEMMA StopTypes ==
    ASSUME ApiTypeOK, NEW r \in Requests, Stop(r)
    PROVE  ApiTypeOK'
<1> USE RowTypes
<1>q. req[r] \in Request
  OBVIOUS
<1>a. (UNCHANGED container) => AgentTypeOK'
  BY DEF AgentTypeOK
<1>1. ASSUME NEW u \in Users, NEW i \in Ids, StopLoad(r, u, i)
      PROVE  ApiTypeOK'
  <2>1. /\ inst[i].cid \in Cids \cup {NoCid}
        /\ inst[i].worker \in Workers \cup {None}
        /\ inst[i].status \in InstanceStatus \cup {"absent"}
    BY DEF InstanceRow
  <2>2. ActiveRental(i) \in BOOLEAN
    BY DEF ActiveRental
  <2>3. (worker[inst[i].worker].status = "BUSY") \in BOOLEAN
    OBVIOUS
  <2>4. (IF inst[i].cid # NoCid THEN "loaded" ELSE "called")
          \in {"loaded", "called"}
    OBVIOUS
  <2>5. 0 \in Times
    BY BoundsAssumption DEF Times
  <2>6. [pc     |-> IF inst[i].cid # NoCid THEN "loaded" ELSE "called",
         user   |-> u,
         worker |-> inst[i].worker,
         id     |-> i,
         port   |-> NoPort,
         cid    |-> inst[i].cid,
         end    |-> 0,
         status |-> inst[i].status,
         active |-> ActiveRental(i),
         flag   |-> worker[inst[i].worker].status = "BUSY"] \in Request
    BY <2>1, <2>2, <2>3, <2>4, <2>5 DEF Request, Pc
  <2> QED
    BY <1>1, <1>a, <2>6, GotoType, RowsUnchangedType DEF StopLoad
<1>2. CASE StopCall(r)
  <2>1. [req[r] EXCEPT !.pc = "called"] \in Request
    BY <1>2, <1>q DEF StopCall, Request, Pc
  <2>2. AgentTypeOK'
    BY <1>2, DeleteType DEF StopCall
  <2> QED
    BY <1>2, <2>1, <2>2, GotoType, RowsUnchangedType DEF StopCall
<1>3. CASE StopFlush(r)
  <2>1. [req[r] EXCEPT
           !.pc = "stopping",
           !.flag = req[r].flag /\ ~WorkerIsFull(Stopped(req[r]), req[r].worker)]
             \in Request
    <3>1. (req[r].flag /\ ~WorkerIsFull(Stopped(req[r]), req[r].worker))
            \in BOOLEAN
      OBVIOUS
    <3> QED
      BY <1>3, <1>q, <3>1 DEF StopFlush, Request, Pc
  <2>2. req[r].id \in Ids
    BY <1>3, <1>q DEF StopFlush, Request
  <2>3. locked' \subseteq Ids
    BY <1>3, <2>2 DEF StopFlush
  <2> QED
    BY <1>3, <1>a, <2>1, <2>3, GotoType DEF StopFlush, ApiTypeOK, DbTypeOK
<1>4. CASE StopCommit(r)
  <2>1. inst' \in [Ids -> InstanceRow]
    BY <1>4 DEF StopCommit, Stopped, InstanceRow, InstanceStatus
  <2>2. rental' \in [Ids -> RentalRow]
    BY <1>4 DEF StopCommit, Cancelled, RentalRow, RentalStatus
  <2>3. worker' \in [Workers -> WorkerRow]
    BY <1>4 DEF StopCommit, WorkerRow, WorkerStatus
  <2> QED
    BY <1>4, <1>a, <2>1, <2>2, <2>3, IdleType, GotoType
       DEF StopCommit, ApiTypeOK, DbTypeOK
<1> QED
  BY <1>1, <1>2, <1>3, <1>4 DEF Stop

(* The steps of an extension keep the types.                               *)
LEMMA ExtendTypes ==
    ASSUME ApiTypeOK, NEW r \in Requests, Extend(r)
    PROVE  ApiTypeOK'
<1> USE RowTypes
<1>q. req[r] \in Request
  OBVIOUS
<1>a. (UNCHANGED container) => AgentTypeOK'
  BY DEF AgentTypeOK
<1>1. ASSUME NEW u \in Users, NEW i \in Ids, NEW d \in Durations,
             ExtendLoad(r, u, i, d)
      PROVE  ApiTypeOK'
  <2>1. Extended(i, d) \in Times
    BY <1>1, BoundsAssumption, DurationsAssumption
       DEF ExtendLoad, Extended, RentalRow, Times
  <2>2. [Idle EXCEPT !.pc = "extending", !.user = u, !.id = i,
                     !.end = Extended(i, d)] \in Request
    BY <2>1, IdleType DEF Request, Pc
  <2> QED
    BY <1>1, <1>a, <2>2, GotoType, RowsUnchangedType DEF ExtendLoad
<1>2. CASE ExtendCommit(r)
  <2>1. req[r].end \in Times
    BY <1>q DEF Request
  <2>2. rental' \in [Ids -> RentalRow]
    BY <1>2, <2>1 DEF ExtendCommit, RentalRow
  <2> QED
    BY <1>2, <1>a, <2>2, IdleType, GotoType DEF ExtendCommit, ApiTypeOK, DbTypeOK
<1> QED
  BY <1>1, <1>2 DEF Extend

(* The steps of the request processes keep the types.                      *)
LEMMA ApiStepTypes ==
    ASSUME ApiTypeOK, ApiNext
    PROVE  ApiTypeOK'
<1>1. PICK r \in Requests : Rent(r) \/ Stop(r) \/ Extend(r) \/ RequestDies(r)
  BY DEF ApiNext
<1>2. CASE RequestDies(r)
  <2>1. locked' \subseteq Ids
    BY <1>2, RowTypes DEF RequestDies
  <2>2. req[r] \in Request /\ AgentTypeOK
    BY RowTypes DEF ApiTypeOK
  <2>3. AgentTypeOK'
    BY <1>2, <2>2, StartedType DEF RequestDies, AgentTypeOK, Request
  <2> QED
    BY <1>2, <2>1, <2>3, RowTypes, IdleType, GotoType
       DEF RequestDies, ApiTypeOK, DbTypeOK
<1> QED
  BY <1>1, <1>2, RentTypes, StopTypes, ExtendTypes

(* The types hold when the processes start.                                *)
LEMMA ApiInitTypes == ApiInit => ApiTypeOK
<1> SUFFICES ASSUME ApiInit PROVE ApiTypeOK
  OBVIOUS
<1>1. NoInstance \in InstanceRow
  BY DEF NoInstance, InstanceRow
<1>2. NoRental \in RentalRow
  BY BoundsAssumption DEF NoRental, RentalRow, Times
<1>3. worker \in [Workers -> WorkerRow]
  BY DEF ApiInit, DbInit, WorkerRow, WorkerStatus
<1>4. NoContainer \in Container
  BY DEF NoContainer, Container
<1> QED
  BY <1>1, <1>2, <1>3, <1>4, IdleType, BoundsAssumption
     DEF ApiInit, DbInit, AgentInit, ApiTypeOK, DbTypeOK, AgentTypeOK

-----------------------------------------------------------------------------
(* The rows alone: no user has more ACTIVE rentals than one per gunicorn   *)
(* process beyond the last that the check of rent() allows.                *)
QuotaBound ==
    \A u \in Users :
        Cardinality(ActiveRentals(u)) <= Quota - 1 + Cardinality(Requests)

(* The same for the active instances of a worker.                          *)
CapacityBound ==
    \A w \in Workers :
        ActiveCount(inst, w) <= Capacity - 1 + Cardinality(Requests)

-----------------------------------------------------------------------------
(* The sets that are counted are finite.                                   *)
LEMMA CountedFinite ==
    ASSUME NEW u, NEW w
    PROVE  /\ IsFiniteSet(Requests) /\ Cardinality(Requests) \in Nat
           /\ Cardinality(Requests) >= 1
           /\ ActiveRentals(u) \subseteq Ids /\ IsFiniteSet(ActiveRentals(u))
           /\ IsFiniteSet(Renting(u)) /\ Renting(u) \subseteq Requests
           /\ IsFiniteSet(ActiveOn(inst, w))
           /\ IsFiniteSet(Placing(w)) /\ Placing(w) \subseteq Requests
<1>1. IsFiniteSet(Ids)
  BY FS_Interval, BoundsAssumption DEF Ids
<1>2. ActiveRentals(u) \subseteq Ids /\ ActiveOn(inst, w) \subseteq Ids
  BY DEF ActiveRentals, ActiveOn
<1>3. Renting(u) \subseteq Requests /\ Placing(w) \subseteq Requests
  BY DEF Renting, Placing
<1>4. Cardinality(Requests) \in Nat /\ Cardinality(Requests) # 0
  BY RequestsAssumption, FS_CardinalityType, FS_EmptySet
<1> QED
  BY <1>1, <1>2, <1>3, <1>4, RequestsAssumption, FS_Subset

(* A process that leaves its rent, or goes on with the same user and the   *)
(* same worker, claims nothing new.                                        *)
LEMMA GotoClaims ==
    ASSUME req \in [Requests -> Request], NEW r \in Requests, NEW new,
           Goto(r, new),
           \/ new.pc \notin RentPc
           \/ /\ req[r].pc \in RentPc \ {"admitted"}
              /\ new.user = req[r].user /\ new.worker = req[r].worker,
           NEW u, NEW w
    PROVE  Renting(u)' \subseteq Renting(u) /\ Placing(w)' \subseteq Placing(w)
BY DEF Goto, Renting, Placing

(* The steps between the check of a rent and its commit.                   *)
LEMMA RentGoesOn ==
    ASSUME ApiTypeOK, NEW r \in Requests, NEW u, NEW w,
           RentFlush(r) \/ RentCreate(r) \/ RentCount(r)
    PROVE  Renting(u)' \subseteq Renting(u) /\ Placing(w)' \subseteq Placing(w)
<1> USE RowTypes
<1>q. req[r] \in Request
  OBVIOUS
<1>i. Idle.pc \notin RentPc
  BY DEF Idle, RentPc
<1>1. CASE RentFlush(r)
  <2>1. CASE Goto(r, Idle)
    BY <2>1, <1>i, GotoClaims
  <2>2. ASSUME NEW p, NEW e,
               Goto(r, [req[r] EXCEPT !.pc = "flushed", !.id = seq + 1,
                                      !.port = p, !.end = e])
        PROVE  Renting(u)' \subseteq Renting(u) /\ Placing(w)' \subseteq Placing(w)
    <3> DEFINE new == [req[r] EXCEPT !.pc = "flushed", !.id = seq + 1,
                                     !.port = p, !.end = e]
    <3>1. new.user = req[r].user /\ new.worker = req[r].worker
      BY <1>q DEF Request
    <3>2. req[r].pc \in RentPc \ {"admitted"}
      BY <1>1 DEF RentFlush, RentPc
    <3>3. Goto(r, new)
      BY <2>2
    <3> HIDE DEF new
    <3> QED
      BY <3>1, <3>2, <3>3, GotoClaims
  <2> QED
    BY <1>1, <2>1, <2>2 DEF RentFlush
<1>2. CASE RentCreate(r)
  <2>1. PICK c \in Cids : Goto(r, [req[r] EXCEPT !.pc = "created", !.cid = c])
    BY <1>2 DEF RentCreate
  <2> DEFINE new == [req[r] EXCEPT !.pc = "created", !.cid = c]
  <2>2. new.user = req[r].user /\ new.worker = req[r].worker
    BY <1>q DEF Request
  <2>3. req[r].pc \in RentPc \ {"admitted"}
    BY <1>2 DEF RentCreate, RentPc
  <2>4. Goto(r, new)
    BY <2>1
  <2> HIDE DEF new
  <2> QED
    BY <2>2, <2>3, <2>4, GotoClaims
<1>3. CASE RentCount(r)
  <2>1. PICK f : Goto(r, [req[r] EXCEPT !.pc = "counted", !.flag = f])
    BY <1>3 DEF RentCount
  <2> DEFINE new == [req[r] EXCEPT !.pc = "counted", !.flag = f]
  <2>2. new.user = req[r].user /\ new.worker = req[r].worker
    BY <1>q DEF Request
  <2>3. req[r].pc \in RentPc \ {"admitted"}
    BY <1>3 DEF RentCount, RentPc
  <2>4. Goto(r, new)
    BY <2>1
  <2> HIDE DEF new
  <2> QED
    BY <2>2, <2>3, <2>4, GotoClaims
<1> QED
  BY <1>1, <1>2, <1>3

(* The steps that are not of a rent, or end one.                           *)
LEMMA RentOver ==
    ASSUME ApiTypeOK, NEW r \in Requests, NEW u, NEW w,
           \/ RentCommit(r) \/ RentFail(r)
           \/ Stop(r) \/ Extend(r) \/ RequestDies(r)
    PROVE  /\ Renting(u)' \subseteq Renting(u) \ {r}
           /\ Placing(w)' \subseteq Placing(w) \ {r}
<1> USE RowTypes
<1>q. req[r] \in Request
  OBVIOUS
<1> DEFINE Other == Pc \ RentPc
<1>i. Idle.pc \in Other
  BY DEF Idle, RentPc, Pc
<1>1. ASSUME NEW new, Goto(r, new), new.pc \in Other
      PROVE  /\ Renting(u)' \subseteq Renting(u) \ {r}
             /\ Placing(w)' \subseteq Placing(w) \ {r}
  BY <1>1 DEF Goto, Renting, Placing
<1>2. CASE \/ RentCommit(r) \/ RentFail(r) \/ StopCommit(r)
           \/ ExtendCommit(r) \/ RequestDies(r)
  <2>1. Goto(r, Idle)
    BY <1>2 DEF RentCommit, RentFail, StopCommit, ExtendCommit, RequestDies
  <2> QED
    BY <2>1, <1>1, <1>i
<1>3. ASSUME NEW v \in Users, NEW i \in Ids, StopLoad(r, v, i)
      PROVE  \E new : Goto(r, new) /\ new.pc \in Other
  BY <1>3 DEF StopLoad, Pc, RentPc
<1>4. CASE StopCall(r)
  <2>1. [req[r] EXCEPT !.pc = "called"].pc \in Other
    BY <1>q DEF Request, Pc, RentPc
  <2> QED
    BY <1>4, <1>1, <2>1 DEF StopCall
<1>5. CASE StopFlush(r)
  <2>1. PICK f : Goto(r, [req[r] EXCEPT !.pc = "stopping", !.flag = f])
    BY <1>5 DEF StopFlush
  <2>2. [req[r] EXCEPT !.pc = "stopping", !.flag = f].pc \in Other
    BY <1>q DEF Request, Pc, RentPc
  <2> QED
    BY <1>1, <2>1, <2>2
<1>6. ASSUME NEW v \in Users, NEW i \in Ids, NEW d \in Durations,
             ExtendLoad(r, v, i, d)
      PROVE  \E new : Goto(r, new) /\ new.pc \in Other
  <2>1. [Idle EXCEPT !.pc = "extending", !.user = v, !.id = i,
                     !.end = Extended(i, d)].pc \in Other
    BY DEF Idle, Pc, RentPc
  <2> QED
    BY <1>6, <2>1 DEF ExtendLoad
<1> QED
  BY <1>1, <1>2, <1>3, <1>4, <1>5, <1>6 DEF Stop, Extend

-----------------------------------------------------------------------------
(* A step of the processes either admits a rent of u, with the count of    *)
(* rentals that was checked, or turns a claim of u into a rental, or adds  *)
(* neither a rental nor a claim.                                           *)
LEMMA ApiStepRentals ==
    ASSUME ApiTypeOK, ApiNext, NEW u \in Users
    PROVE  \/ BelowQuota(u) /\ UNCHANGED rental
           \/ \E i \in Ids, r \in Renting(u) :
                 /\ ActiveRentals(u)' \subseteq ActiveRentals(u) \cup {i}
                 /\ Renting(u)' \subseteq Renting(u) \ {r}
           \/ /\ ActiveRentals(u)' \subseteq ActiveRentals(u)
              /\ Renting(u)' \subseteq Renting(u)
<1> USE RowTypes
<1> DEFINE Shrinks == /\ ActiveRentals(u)' \subseteq ActiveRentals(u)
                      /\ Renting(u)' \subseteq Renting(u)
<1>1. PICK r \in Requests : Rent(r) \/ Stop(r) \/ Extend(r) \/ RequestDies(r)
  BY DEF ApiNext
<1>q. req[r] \in Request
  OBVIOUS
<1>s. (UNCHANGED rental) => ActiveRentals(u)' \subseteq ActiveRentals(u)
  BY DEF ActiveRentals, ActiveRental
<1>i. Idle.pc \notin RentPc
  BY DEF Idle, RentPc
<1>2. ASSUME NEW v \in Users, RentAdmit(r, v)
      PROVE  (BelowQuota(u) /\ UNCHANGED rental) \/ Shrinks
  <2>1. CASE v = u
    BY <1>2, <2>1 DEF RentAdmit, dbVars
  <2>2. CASE v # u
    <3>1. Renting(u)' \subseteq Renting(u)
      BY <1>2, <2>2 DEF RentAdmit, Goto, Renting, Idle
    <3> QED
      BY <1>2, <1>s, <3>1 DEF RentAdmit, dbVars
  <2> QED
    BY <2>1, <2>2
<1>3. ASSUME RentChoose(r) \/ RentFlush(r) \/ RentCreate(r) \/ RentCount(r)
      PROVE  Shrinks
  <2>1. Renting(u)' \subseteq Renting(u)
    <3>1. CASE RentChoose(r)
      <4>1. ASSUME NEW w,
                   Goto(r, [req[r] EXCEPT !.pc = "chosen", !.worker = w])
            PROVE  Renting(u)' \subseteq Renting(u)
        <5>1. [req[r] EXCEPT !.pc = "chosen", !.worker = w].user = req[r].user
          BY <1>q DEF Request
        <5>2. req[r].pc \in RentPc
          BY <3>1 DEF RentChoose, RentPc
        <5> QED
          BY <4>1, <5>1, <5>2 DEF Goto, Renting
      <4>2. CASE Goto(r, Idle)
        BY <4>2, <1>i, GotoClaims
      <4> QED
        BY <3>1, <4>1, <4>2 DEF RentChoose
    <3> QED
      BY <1>3, <3>1, RentGoesOn
  <2> QED
    BY <1>3, <1>s, <2>1 DEF RentChoose, RentFlush, RentCreate, RentCount, dbVars
<1>4. CASE RentCommit(r)
  <2>1. req[r].pc = "counted" /\ req[r].id \in Ids
    BY <1>4, <1>q DEF RentCommit, Request
  <2>2. Renting(u)' \subseteq Renting(u) \ {r}
    BY <1>4, RentOver
  <2>3. CASE req[r].user = u
    <3>1. r \in Renting(u)
      BY <2>1, <2>3 DEF Renting, RentPc
    <3>2. ActiveRentals(u)' \subseteq ActiveRentals(u) \cup {req[r].id}
      BY <1>4 DEF RentCommit, ActiveRentals, ActiveRental
    <3> QED
      BY <2>1, <2>2, <3>1, <3>2
  <2>4. CASE req[r].user # u
    <3>1. ActiveRentals(u)' \subseteq ActiveRentals(u)
      BY <1>4, <2>1, <2>4 DEF RentCommit, ActiveRentals, ActiveRental
    <3> QED
      BY <2>2, <3>1
  <2> QED
    BY <2>3, <2>4
<1>5. ASSUME RentFail(r) \/ Stop(r) \/ Extend(r) \/ RequestDies(r)
      PROVE  Shrinks
  <2>1. Renting(u)' \subseteq Renting(u)
    BY <1>5, RentOver
  <2>2. ActiveRentals(u)' \subseteq ActiveRentals(u)
    <3>1. CASE RentFail(r)
      BY <3>1 DEF RentFail, ActiveRentals, ActiveRental
    <3>2. CASE StopCommit(r)
      BY <3>2 DEF StopCommit, Cancelled, ActiveRentals, ActiveRental, RentalRow
    <3>3. CASE ExtendCommit(r)
      BY <3>3 DEF ExtendCommit, ActiveRentals, ActiveRental, RentalRow
    <3>4. CASE UNCHANGED rental
      BY <3>4, <1>s
    <3> QED
      BY <1>5, <3>1, <3>2, <3>3, <3>4
         DEF Stop, StopLoad, StopCall, StopFlush, Extend, ExtendLoad,
             RequestDies, dbVars
  <2> QED
    BY <2>1, <2>2
<1> QED
  BY <1>1, <1>2, <1>3, <1>4, <1>5 DEF Rent

(* The rentals and the claims of a user stay within the bound.             *)
LEMMA QuotaClaimsKept ==
    ASSUME ApiTypeOK, ApiNext, QuotaClaims
    PROVE  QuotaClaims'
<1> SUFFICES ASSUME NEW u \in Users
             PROVE  RentalClaims(u)' <= Quota - 1 + Cardinality(Requests)
  BY DEF QuotaClaims
<1>h. RentalClaims(u) <= Quota - 1 + Cardinality(Requests)
  BY DEF QuotaClaims
<1>f. /\ IsFiniteSet(Requests) /\ Cardinality(Requests) \in Nat
      /\ IsFiniteSet(ActiveRentals(u)) /\ IsFiniteSet(Renting(u))
  BY CountedFinite
<1>n. /\ Cardinality(ActiveRentals(u)) \in Nat
      /\ Cardinality(Renting(u)) \in Nat
  BY <1>f, FS_CardinalityType
<1>g. Renting(u)' \subseteq Requests
  BY DEF Renting
<1>1. CASE BelowQuota(u) /\ UNCHANGED rental
  <2>1. ActiveRentals(u)' = ActiveRentals(u)
    BY <1>1 DEF ActiveRentals, ActiveRental
  <2>2. Cardinality(ActiveRentals(u)) <= Quota - 1
    BY <1>1, <1>n, QuotaAssumption DEF BelowQuota
  <2>3. /\ Cardinality(Renting(u)') \in Nat
        /\ Cardinality(Renting(u)') <= Cardinality(Requests)
    BY <1>f, <1>g, FS_Subset, FS_CardinalityType
  <2> QED
    BY <2>1, <2>2, <2>3, <1>f, <1>n, QuotaAssumption DEF RentalClaims
<1>2. ASSUME NEW i \in Ids, NEW r \in Renting(u),
             ActiveRentals(u)' \subseteq ActiveRentals(u) \cup {i},
             Renting(u)' \subseteq Renting(u) \ {r}
      PROVE  RentalClaims(u)' <= RentalClaims(u)
  <2>1. Cardinality(ActiveRentals(u)') + Cardinality(Renting(u)')
          <= Cardinality(ActiveRentals(u)) + Cardinality(Renting(u))
    BY <1>2, <1>f, SumMoves
  <2> QED
    BY <2>1 DEF RentalClaims
<1>3. ASSUME ActiveRentals(u)' \subseteq ActiveRentals(u),
             Renting(u)' \subseteq Renting(u)
      PROVE  RentalClaims(u)' <= RentalClaims(u)
  <2>1. Cardinality(ActiveRentals(u)') + Cardinality(Renting(u)')
          <= Cardinality(ActiveRentals(u)) + Cardinality(Renting(u))
    BY <1>3, <1>f, SumShrinks
  <2> QED
    BY <2>1 DEF RentalClaims
<1>4. RentalClaims(u) \in Nat
  BY <1>n DEF RentalClaims
<1>5. RentalClaims(u)' \in Nat
  <2>1. IsFiniteSet(ActiveRentals(u)') /\ IsFiniteSet(Renting(u)')
    <3>1. ActiveRentals(u)' \subseteq Ids
      BY DEF ActiveRentals
    <3>2. IsFiniteSet(Ids)
      BY FS_Interval, BoundsAssumption DEF Ids
    <3> QED
      BY <1>f, <1>g, <3>1, <3>2, FS_Subset
  <2> QED
    BY <2>1, FS_CardinalityType DEF RentalClaims
<1> QED
  BY <1>1, <1>2, <1>3, <1>4, <1>5, <1>h, <1>f, QuotaAssumption, ApiStepRentals

-----------------------------------------------------------------------------
(* A process that forgets its request claims nothing.                      *)
LEMMA ForgottenClaims ==
    ASSUME req' = req \/ req' = [r \in Requests |-> Idle]
    PROVE  /\ \A u : Renting(u)' \subseteq Renting(u)
           /\ \A w : Placing(w)' \subseteq Placing(w)
BY DEF Renting, Placing, Idle, RentPc

(* The steps outside the request processes begin no rental: with no more   *)
(* requests they keep the bound on rentals and claims.                     *)
LEMMA QuotaClaimsShrink ==
    ASSUME QuotaClaims, req' = req \/ req' = [r \in Requests |-> Idle],
           \A u \in Users : ActiveRentals(u)' \subseteq ActiveRentals(u)
    PROVE  QuotaClaims'
<1> SUFFICES ASSUME NEW u \in Users
             PROVE  RentalClaims(u)' <= Quota - 1 + Cardinality(Requests)
  BY DEF QuotaClaims
<1>1. RentalClaims(u) <= Quota - 1 + Cardinality(Requests)
  BY DEF QuotaClaims
<1>2. Renting(u)' \subseteq Renting(u)
  BY ForgottenClaims
<1>3. /\ IsFiniteSet(ActiveRentals(u)) /\ IsFiniteSet(Renting(u))
      /\ Cardinality(Requests) \in Nat
  BY CountedFinite
<1>4. /\ Cardinality(ActiveRentals(u)') \in Nat
      /\ Cardinality(Renting(u)') \in Nat
      /\ Cardinality(ActiveRentals(u)') + Cardinality(Renting(u)')
           <= Cardinality(ActiveRentals(u)) + Cardinality(Renting(u))
  BY <1>2, <1>3, SumShrinks
<1>5. /\ Cardinality(ActiveRentals(u)) \in Nat
      /\ Cardinality(Renting(u)) \in Nat
  BY <1>3, FS_CardinalityType
<1> QED
  BY <1>1, <1>3, <1>4, <1>5, QuotaAssumption DEF RentalClaims

-----------------------------------------------------------------------------
(* The instances a worker has, in whatever status.                         *)
Residents(w) == {i \in Ids : inst[i].worker = w}

(* A step of the processes either chooses w, with the count of instances   *)
(* that was checked, or turns a claim on w into an instance, or adds       *)
(* neither an instance nor a claim.                                        *)
LEMMA ApiStepPlaces ==
    ASSUME ApiTypeOK, ApiNext, NEW w \in Workers
    PROVE  \/ ActiveCount(inst, w) < Capacity /\ UNCHANGED inst
           \/ \E i \in Ids, r \in Placing(w) :
                 /\ ActiveOn(inst, w)' \subseteq ActiveOn(inst, w) \cup {i}
                 /\ Residents(w)' \subseteq Residents(w) \cup {i}
                 /\ Placing(w)' \subseteq Placing(w) \ {r}
           \/ /\ ActiveOn(inst, w)' \subseteq ActiveOn(inst, w)
              /\ Residents(w)' \subseteq Residents(w)
              /\ Placing(w)' \subseteq Placing(w)
<1> USE RowTypes
<1> DEFINE RowsShrink == /\ ActiveOn(inst, w)' \subseteq ActiveOn(inst, w)
                         /\ Residents(w)' \subseteq Residents(w)
<1> DEFINE Shrinks == RowsShrink /\ Placing(w)' \subseteq Placing(w)
<1>1. PICK r \in Requests : Rent(r) \/ Stop(r) \/ Extend(r) \/ RequestDies(r)
  BY DEF ApiNext
<1>q. req[r] \in Request
  OBVIOUS
<1>s. (UNCHANGED inst) => RowsShrink
  BY DEF ActiveOn, Active, Residents
<1>2. ASSUME NEW v \in Users, RentAdmit(r, v)
      PROVE  Shrinks
  <2>1. Placing(w)' \subseteq Placing(w)
    BY <1>2 DEF RentAdmit, Goto, Placing, Idle
  <2> QED
    BY <1>2, <1>s, <2>1 DEF RentAdmit, dbVars
<1>3. CASE RentChoose(r)
  <2>1. CASE Goto(r, Idle)
    <3>1. Placing(w)' \subseteq Placing(w)
      BY <2>1 DEF Goto, Placing, Idle, RentPc
    <3> QED
      BY <1>3, <1>s, <3>1 DEF RentChoose, dbVars
  <2>2. ASSUME NEW v \in SelectWorker(inst),
               Goto(r, [req[r] EXCEPT !.pc = "chosen", !.worker = v])
        PROVE  (ActiveCount(inst, w) < Capacity /\ UNCHANGED inst) \/ Shrinks
    <3>1. CASE v = w
      BY <1>3, <2>2, <3>1 DEF RentChoose, SelectWorker, Eligible, dbVars
    <3>2. CASE v # w
      <4>1. [req[r] EXCEPT !.pc = "chosen", !.worker = v].worker = v
        BY <1>q DEF Request
      <4>2. Placing(w)' \subseteq Placing(w)
        BY <2>2, <3>2, <4>1 DEF Goto, Placing
      <4> QED
        BY <1>3, <1>s, <4>2 DEF RentChoose, dbVars
    <3> QED
      BY <3>1, <3>2
  <2> QED
    BY <1>3, <2>1, <2>2 DEF RentChoose
<1>4. ASSUME RentFlush(r) \/ RentCreate(r) \/ RentCount(r)
      PROVE  Shrinks
  <2>1. Placing(w)' \subseteq Placing(w)
    BY <1>4, RentGoesOn
  <2> QED
    BY <1>4, <1>s, <2>1 DEF RentFlush, RentCreate, RentCount, dbVars
<1>5. ASSUME NEW status, NEW i \in Ids,
             inst' = [inst EXCEPT ![i] = OwnInstance(req[r], status)],
             req[r].pc \in RentPc \ {"admitted"}, req[r].worker # w
      PROVE  RowsShrink
  BY <1>5 DEF OwnInstance, ActiveOn, Active, Residents
<1>6. ASSUME NEW status, NEW i \in Ids,
             inst' = [inst EXCEPT ![i] = OwnInstance(req[r], status)]
      PROVE  /\ ActiveOn(inst, w)' \subseteq ActiveOn(inst, w) \cup {i}
             /\ Residents(w)' \subseteq Residents(w) \cup {i}
  BY <1>6 DEF ActiveOn, Active, Residents
<1>7. CASE RentCommit(r) \/ RentFail(r)
  <2>1. req[r].pc \in RentPc \ {"admitted"} /\ req[r].id \in Ids
    BY <1>7, <1>q DEF RentCommit, RentFail, Request, RentPc
  <2>2. Placing(w)' \subseteq Placing(w) \ {r}
    BY <1>7, RentOver
  <2>3. \E status : inst' = [inst EXCEPT ![req[r].id] = OwnInstance(req[r], status)]
    BY <1>7 DEF RentCommit, RentFail
  <2>4. CASE req[r].worker = w
    <3>1. r \in Placing(w)
      BY <2>1, <2>4 DEF Placing
    <3> QED
      BY <2>1, <2>2, <2>3, <3>1, <1>6
  <2>5. CASE req[r].worker # w
    BY <2>1, <2>2, <2>3, <2>5, <1>5
  <2> QED
    BY <2>4, <2>5
<1>8. ASSUME Stop(r) \/ Extend(r) \/ RequestDies(r)
      PROVE  Shrinks
  <2>1. Placing(w)' \subseteq Placing(w)
    BY <1>8, RentOver
  <2>2. CASE StopCommit(r)
    <3>1. RowsShrink
      BY <2>2 DEF StopCommit, Stopped, ActiveOn, Active, Residents, InstanceRow,
                  ACTIVE_INSTANCE_STATUSES
    <3> QED
      BY <2>1, <3>1
  <2>3. CASE UNCHANGED inst
    BY <2>1, <2>3, <1>s
  <2> QED
    BY <1>8, <2>2, <2>3
       DEF Stop, StopLoad, StopCall, StopFlush, Extend, ExtendLoad,
           ExtendCommit, RequestDies, dbVars
<1> QED
  BY <1>1, <1>2, <1>3, <1>4, <1>7, <1>8 DEF Rent

(* The instances and the claims of a worker stay within the bound.         *)
LEMMA CapacityClaimsKept ==
    ASSUME ApiTypeOK, ApiNext, CapacityClaims
    PROVE  CapacityClaims'
<1> SUFFICES ASSUME NEW w \in Workers
             PROVE  PlaceClaims(w)' <= Capacity - 1 + Cardinality(Requests)
  BY DEF CapacityClaims
<1>h. PlaceClaims(w) <= Capacity - 1 + Cardinality(Requests)
  BY DEF CapacityClaims
<1>f. /\ IsFiniteSet(Requests) /\ Cardinality(Requests) \in Nat
      /\ IsFiniteSet(ActiveOn(inst, w)) /\ IsFiniteSet(Placing(w))
  BY CountedFinite
<1>n. ActiveCount(inst, w) \in Nat /\ Cardinality(Placing(w)) \in Nat
  BY <1>f, CountType, FS_CardinalityType
<1>g. Placing(w)' \subseteq Requests
  BY DEF Placing
<1>1. CASE ActiveCount(inst, w) < Capacity /\ UNCHANGED inst
  <2>1. ActiveCount(inst, w)' = ActiveCount(inst, w)
    BY <1>1 DEF ActiveCount, ActiveOn, Active
  <2>2. /\ Cardinality(Placing(w)') \in Nat
        /\ Cardinality(Placing(w)') <= Cardinality(Requests)
    BY <1>f, <1>g, FS_Subset, FS_CardinalityType
  <2> QED
    BY <1>1, <2>1, <2>2, <1>f, <1>n, CapacityAssumption DEF PlaceClaims
<1>2. ASSUME NEW i \in Ids, NEW r \in Placing(w),
             ActiveOn(inst, w)' \subseteq ActiveOn(inst, w) \cup {i},
             Placing(w)' \subseteq Placing(w) \ {r}
      PROVE  PlaceClaims(w)' <= PlaceClaims(w)
  <2>1. Cardinality(ActiveOn(inst, w)') + Cardinality(Placing(w)')
          <= Cardinality(ActiveOn(inst, w)) + Cardinality(Placing(w))
    BY <1>2, <1>f, SumMoves
  <2> QED
    BY <2>1 DEF PlaceClaims, ActiveCount
<1>3. ASSUME ActiveOn(inst, w)' \subseteq ActiveOn(inst, w),
             Placing(w)' \subseteq Placing(w)
      PROVE  PlaceClaims(w)' <= PlaceClaims(w)
  <2>1. Cardinality(ActiveOn(inst, w)') + Cardinality(Placing(w)')
          <= Cardinality(ActiveOn(inst, w)) + Cardinality(Placing(w))
    BY <1>3, <1>f, SumShrinks
  <2> QED
    BY <2>1 DEF PlaceClaims, ActiveCount
<1>4. PlaceClaims(w) \in Nat
  BY <1>n DEF PlaceClaims
<1>5. PlaceClaims(w)' \in Nat
  <2>1. ActiveCount(inst, w)' \in Nat
    BY CountType
  <2>2. Cardinality(Placing(w)') \in Nat
    BY <1>f, <1>g, FS_Subset, FS_CardinalityType
  <2> QED
    BY <2>1, <2>2 DEF PlaceClaims
<1> QED
  BY <1>1, <1>2, <1>3, <1>4, <1>5, <1>h, <1>f, CapacityAssumption, ApiStepPlaces

(* The steps outside the request processes that add no instance to a       *)
(* worker keep the bound on instances and claims.                          *)
LEMMA CapacityClaimsShrink ==
    ASSUME CapacityClaims, UNCHANGED req,
           \A w \in Workers : ActiveOn(inst, w)' \subseteq ActiveOn(inst, w)
    PROVE  CapacityClaims'
<1> SUFFICES ASSUME NEW w \in Workers
             PROVE  PlaceClaims(w)' <= Capacity - 1 + Cardinality(Requests)
  BY DEF CapacityClaims
<1>1. PlaceClaims(w) <= Capacity - 1 + Cardinality(Requests)
  BY DEF CapacityClaims
<1>2. Placing(w)' = Placing(w)
  BY DEF Placing
<1>3. /\ IsFiniteSet(ActiveOn(inst, w)) /\ IsFiniteSet(Placing(w))
      /\ Cardinality(Requests) \in Nat
  BY CountedFinite
<1>4. /\ Cardinality(ActiveOn(inst, w)') \in Nat
      /\ Cardinality(ActiveOn(inst, w)') <= Cardinality(ActiveOn(inst, w))
      /\ Cardinality(ActiveOn(inst, w)) \in Nat
      /\ Cardinality(Placing(w)) \in Nat
  BY <1>3, FS_Subset, FS_CardinalityType
<1> QED
  BY <1>1, <1>2, <1>3, <1>4, CapacityAssumption DEF PlaceClaims, ActiveCount

-----------------------------------------------------------------------------
(* Nothing is claimed and nothing rented when the processes start.         *)
LEMMA ClaimsInit ==
    ASSUME ApiInit
    PROVE  QuotaClaims /\ CapacityClaims
<1>0. Cardinality(Requests) \in Nat /\ Cardinality(Requests) >= 1
  BY CountedFinite
<1>1. ASSUME NEW u \in Users
      PROVE  ActiveRentals(u) = {} /\ Renting(u) = {}
  BY DEF ApiInit, DbInit, NoRental, Idle, ActiveRentals, ActiveRental, Renting,
         RentPc
<1>2. ASSUME NEW w \in Workers
      PROVE  ActiveOn(inst, w) = {} /\ Placing(w) = {}
  BY DEF ApiInit, DbInit, NoInstance, Idle, ActiveOn, Active, Placing, RentPc,
         ACTIVE_INSTANCE_STATUSES
<1>3. Cardinality({}) = 0
  BY FS_EmptySet
<1>4. ASSUME NEW u \in Users PROVE RentalClaims(u) = 0
  BY <1>1, <1>3 DEF RentalClaims
<1>5. ASSUME NEW w \in Workers PROVE PlaceClaims(w) = 0
  BY <1>2, <1>3 DEF PlaceClaims, ActiveCount
<1>6. 0 <= Quota - 1 + Cardinality(Requests)
  BY <1>0, QuotaAssumption
<1>7. 0 <= Capacity - 1 + Cardinality(Requests)
  BY <1>0, CapacityAssumption
<1> QED
  BY <1>4, <1>5, <1>6, <1>7 DEF QuotaClaims, CapacityClaims

(* The rows alone are within the bounds.                                   *)
LEMMA QuotaClaimsBound ==
    ASSUME QuotaClaims
    PROVE  QuotaBound
<1> SUFFICES ASSUME NEW u \in Users
             PROVE  Cardinality(ActiveRentals(u))
                      <= Quota - 1 + Cardinality(Requests)
  BY DEF QuotaBound
<1>1. /\ Cardinality(ActiveRentals(u)) \in Nat
      /\ Cardinality(Renting(u)) \in Nat
      /\ Cardinality(Requests) \in Nat
  BY CountedFinite, FS_CardinalityType
<1>2. RentalClaims(u) <= Quota - 1 + Cardinality(Requests)
  BY DEF QuotaClaims
<1> QED
  BY <1>1, <1>2, QuotaAssumption DEF RentalClaims

(* The same for the instances.                                             *)
LEMMA CapacityClaimsBound ==
    ASSUME CapacityClaims
    PROVE  CapacityBound
<1> SUFFICES ASSUME NEW w \in Workers
             PROVE  ActiveCount(inst, w) <= Capacity - 1 + Cardinality(Requests)
  BY DEF CapacityBound
<1>1. /\ ActiveCount(inst, w) \in Nat
      /\ Cardinality(Placing(w)) \in Nat
      /\ Cardinality(Requests) \in Nat
  BY CountedFinite, CountType, FS_CardinalityType
<1>2. PlaceClaims(w) <= Capacity - 1 + Cardinality(Requests)
  BY DEF CapacityClaims
<1> QED
  BY <1>1, <1>2, CapacityAssumption DEF PlaceClaims

(* A step that changes no row, of an agent or of nobody, keeps everything. *)
LEMMA ApiStutter ==
    ASSUME ApiTypeOK, QuotaClaims, CapacityClaims, UNCHANGED <<dbVars, req>>,
           AgentNext \/ UNCHANGED container
    PROVE  ApiTypeOK' /\ QuotaClaims' /\ CapacityClaims'
<1>1. AgentTypeOK'
  BY LateType DEF ApiTypeOK, AgentTypeOK
<1> QED
  BY <1>1 DEF dbVars, ApiTypeOK, DbTypeOK, QuotaClaims,
       RentalClaims, ActiveRentals, ActiveRental, Renting, CapacityClaims,
       PlaceClaims, ActiveCount, ActiveOn, Active, Placing

(* However the requests interleave, and whatever the agents answer, the    *)
(* ACTIVE rentals of a user and his rents under way are together at most   *)
(* one per gunicorn process beyond the last that the check of rent()       *)
(* allows (api.py:62-70), and so are the active instances of a worker and  *)
(* those about to be placed on it beyond the last that select_worker()     *)
(* allows; so the rows alone are, and they keep their types.               *)
THEOREM ApiBounds == ApiSpec => [](/\ ApiTypeOK
                                   /\ QuotaClaims /\ CapacityClaims
                                   /\ QuotaBound /\ CapacityBound)
<1> DEFINE IInv == ApiTypeOK /\ QuotaClaims /\ CapacityClaims
<1>1. ApiInit => IInv
  BY ApiInitTypes, ClaimsInit
<1>2. IInv /\ [ApiAndAgents]_apiVars => IInv'
  BY ApiStepTypes, QuotaClaimsKept, CapacityClaimsKept, ApiStutter
     DEF ApiAndAgents, apiVars
<1>3. IInv => QuotaBound /\ CapacityBound
  BY QuotaClaimsBound, CapacityClaimsBound
<1> QED
  BY <1>1, <1>2, <1>3, PTL DEF ApiSpec
=============================================================================
