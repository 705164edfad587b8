------------------------------ MODULE LeasingProofs ------------------------------
(***************************************************************************)
(* What holds of the requests beside the expiration worker for every value *)
(* of the constants: the types, the bounds, the pairing of instances and   *)
(* rentals, and that the rentals implement LeaseContract.  What is said of *)
(* the ids and the rentals also serves the whole controller, whose other   *)
(* processes write no rental and insert no row.                            *)
(***************************************************************************)
EXTENDS Leasing, RentalApiProofs

(* Between two passes.                                                     *)
LEMMA ExpIdleType == ExpIdle \in ExpState
BY DEF ExpIdle, ExpState, ExpPc

(* The steps of the expiration worker keep the types.                      *)
LEMMA ExpStepTypes ==
    ASSUME DbTypeOK, AgentTypeOK, ExpTypeOK, ExpNext
    PROVE  DbTypeOK' /\ AgentTypeOK' /\ ExpTypeOK'
<1>t. /\ inst \in [Ids -> InstanceRow]
      /\ rental \in [Ids -> RentalRow]
      /\ worker \in [Workers -> WorkerRow]
      /\ exp \in ExpState
  BY DEF DbTypeOK, ExpTypeOK
<1>d. (UNCHANGED dbVars) => DbTypeOK'
  BY DEF DbTypeOK, dbVars
<1>a. (UNCHANGED container) => AgentTypeOK'
  BY DEF AgentTypeOK
<1>n. [ExpIdle EXCEPT !.pc = "next", !.due = exp.due] \in ExpState
  BY <1>t, ExpIdleType DEF ExpState, ExpPc
<1>1. CASE ExpScan
  <2>1. [ExpIdle EXCEPT !.pc = "next", !.due = DueRentals] \in ExpState
    BY ExpIdleType DEF ExpState, ExpPc, DueRentals
  <2> QED
    BY <1>1, <1>d, <1>a, <2>1 DEF ExpScan, ExpTypeOK
<1>2. CASE ExpLoad
  <2>1. PICK i \in exp.due :
           exp' = [pc     |-> IF inst[i].cid # NoCid THEN "loaded" ELSE "called",
                   due    |-> exp.due \ {i},
                   id     |-> i,
                   worker |-> inst[i].worker,
                   cid    |-> inst[i].cid,
                   busy   |-> worker[inst[i].worker].status = "BUSY"]
    BY <1>2 DEF ExpLoad
  <2>2. i \in Ids /\ exp.due \ {i} \subseteq Ids
    BY <1>t DEF ExpState
  <2>3. /\ inst[i].worker \in Workers \cup {None}
        /\ inst[i].cid \in Cids \cup {NoCid}
    BY <1>t, <2>2 DEF InstanceRow
  <2>4. (worker[inst[i].worker].status = "BUSY") \in BOOLEAN
    OBVIOUS
  <2>5. exp' \in ExpState
    BY <2>1, <2>2, <2>3, <2>4 DEF ExpState, ExpPc
  <2> QED
    BY <1>2, <1>d, <1>a, <2>5 DEF ExpLoad, ExpTypeOK
<1>3. CASE ExpDone
  BY <1>3, <1>d, <1>a, ExpIdleType DEF ExpDone, ExpTypeOK
<1>4. CASE ExpCall
  <2>1. exp' \in ExpState
    BY <1>4, <1>t DEF ExpCall, ExpState, ExpPc
  <2> QED
    BY <1>4, <1>d, <2>1, DeleteType DEF ExpCall, ExpTypeOK
<1>5. CASE ExpCallError
  BY <1>5, <1>d, <1>n, DeleteType DEF ExpCallError, ExpTypeOK
<1>6. CASE ExpCommit
  <2>1. rental' \in [Ids -> RentalRow]
    BY <1>6, <1>t DEF ExpCommit, Expired, RentalRow, RentalStatus
  <2>2. inst' \in [Ids -> InstanceRow]
    BY <1>6, <1>t DEF ExpCommit, InstanceRow, InstanceStatus
  <2>3. worker' \in [Workers -> WorkerRow]
    BY <1>6, <1>t DEF ExpCommit, Freed, WorkerRow, WorkerStatus
  <2> QED
    BY <1>6, <1>n, <1>a, <2>1, <2>2, <2>3 DEF ExpCommit, DbTypeOK, ExpTypeOK
<1>7. CASE ExpRollback
  BY <1>7, <1>d, <1>a, <1>n DEF ExpRollback, ExpTypeOK
<1>8. CASE ExpCrash
  BY <1>8, <1>d, <1>a, ExpIdleType DEF ExpCrash, ExpTypeOK
<1> QED
  BY <1>1, <1>2, <1>3, <1>4, <1>5, <1>6, <1>7, <1>8 DEF ExpNext

(* The expiration worker makes no rental ACTIVE and gives none to another  *)
(* user.                                                                   *)
LEMMA ExpEndsRentals ==
    ASSUME DbTypeOK, ExpNext, NEW u
    PROVE  ActiveRentals(u)' \subseteq ActiveRentals(u)
<1>1. CASE ExpCommit
  BY <1>1 DEF ExpCommit, Expired, ActiveRentals, ActiveRental, DbTypeOK, RentalRow
<1>2. CASE UNCHANGED rental
  BY <1>2 DEF ActiveRentals, ActiveRental
<1> QED
  BY <1>1, <1>2 DEF ExpNext, ExpScan, ExpLoad, ExpDone, ExpCall, ExpCallError,
                    ExpRollback, ExpCrash, dbVars

(* The steps of the lease keep the types.                                  *)
LEMMA LeaseStepTypes ==
    ASSUME LeaseTypeOK, LeaseNext
    PROVE  LeaseTypeOK'
<1>t. ApiTypeOK /\ ExpTypeOK /\ DbTypeOK /\ AgentTypeOK
      /\ req \in [Requests -> Request]
  BY DEF LeaseTypeOK, ApiTypeOK
<1>1. CASE ApiNext /\ UNCHANGED exp
  BY <1>1, <1>t, ApiStepTypes DEF LeaseTypeOK, ExpTypeOK
<1>2. CASE ExpNext /\ UNCHANGED req
  BY <1>2, <1>t, ExpStepTypes DEF LeaseTypeOK, ApiTypeOK
<1>3. CASE Tick /\ UNCHANGED <<container, req, exp>>
  <2>1. now' \in 0..MaxNow
    <3>1. now \in 0..MaxNow /\ now < MaxNow /\ now' = now + 1
      BY <1>3, <1>t DEF Tick, DbTypeOK
    <3> QED
      BY <3>1, BoundsAssumption
  <2> QED
    BY <1>3, <1>t, <2>1
       DEF Tick, LeaseTypeOK, ApiTypeOK, DbTypeOK, AgentTypeOK, ExpTypeOK
<1>4. CASE AgentNext /\ UNCHANGED <<dbVars, req, exp>>
  BY <1>4, <1>t, LateType DEF dbVars, LeaseTypeOK, ApiTypeOK, DbTypeOK, ExpTypeOK
<1> QED
  BY <1>1, <1>2, <1>3, <1>4 DEF LeaseNext

-----------------------------------------------------------------------------
(* The ids.  A request that has drawn an id works on a row that nobody     *)
(* else can see; a stop and the expiration work on rows that are           *)
(* committed, and what a stop has loaded of the rental is wrong in one way *)
(* only: the rental may have ended since.                                  *)
OwningPc == {"flushed", "created", "counted"}
StopPc   == {"loaded", "called", "stopping"}

Registered == \A i \in Ids : Committed(i) <=> rental[i].status # "absent"

Fresh == \A i \in Ids : i > seq => ~Committed(i)

RentGenuine(r) ==
    /\ req[r].pc \in RentPc => req[r].user \in Users
    /\ req[r].pc \in OwningPc => req[r].id <= seq /\ ~Committed(req[r].id)

StopGenuine(r) ==
    req[r].pc \in StopPc =>
        /\ Committed(req[r].id)
        /\ ~req[r].active => ~ActiveRental(req[r].id)

Genuine == \A r \in Requests : RentGenuine(r) /\ StopGenuine(r)

Apart == \A r, s \in Requests :
            /\ req[r].pc \in OwningPc /\ req[s].pc \in OwningPc
            /\ req[r].id = req[s].id
            => r = s

ExpGenuine ==
    /\ \A i \in exp.due : Committed(i)
    /\ exp.pc \in {"loaded", "called"} => exp.id \in Ids /\ Committed(exp.id)

IdsInv == Registered /\ Fresh /\ Genuine /\ Apart /\ ExpGenuine

(* A step of the other processes, as far as ids and rentals go: it inserts *)
(* and removes no row, and at most cuts all the requests off.              *)
Elsewhere == /\ UNCHANGED <<seq, rental, exp>>
             /\ \A i \in Ids : Committed(i)' <=> Committed(i)
             /\ req' = req \/ req' = [r \in Requests |-> Idle]

RowsNext == \/ ApiNext /\ UNCHANGED exp
            \/ ExpNext /\ UNCHANGED req
            \/ Elsewhere

-----------------------------------------------------------------------------
(* What the step of a request does to its record, and what of the rows it  *)
(* relies on.                                                              *)
RequestMoves(r, new) ==
    \/ new.pc \in {"idle", "extending"}
    \/ new.pc = "admitted" /\ new.user \in Users
    \/ new.pc = "chosen" /\ req[r].pc \in RentPc /\ new.user = req[r].user
    \/ /\ new.pc = "flushed" /\ new.id = seq + 1 /\ seq' = seq + 1
       /\ req[r].pc \in RentPc /\ new.user = req[r].user
       /\ UNCHANGED <<inst, rental>>
    \/ /\ new.pc \in OwningPc /\ req[r].pc \in OwningPc
       /\ new.id = req[r].id /\ new.user = req[r].user
       /\ UNCHANGED <<seq, inst, rental>>
    \/ /\ new.pc \in StopPc /\ Committed(new.id)
       /\ new.status = inst[new.id].status
       /\ new.active = ActiveRental(new.id)
       /\ UNCHANGED <<seq, inst, rental>>
    \/ /\ new.pc \in StopPc /\ req[r].pc \in StopPc
       /\ new.id = req[r].id /\ new.status = req[r].status
       /\ new.active = req[r].active
       /\ UNCHANGED <<seq, inst, rental>>

(* Every step of a request is one of these.                                *)
LEMMA RequestStep ==
    ASSUME ApiTypeOK, NEW r \in Requests,
           Rent(r) \/ Stop(r) \/ Extend(r) \/ RequestDies(r)
    PROVE  \E new : Goto(r, new) /\ RequestMoves(r, new)
<1> USE RowTypes
<1>q. req[r] \in Request
  OBVIOUS
<1>i. Idle.pc = "idle"
  BY DEF Idle
<1>0. CASE Goto(r, Idle)
  BY <1>0, <1>i DEF RequestMoves
<1>1. ASSUME NEW u \in Users, RentAdmit(r, u)
      PROVE  \E new : Goto(r, new) /\ RequestMoves(r, new)
  <2>1. /\ [Idle EXCEPT !.pc = "admitted", !.user = u].pc = "admitted"
        /\ [Idle EXCEPT !.pc = "admitted", !.user = u].user = u
    BY DEF Idle
  <2> QED
    BY <1>1, <2>1 DEF RentAdmit, RequestMoves
<1>2. CASE RentChoose(r)
  <2>1. ASSUME NEW w, Goto(r, [req[r] EXCEPT !.pc = "chosen", !.worker = w])
        PROVE  \E new : Goto(r, new) /\ RequestMoves(r, new)
    <3>1. /\ [req[r] EXCEPT !.pc = "chosen", !.worker = w].pc = "chosen"
          /\ [req[r] EXCEPT !.pc = "chosen", !.worker = w].user = req[r].user
      BY <1>q DEF Request
    <3>2. req[r].pc \in RentPc
      BY <1>2 DEF RentChoose, RentPc
    <3> QED
      BY <2>1, <3>1, <3>2 DEF RequestMoves
  <2> QED
    BY <1>2, <1>0, <2>1 DEF RentChoose
<1>3. CASE RentFlush(r)
  <2>1. ASSUME NEW p, NEW e, seq' = seq + 1,
               Goto(r, [req[r] EXCEPT !.pc = "flushed", !.id = seq + 1,
                                      !.port = p, !.end = e])
        PROVE  \E new : Goto(r, new) /\ RequestMoves(r, new)
    <3> DEFINE new == [req[r] EXCEPT !.pc = "flushed", !.id = seq + 1,
                                     !.port = p, !.end = e]
    <3>1. /\ new.pc = "flushed" /\ new.id = seq + 1 /\ new.user = req[r].user
      BY <1>q DEF Request
    <3>2. req[r].pc \in RentPc /\ UNCHANGED <<inst, rental>>
      BY <1>3 DEF RentFlush, RentPc
    <3>3. Goto(r, new)
      BY <2>1
    <3> HIDE DEF new
    <3> QED
      BY <2>1, <3>1, <3>2, <3>3 DEF RequestMoves
  <2> QED
    BY <1>3, <1>0, <2>1 DEF RentFlush
<1>4. ASSUME NEW new, Goto(r, new), UNCHANGED <<seq, inst, rental>>,
             new.pc \in OwningPc, req[r].pc \in OwningPc,
             new.id = req[r].id, new.user = req[r].user
      PROVE  \E n : Goto(r, n) /\ RequestMoves(r, n)
  BY <1>4 DEF RequestMoves
<1>5. CASE RentCreate(r)
  <2>1. PICK c \in Cids : Goto(r, [req[r] EXCEPT !.pc = "created", !.cid = c])
    BY <1>5 DEF RentCreate
  <2> DEFINE new == [req[r] EXCEPT !.pc = "created", !.cid = c]
  <2>2. new.pc \in OwningPc /\ new.id = req[r].id /\ new.user = req[r].user
    BY <1>q DEF Request, OwningPc
  <2>3. Goto(r, new)
    BY <2>1
  <2>4. req[r].pc \in OwningPc /\ UNCHANGED <<seq, inst, rental>>
    BY <1>5 DEF RentCreate, OwningPc, dbVars
  <2> HIDE DEF new
  <2> QED
    BY <2>2, <2>3, <2>4, <1>4
<1>6. CASE RentCount(r)
  <2>1. PICK f : Goto(r, [req[r] EXCEPT !.pc = "counted", !.flag = f])
    BY <1>6 DEF RentCount
  <2> DEFINE new == [req[r] EXCEPT !.pc = "counted", !.flag = f]
  <2>2. new.pc \in OwningPc /\ new.id = req[r].id /\ new.user = req[r].user
    BY <1>q DEF Request, OwningPc
  <2>3. Goto(r, new)
    BY <2>1
  <2>4. req[r].pc \in OwningPc /\ UNCHANGED <<seq, inst, rental>>
    BY <1>6 DEF RentCount, OwningPc, dbVars
  <2> HIDE DEF new
  <2> QED
    BY <2>2, <2>3, <2>4, <1>4
<1>7. CASE \/ RentCommit(r) \/ RentFail(r) \/ StopCommit(r)
           \/ ExtendCommit(r) \/ RequestDies(r)
  BY <1>7, <1>0 DEF RentCommit, RentFail, StopCommit, ExtendCommit, RequestDies
<1>8. ASSUME NEW u \in Users, NEW i \in Ids, StopLoad(r, u, i)
      PROVE  \E new : Goto(r, new) /\ RequestMoves(r, new)
  <2> DEFINE new == [pc     |-> IF inst[i].cid # NoCid THEN "loaded" ELSE "called",
                     user   |-> u,
                     worker |-> inst[i].worker,
                     id     |-> i,
                     port   |-> NoPort,
                     cid    |-> inst[i].cid,
                     end    |-> 0,
                     status |-> inst[i].status,
                     active |-> ActiveRental(i),
                     flag   |-> worker[inst[i].worker].status = "BUSY"]
  <2>1. /\ new.pc \in StopPc /\ new.id = i
        /\ new.status = inst[i].status /\ new.active = ActiveRental(i)
    BY DEF StopPc
  <2>2. Goto(r, new) /\ Committed(i) /\ UNCHANGED <<seq, inst, rental>>
    BY <1>8 DEF StopLoad, dbVars
  <2> HIDE DEF new
  <2> QED
    BY <2>1, <2>2 DEF RequestMoves
<1>9. ASSUME NEW new, Goto(r, new), UNCHANGED <<seq, inst, rental>>,
             new.pc \in StopPc, req[r].pc \in StopPc, new.id = req[r].id,
             new.status = req[r].status, new.active = req[r].active
      PROVE  \E n : Goto(r, n) /\ RequestMoves(r, n)
  BY <1>9 DEF RequestMoves
<1>10. CASE StopCall(r)
  <2> DEFINE new == [req[r] EXCEPT !.pc = "called"]
  <2>1. /\ new.pc \in StopPc /\ new.id = req[r].id
        /\ new.status = req[r].status /\ new.active = req[r].active
    BY <1>q DEF Request, StopPc
  <2>2. Goto(r, new) /\ req[r].pc \in StopPc /\ UNCHANGED <<seq, inst, rental>>
    BY <1>10 DEF StopCall, StopPc, dbVars
  <2> HIDE DEF new
  <2> QED
    BY <2>1, <2>2, <1>9
<1>11. CASE StopFlush(r)
  <2>1. PICK f : Goto(r, [req[r] EXCEPT !.pc = "stopping", !.flag = f])
    BY <1>11 DEF StopFlush
  <2> DEFINE new == [req[r] EXCEPT !.pc = "stopping", !.flag = f]
  <2>2. /\ new.pc \in StopPc /\ new.id = req[r].id
        /\ new.status = req[r].status /\ new.active = req[r].active
    BY <1>q DEF Request, StopPc
  <2>3. Goto(r, new)
    BY <2>1
  <2>4. req[r].pc \in StopPc /\ UNCHANGED <<seq, inst, rental>>
    BY <1>11 DEF StopFlush, StopPc
  <2> HIDE DEF new
  <2> QED
    BY <2>2, <2>3, <2>4, <1>9
<1>12. ASSUME NEW u \in Users, NEW i \in Ids, NEW d \in Durations,
              ExtendLoad(r, u, i, d)
       PROVE  \E new : Goto(r, new) /\ RequestMoves(r, new)
  <2>1. [Idle EXCEPT !.pc = "extending", !.user = u, !.id = i,
                     !.end = Extended(i, d)].pc = "extending"
    BY DEF Idle
  <2> QED
    BY <1>12, <2>1 DEF ExtendLoad, RequestMoves
<1> QED
  BY <1>1, <1>2, <1>3, <1>5, <1>6, <1>7, <1>8, <1>10, <1>11, <1>12
     DEF Rent, Stop, Extend

-----------------------------------------------------------------------------
(* What a step does to the rentals, as far as LeaseContract can tell:      *)
(* nothing (an extension included), the end of one, or the first rows of   *)
(* a request.                                                              *)
Untouched(i) == /\ Committed(i)' <=> Committed(i)
                /\ rental'[i].status = rental[i].status
                /\ rental'[i].user = rental[i].user

Ended(i) == /\ Committed(i) /\ inst'[i].status # "absent"
            /\ rental'[i].status \notin {"ACTIVE", "absent"}
            /\ rental'[i].user = rental[i].user

Born(r, i) == /\ req[r].pc \in OwningPc /\ req[r].id = i
              /\ req'[r].pc = "idle"
              /\ inst'[i].status # "absent"
              /\ rental'[i].status \in {"ACTIVE", "CANCELLED"}
              /\ rental'[i].user = req[r].user

RowMoves ==
    \/ \A i \in Ids : Untouched(i)
    \/ \E i \in Ids : /\ Ended(i) \/ \E r \in Requests : Born(r, i)
                      /\ \A j \in Ids \ {i} : Untouched(j)

(* The rows that a step may write are of one of these kinds.               *)
LEMMA RowStep ==
    ASSUME LeaseTypeOK, IdsInv, RowsNext
    PROVE  RowMoves
<1>t. /\ inst \in [Ids -> InstanceRow]
      /\ rental \in [Ids -> RentalRow]
      /\ req \in [Requests -> Request]
  BY DEF LeaseTypeOK, ApiTypeOK, DbTypeOK
<1>0. CASE UNCHANGED <<inst, rental>>
  BY <1>0 DEF RowMoves, Untouched, Committed
<1>1. ASSUME NEW r \in Requests, RentCommit(r) \/ RentFail(r)
      PROVE  RowMoves
  <2>1. req[r].pc \in OwningPc /\ req[r].id \in Ids
    BY <1>1, <1>t DEF RentCommit, RentFail, OwningPc, Request
  <2>2. req'[r].pc = "idle"
    BY <1>1, <1>t DEF RentCommit, RentFail, Goto, Idle
  <2>3. \A j \in Ids \ {req[r].id} : Untouched(j)
    BY <1>1, <1>t DEF RentCommit, RentFail, Untouched, Committed
  <2>4. Born(r, req[r].id)
    BY <1>1, <1>t, <2>1, <2>2
       DEF RentCommit, RentFail, OwnInstance, Born
  <2> QED
    BY <2>1, <2>3, <2>4 DEF RowMoves
<1>2. ASSUME NEW r \in Requests, StopCommit(r)
      PROVE  RowMoves
  <2> DEFINE i == req[r].id
  <2>1. i \in Ids /\ req[r].pc \in StopPc
    BY <1>2, <1>t DEF StopCommit, Request, StopPc
  <2>2. Committed(i) /\ (~req[r].active => ~ActiveRental(i))
    BY <2>1 DEF IdsInv, Genuine, StopGenuine
  <2>3. rental[i].status # "absent"
    BY <2>1, <2>2 DEF IdsInv, Registered
  <2>4. \A j \in Ids \ {i} : Untouched(j)
    BY <1>2, <1>t DEF StopCommit, Stopped, Cancelled, Untouched, Committed
  <2>5. inst'[i].status # "absent"
    BY <1>2, <1>t, <2>1, <2>2 DEF StopCommit, Stopped, InstanceRow, Committed
  <2>6. /\ rental'[i].status \notin {"ACTIVE", "absent"}
        /\ rental'[i].user = rental[i].user
    BY <1>2, <1>t, <2>1, <2>2, <2>3
       DEF StopCommit, Cancelled, RentalRow, ActiveRental
  <2>7. Ended(i)
    BY <2>2, <2>5, <2>6 DEF Ended
  <2> QED
    BY <2>1, <2>4, <2>7 DEF RowMoves
<1>3. ASSUME NEW r \in Requests, ExtendCommit(r)
      PROVE  RowMoves
  BY <1>3, <1>t DEF ExtendCommit, RowMoves, Untouched, RentalRow, Committed
<1>4. CASE ExpCommit
  <2> DEFINE i == exp.id
  <2>1. i \in Ids /\ Committed(i)
    BY <1>4 DEF ExpCommit, IdsInv, ExpGenuine
  <2>2. \A j \in Ids \ {i} : Untouched(j)
    BY <1>4, <1>t DEF ExpCommit, Expired, Untouched, Committed
  <2>3. inst'[i].status = "deleted" /\ rental'[i].status = "EXPIRED"
        /\ rental'[i].user = rental[i].user
    BY <1>4, <1>t, <2>1 DEF ExpCommit, Expired, InstanceRow, RentalRow
  <2>4. Ended(i)
    BY <2>1, <2>3 DEF Ended
  <2> QED
    BY <2>1, <2>2, <2>4 DEF RowMoves
<1>5. CASE ApiNext
  <2>1. PICK r \in Requests : Rent(r) \/ Stop(r) \/ Extend(r) \/ RequestDies(r)
    BY <1>5 DEF ApiNext
  <2>2. \/ UNCHANGED <<inst, rental>>
        \/ RentCommit(r) \/ RentFail(r) \/ StopCommit(r) \/ ExtendCommit(r)
    BY <2>1 DEF Rent, RentAdmit, RentChoose, RentFlush, RentCreate, RentCount,
                Stop, StopLoad, StopCall, StopFlush, Extend, ExtendLoad,
                RequestDies, dbVars
  <2> QED
    BY <2>2, <1>0, <1>1, <1>2, <1>3
<1>6. CASE ExpNext
  <2>1. UNCHANGED <<inst, rental>> \/ ExpCommit
    BY <1>6 DEF ExpNext, ExpScan, ExpLoad, ExpDone, ExpCall, ExpCallError,
                ExpRollback, ExpCrash, dbVars
  <2> QED
    BY <2>1, <1>0, <1>4
<1>7. CASE Elsewhere
  BY <1>7 DEF Elsewhere, RowMoves, Untouched
<1> QED
  BY <1>5, <1>6, <1>7 DEF RowsNext

(* An id is drawn and never given back.                                    *)
LEMMA SequenceGrows ==
    ASSUME LeaseTypeOK, RowsNext
    PROVE  /\ seq \in Nat /\ seq' \in Nat /\ seq' >= seq
           /\ \A i \in Ids : i \in Nat
<1>1. seq \in Nat /\ \A i \in Ids : i \in Nat
  BY BoundsAssumption DEF LeaseTypeOK, ApiTypeOK, DbTypeOK, Ids
<1>2. seq' = seq \/ seq' = seq + 1
  <2>1. CASE ApiNext
    BY <2>1 DEF ApiNext, Rent, RentAdmit, RentChoose, RentFlush, RentCreate,
                RentCount, RentCommit, RentFail, Stop, StopLoad, StopCall,
                StopFlush, StopCommit, Extend, ExtendLoad, ExtendCommit,
                RequestDies, dbVars
  <2>2. CASE ExpNext
    BY <2>2 DEF ExpNext, ExpScan, ExpLoad, ExpDone, ExpCall, ExpCallError,
                ExpCommit, ExpRollback, ExpCrash, dbVars
  <2>3. CASE Elsewhere
    BY <2>3 DEF Elsewhere
  <2> QED
    BY <2>1, <2>2, <2>3 DEF RowsNext
<1> QED
  BY <1>1, <1>2

(* The rows of the ids, and what a request relies on of the row it works   *)
(* on: it appears, and then only ends, unless the request itself began it. *)
LEMMA RowsKept ==
    ASSUME IdsInv, RowMoves, seq \in Nat, seq' \in Nat, seq' >= seq,
           \A i \in Ids : i \in Nat
    PROVE  /\ Registered' /\ Fresh'
           /\ \A i \in Ids :
                 /\ Committed(i) => Committed(i)'
                 /\ Committed(i) /\ ~ActiveRental(i) => ~ActiveRental(i)'
                 /\ Committed(i) \/ ~Committed(i)'
                    \/ \E r \in Requests : Born(r, i)
<1> USE DEF ActiveRental, Committed
<1>1. CASE \A i \in Ids : Untouched(i)
  BY <1>1 DEF IdsInv, Registered, Fresh, Untouched
<1>2. ASSUME NEW i \in Ids, Ended(i), \A j \in Ids \ {i} : Untouched(j)
      PROVE  /\ Registered' /\ Fresh'
             /\ \A j \in Ids :
                   /\ Committed(j) => Committed(j)'
                   /\ Committed(j) /\ ~ActiveRental(j) => ~ActiveRental(j)'
                   /\ Committed(j) \/ ~Committed(j)'
  BY <1>2 DEF IdsInv, Registered, Fresh, Untouched, Ended
<1>3. ASSUME NEW i \in Ids, NEW r \in Requests, Born(r, i),
             \A j \in Ids \ {i} : Untouched(j)
      PROVE  /\ Registered' /\ Fresh'
             /\ \A j \in Ids :
                   /\ Committed(j) => Committed(j)'
                   /\ Committed(j) /\ ~ActiveRental(j) => ~ActiveRental(j)'
                   /\ Committed(j) \/ ~Committed(j)' \/ j = i
  <2>1. i <= seq /\ ~Committed(i)
    BY <1>3 DEF Born, IdsInv, Genuine, RentGenuine
  <2>2. Registered'
    BY <1>3 DEF IdsInv, Registered, Untouched, Born
  <2>3. Fresh'
    BY <1>3, <2>1 DEF IdsInv, Fresh, Untouched
  <2> QED
    BY <1>3, <2>1, <2>2, <2>3 DEF Untouched
<1> QED
  BY <1>1, <1>2, <1>3 DEF RowMoves

-----------------------------------------------------------------------------
(* What the rows do to a request that does nothing: it goes on relying on  *)
(* the row it works on, which no other request began.                      *)
LEMMA RecordKept ==
    ASSUME LeaseTypeOK, IdsInv, RowsNext, NEW s \in Requests, req'[s] = req[s]
    PROVE  RentGenuine(s)' /\ StopGenuine(s)'
<1>t. req[s] \in Request
  BY DEF LeaseTypeOK, ApiTypeOK
<1>m. RowMoves
  BY RowStep
<1>n. /\ seq \in Nat /\ seq' \in Nat /\ seq' >= seq
      /\ \A i \in Ids : i \in Nat
  BY SequenceGrows
<1>g. RentGenuine(s) /\ StopGenuine(s)
  BY DEF IdsInv, Genuine
<1>1. CASE req[s].pc \in OwningPc
  <2>1. req[s].id \in Ids /\ req[s].pc \notin StopPc /\ req[s].pc # "idle"
    BY <1>1, <1>t DEF OwningPc, StopPc, Request
  <2>2. req[s].id <= seq /\ ~Committed(req[s].id)
    BY <1>1, <1>g DEF RentGenuine
  <2>3. ~\E r \in Requests : Born(r, req[s].id)
    <3>1. SUFFICES ASSUME NEW r \in Requests, Born(r, req[s].id)
                   PROVE  FALSE
      OBVIOUS
    <3>2. r = s
      BY <1>1, <3>1 DEF Born, IdsInv, Apart
    <3> QED
      BY <2>1, <3>1, <3>2 DEF Born
  <2>4. ~Committed(req[s].id)'
    BY <1>m, <1>n, <2>1, <2>2, <2>3, RowsKept
  <2>5. req[s].id <= seq'
    BY <1>n, <2>1, <2>2
  <2>6. RentGenuine(s)'
    BY <1>g, <2>4, <2>5 DEF RentGenuine
  <2> QED
    BY <2>1, <2>6 DEF StopGenuine
<1>2. CASE req[s].pc \in StopPc
  <2>1. req[s].id \in Ids /\ req[s].pc \notin RentPc \cup OwningPc
    BY <1>2, <1>t DEF RentPc, OwningPc, StopPc, Request
  <2>2. Committed(req[s].id) /\ (~req[s].active => ~ActiveRental(req[s].id))
    BY <1>2, <1>g DEF StopGenuine
  <2>3. Committed(req[s].id)' /\ (~req[s].active => ~ActiveRental(req[s].id)')
    BY <1>m, <1>n, <2>1, <2>2, RowsKept
  <2> QED
    BY <2>1, <2>3 DEF RentGenuine, StopGenuine
<1>3. CASE req[s].pc \notin OwningPc \cup StopPc
  BY <1>3, <1>g DEF RentGenuine, StopGenuine
<1> QED
  BY <1>1, <1>2, <1>3

(* A request that does something relies on what it has just seen.          *)
LEMMA RecordMoved ==
    ASSUME LeaseTypeOK, LeaseTypeOK', IdsInv, RowsNext, NEW r \in Requests,
           NEW new, Goto(r, new), RequestMoves(r, new)
    PROVE  RentGenuine(r)' /\ StopGenuine(r)'
<1>n. req'[r] = new
  BY DEF LeaseTypeOK, ApiTypeOK, Goto
<1>g. RentGenuine(r) /\ StopGenuine(r)
  BY DEF IdsInv, Genuine
<1>d. \A pc : /\ pc \in StopPc => pc \notin RentPc \cup OwningPc
              /\ pc \in OwningPc => pc \in RentPc /\ pc \notin StopPc
  BY DEF StopPc, RentPc, OwningPc
<1>1. CASE new.pc \in {"idle", "extending", "admitted", "chosen"}
  <2>1. new.pc \notin OwningPc \cup StopPc
    BY <1>1 DEF OwningPc, StopPc
  <2>2. new.pc \in RentPc => new.user \in Users
    BY <1>1, <1>g DEF RequestMoves, RentGenuine, RentPc, OwningPc, StopPc
  <2> QED
    BY <1>n, <2>1, <2>2 DEF RentGenuine, StopGenuine
<1>2. CASE /\ new.pc = "flushed" /\ new.id = seq + 1 /\ seq' = seq + 1
           /\ req[r].pc \in RentPc /\ new.user = req[r].user
           /\ UNCHANGED <<inst, rental>>
  <2>1. new.id \in Ids /\ seq \in Nat
    <3>1. req'[r] \in Request
      BY DEF LeaseTypeOK, ApiTypeOK
    <3> QED
      BY <1>2, <1>n, <3>1, SequenceGrows DEF Request
  <2>2. new.id > seq /\ new.id <= seq'
    BY <1>2, <2>1
  <2>3. ~Committed(new.id)'
    BY <1>2, <2>1, <2>2 DEF IdsInv, Fresh, Committed
  <2>4. new.user \in Users /\ new.pc \notin StopPc
    BY <1>2, <1>g DEF RentGenuine, StopPc
  <2> QED
    BY <1>n, <2>2, <2>3, <2>4 DEF RentGenuine, StopGenuine
<1>3. CASE /\ new.pc \in OwningPc /\ req[r].pc \in OwningPc
           /\ new.id = req[r].id /\ new.user = req[r].user
           /\ UNCHANGED <<seq, inst, rental>>
  BY <1>3, <1>n, <1>g, <1>d DEF RentGenuine, StopGenuine, Committed
<1>4. CASE /\ new.pc \in StopPc /\ Committed(new.id)
           /\ new.status = inst[new.id].status
           /\ new.active = ActiveRental(new.id)
           /\ UNCHANGED <<seq, inst, rental>>
  BY <1>4, <1>n, <1>d DEF RentGenuine, StopGenuine, Committed, ActiveRental
<1>5. CASE /\ new.pc \in StopPc /\ req[r].pc \in StopPc
           /\ new.id = req[r].id /\ new.status = req[r].status
           /\ new.active = req[r].active
           /\ UNCHANGED <<seq, inst, rental>>
  BY <1>5, <1>n, <1>g, <1>d DEF RentGenuine, StopGenuine, Committed, ActiveRental
<1> QED
  BY <1>1, <1>2, <1>3, <1>4, <1>5 DEF RequestMoves

(* Two requests never work on the same new id: it is drawn from the        *)
(* sequence, beyond all that are in use.                                   *)
LEMMA ApartMoved ==
    ASSUME LeaseTypeOK, IdsInv, NEW r \in Requests,
           NEW new, Goto(r, new), RequestMoves(r, new)
    PROVE  Apart'
<1>t. req \in [Requests -> Request] /\ seq \in Nat
  BY BoundsAssumption DEF LeaseTypeOK, ApiTypeOK, DbTypeOK
<1>n. req'[r] = new /\ \A s \in Requests \ {r} : req'[s] = req[s]
  BY <1>t DEF Goto
<1>1. CASE new.pc \notin OwningPc
  BY <1>1, <1>n DEF IdsInv, Apart
<1>2. CASE new.pc = "flushed" /\ new.id = seq + 1
  <2>1. ASSUME NEW s \in Requests \ {r}, req[s].pc \in OwningPc
        PROVE  req[s].id # seq + 1
    <3>1. req[s].id <= seq /\ req[s].id \in Ids
      BY <1>t, <2>1 DEF IdsInv, Genuine, RentGenuine, Request, OwningPc
    <3>2. req[s].id \in Nat
      BY <3>1, BoundsAssumption DEF Ids
    <3> QED
      BY <1>t, <3>1, <3>2
  <2> QED
    BY <1>2, <1>n, <2>1 DEF IdsInv, Apart
<1>3. CASE req[r].pc \in OwningPc /\ new.id = req[r].id
  BY <1>3, <1>n DEF IdsInv, Apart
<1>4. \A pc : pc \in OwningPc => pc \notin StopPc
                              /\ pc \notin {"idle", "extending", "admitted", "chosen"}
  BY DEF StopPc, OwningPc
<1> QED
  BY <1>1, <1>2, <1>3, <1>4 DEF RequestMoves

(* The expiration works on committed rows: what is due is ACTIVE, and no   *)
(* row is ever removed.                                                    *)
LEMMA ExpGenuineKept ==
    ASSUME LeaseTypeOK, IdsInv, RowsNext
    PROVE  ExpGenuine'
<1>t. exp.due \subseteq Ids /\ exp \in ExpState
  BY DEF LeaseTypeOK, ExpTypeOK, ExpState
<1>c. \A i \in Ids : Committed(i) => Committed(i)'
  BY RowStep, SequenceGrows, RowsKept
<1>d. \A i \in exp.due : Committed(i)'
  BY <1>t, <1>c DEF IdsInv, ExpGenuine
<1>1. CASE UNCHANGED exp
  <2>1. exp.pc \in {"loaded", "called"} =>
           exp.id \in Ids /\ inst'[exp.id].status # "absent"
    BY <1>c DEF IdsInv, ExpGenuine, Committed
  <2> QED
    BY <1>1, <1>d, <2>1 DEF ExpGenuine, Committed
<1>2. ASSUME exp' = ExpIdle
             \/ exp' = [ExpIdle EXCEPT !.pc = "next", !.due = exp.due]
      PROVE  ExpGenuine'
  <2>1. CASE exp' = ExpIdle
    BY <2>1 DEF ExpIdle, ExpGenuine
  <2>2. CASE exp' = [ExpIdle EXCEPT !.pc = "next", !.due = exp.due]
    <3>1. exp'.due = exp.due /\ exp'.pc = "next"
      BY <2>2 DEF ExpIdle
    <3> QED
      BY <1>d, <3>1 DEF ExpGenuine, Committed
  <2> QED
    BY <1>2, <2>1, <2>2
<1>3. CASE ExpScan
  <2>1. exp'.due = DueRentals /\ exp'.pc = "next" /\ inst' = inst
    BY <1>3 DEF ExpScan, ExpIdle, dbVars
  <2>2. \A i \in DueRentals : Committed(i)
    BY DEF DueRentals, Due, IdsInv, Registered, ActiveRental
  <2> QED
    BY <2>1, <2>2 DEF ExpGenuine, Committed
<1>4. CASE ExpLoad
  <2>1. PICK i \in exp.due :
           exp' = [pc     |-> IF inst[i].cid # NoCid THEN "loaded" ELSE "called",
                   due    |-> exp.due \ {i},
                   id     |-> i,
                   worker |-> inst[i].worker,
                   cid    |-> inst[i].cid,
                   busy   |-> worker[inst[i].worker].status = "BUSY"]
    BY <1>4 DEF ExpLoad
  <2>2. exp'.due \subseteq exp.due /\ exp'.id = i
    BY <2>1
  <2> QED
    BY <1>t, <1>d, <2>2 DEF ExpGenuine, Committed
<1>5. CASE ExpCall
  <2>1. /\ exp'.due = exp.due /\ exp'.id = exp.id /\ exp.pc = "loaded"
    BY <1>5, <1>t DEF ExpCall, ExpState
  <2>2. exp.id \in Ids /\ inst'[exp.id].status # "absent"
    BY <1>c, <2>1 DEF IdsInv, ExpGenuine, Committed
  <2> QED
    BY <1>d, <2>1, <2>2 DEF ExpGenuine, Committed
<1> QED
  BY <1>1, <1>2, <1>3, <1>4, <1>5
     DEF RowsNext, Elsewhere, ExpNext, ExpDone, ExpCallError, ExpCommit,
         ExpRollback, ExpCrash

(* The invariant is inductive.                                             *)
LEMMA IdsInvStep ==
    ASSUME LeaseTypeOK, LeaseTypeOK', IdsInv, RowsNext
    PROVE  IdsInv'
<1>1. Registered' /\ Fresh'
  BY RowStep, SequenceGrows, RowsKept
<1>2. Genuine' /\ Apart'
  <2>1. CASE ApiNext
    <3>1. PICK r \in Requests : Rent(r) \/ Stop(r) \/ Extend(r) \/ RequestDies(r)
      BY <2>1 DEF ApiNext
    <3>2. PICK new : Goto(r, new) /\ RequestMoves(r, new)
      BY <3>1, RequestStep DEF LeaseTypeOK
    <3>3. \A s \in Requests \ {r} : req'[s] = req[s]
      BY <3>2 DEF LeaseTypeOK, ApiTypeOK, Goto
    <3>4. \A s \in Requests : RentGenuine(s)' /\ StopGenuine(s)'
      BY <3>2, <3>3, RecordKept, RecordMoved
    <3> QED
      BY <3>2, <3>4, ApartMoved DEF Genuine
  <2>2. CASE UNCHANGED req
    <3>1. \A s \in Requests : RentGenuine(s)' /\ StopGenuine(s)'
      BY <2>2, RecordKept
    <3> QED
      BY <2>2, <3>1 DEF Genuine, IdsInv, Apart
  <2>3. CASE req' = [r \in Requests |-> Idle]
    BY <2>3 DEF Idle, Genuine, RentGenuine, StopGenuine, Apart, RentPc,
                OwningPc, StopPc
  <2> QED
    BY <2>1, <2>2, <2>3 DEF RowsNext, Elsewhere
<1> QED
  BY <1>1, <1>2, ExpGenuineKept DEF IdsInv

-----------------------------------------------------------------------------
(* A row that is not touched is the same lease.                            *)
LEMMA LeaseUntouched ==
    ASSUME NEW i, Untouched(i)
    PROVE  Lease(i)' = Lease(i)
BY DEF Lease, Untouched

(* A rent that is under way is counted: the leases of its user are fewer   *)
(* than the limit.                                                         *)
LEMMA RoomForRent ==
    ASSUME LeaseTypeOK, QuotaClaims, NEW u \in Users, NEW r \in Renting(u)
    PROVE  Contract!Cardinality(Contract!Active(u))
             < Quota - 1 + Cardinality(Requests)
<1>0. \A S : Contract!Cardinality(S) = Cardinality(S)
  BY DEF Contract!Cardinality, Cardinality
<1>1. Contract!Active(u) = ActiveRentals(u)
  BY DEF Contract!Active, Lease, ActiveRentals, ActiveRental
<1>2. /\ Cardinality(ActiveRentals(u)) \in Nat /\ Cardinality(Renting(u)) \in Nat
      /\ Cardinality(Requests) \in Nat
  BY CountedFinite, FS_CardinalityType
<1>3. Cardinality(Renting(u)) # 0
  BY CountedFinite, FS_EmptySet
<1>4. RentalClaims(u) <= Quota - 1 + Cardinality(Requests)
  BY DEF QuotaClaims
<1> QED
  BY <1>0, <1>1, <1>2, <1>3, <1>4, QuotaAssumption DEF RentalClaims

(* Every step is a step of the contract, or one it does not see.           *)
LEMMA ContractStep ==
    ASSUME LeaseTypeOK, IdsInv, QuotaClaims, RowsNext
    PROVE  \/ Contract!Next
           \/ UNCHANGED [i \in Ids |-> Lease(i)]
<1> DEFINE L == [i \in Ids |-> Lease(i)]
<1>m. RowMoves
  BY RowStep
<1>u. \A i : Untouched(i) => Lease(i)' = Lease(i)
  BY LeaseUntouched
<1>1. CASE \A i \in Ids : Untouched(i)
  BY <1>1, <1>u
<1>2. ASSUME NEW i \in Ids, Ended(i), \A j \in Ids \ {i} : Untouched(j)
      PROVE  Contract!Next \/ L' = L
  <2>1. /\ rental[i].status # "absent"
        /\ rental'[i].status \notin {"ACTIVE", "absent"}
        /\ rental'[i].user = rental[i].user
    BY <1>2 DEF Ended, IdsInv, Registered
  <2>2. /\ Lease(i)' = [state |-> "over", user |-> rental[i].user]
        /\ \A j \in Ids \ {i} : Lease(j)' = Lease(j)
    BY <1>2, <1>u, <2>1 DEF Lease
  <2>3. CASE rental[i].status = "ACTIVE"
    <3>1. Lease(i) = [state |-> "active", user |-> rental[i].user]
      BY <2>3 DEF Lease
    <3>2. L[i].state = "active" /\ L[i].user = rental[i].user
      BY <3>1
    <3>3. L' = [L EXCEPT ![i] = [state |-> "over", user |-> L[i].user]]
      BY <2>2, <3>2
    <3>4. Contract!End(i)
      BY <3>2, <3>3 DEF Contract!End
    <3> QED
      BY <3>4 DEF Contract!Next
  <2>4. CASE rental[i].status # "ACTIVE"
    <3>1. Lease(i) = [state |-> "over", user |-> rental[i].user]
      BY <2>1, <2>4 DEF Lease
    <3> QED
      BY <2>2, <3>1
  <2> QED
    BY <2>3, <2>4
<1>3. ASSUME NEW i \in Ids, NEW r \in Requests, Born(r, i),
             \A j \in Ids \ {i} : Untouched(j)
      PROVE  Contract!Next
  <2> DEFINE u == req[r].user
  <2>1. u \in Users /\ r \in Renting(u)
    BY <1>3 DEF Born, IdsInv, Genuine, RentGenuine, Renting, OwningPc, RentPc
  <2>2. rental[i].status = "absent"
    BY <1>3 DEF Born, IdsInv, Genuine, RentGenuine, Registered
  <2>3. L[i].state = "none"
    BY <2>2 DEF Lease
  <2>4. \A j \in Ids \ {i} : Lease(j)' = Lease(j)
    BY <1>3, <1>u
  <2>5. CASE rental'[i].status = "ACTIVE"
    <3>1. Lease(i)' = [state |-> "active", user |-> u]
      BY <1>3, <2>5 DEF Born, Lease
    <3>2. L' = [L EXCEPT ![i] = [state |-> "active", user |-> u]]
      BY <2>4, <3>1
    <3>3. Contract!Cardinality(Contract!Active(u))
            < Quota - 1 + Cardinality(Requests)
      BY <2>1, RoomForRent
    <3>4. Contract!Grant(i, u)
      BY <2>3, <3>2, <3>3 DEF Contract!Grant
    <3> QED
      BY <2>1, <3>4 DEF Contract!Next
  <2>6. CASE rental'[i].status = "CANCELLED"
    <3>1. Lease(i)' = [state |-> "over", user |-> u]
      BY <1>3, <2>6 DEF Born, Lease
    <3>2. L' = [L EXCEPT ![i] = [state |-> "over", user |-> u]]
      BY <2>4, <3>1
    <3>3. Contract!Refuse(i, u)
      BY <2>3, <3>2 DEF Contract!Refuse
    <3> QED
      BY <2>1, <3>3 DEF Contract!Next
  <2> QED
    BY <1>3, <2>5, <2>6 DEF Born
<1> QED
  BY <1>m, <1>1, <1>2, <1>3 DEF RowMoves

-----------------------------------------------------------------------------
(* While no worker fails the two halves of a pair of rows go together.     *)
(* What a stop has loaded of the instance is wrong in one way only: it may *)
(* have ended since, so that an instance that was stopped already needs no *)
(* writing.                                                                *)
StopSawEnd(r) == req[r].pc \in StopPc /\ req[r].status = "stopped"
                    => inst[req[r].id].status # "running"

PairsInv == LeaseConsistent /\ \A r \in Requests : StopSawEnd(r)

(* What a step writes of the rows, both halves.                            *)
PairUntouched(i) == /\ inst'[i].status = inst[i].status
                    /\ rental'[i].status = rental[i].status

PairMoves ==
    \/ \A i \in Ids : PairUntouched(i)
    \/ \E i \in Ids :
          /\ inst'[i].status = "running" <=> rental'[i].status = "ACTIVE"
          /\ Committed(i) => inst'[i].status # "running"
          /\ \A j \in Ids \ {i} : PairUntouched(j)

(* Every step writes both halves of at most one pair, and makes no         *)
(* committed instance run.                                                 *)
LEMMA PairStep ==
    ASSUME LeaseTypeOK, IdsInv, PairsInv, LeaseNext
    PROVE  PairMoves
<1>t. /\ inst \in [Ids -> InstanceRow]
      /\ rental \in [Ids -> RentalRow]
      /\ req \in [Requests -> Request]
  BY DEF LeaseTypeOK, ApiTypeOK, DbTypeOK
<1>0. CASE UNCHANGED <<inst, rental>>
  BY <1>0 DEF PairMoves, PairUntouched
<1>1. ASSUME NEW r \in Requests, RentCommit(r) \/ RentFail(r)
      PROVE  PairMoves
  <2> DEFINE i == req[r].id
  <2>1. i \in Ids /\ req[r].pc \in OwningPc
    BY <1>1, <1>t DEF RentCommit, RentFail, OwningPc, Request
  <2>2. ~Committed(i)
    BY <2>1 DEF IdsInv, Genuine, RentGenuine
  <2>3. \A j \in Ids \ {i} : PairUntouched(j)
    BY <1>1, <1>t DEF RentCommit, RentFail, PairUntouched
  <2>4. inst'[i].status = "running" <=> rental'[i].status = "ACTIVE"
    BY <1>1, <1>t, <2>1 DEF RentCommit, RentFail, OwnInstance
  <2> QED
    BY <2>1, <2>2, <2>3, <2>4 DEF PairMoves
<1>2. ASSUME NEW r \in Requests, StopCommit(r)
      PROVE  PairMoves
  <2> DEFINE i == req[r].id
  <2>1. i \in Ids /\ req[r].pc \in StopPc
    BY <1>2, <1>t DEF StopCommit, Request, StopPc
  <2>2. /\ ~req[r].active => ~ActiveRental(i)
        /\ req[r].status = "stopped" => inst[i].status # "running"
    BY <2>1 DEF IdsInv, Genuine, StopGenuine, PairsInv, StopSawEnd
  <2>3. \A j \in Ids \ {i} : PairUntouched(j)
    BY <1>2, <1>t DEF StopCommit, Stopped, Cancelled, PairUntouched
  <2>4. inst'[i].status # "running"
    BY <1>2, <1>t, <2>1, <2>2 DEF StopCommit, Stopped, InstanceRow
  <2>5. rental'[i].status # "ACTIVE"
    BY <1>2, <1>t, <2>1, <2>2 DEF StopCommit, Cancelled, RentalRow, ActiveRental
  <2> QED
    BY <2>1, <2>3, <2>4, <2>5 DEF PairMoves
<1>3. ASSUME NEW r \in Requests, ExtendCommit(r)
      PROVE  PairMoves
  BY <1>3, <1>t DEF ExtendCommit, PairMoves, PairUntouched, RentalRow
<1>4. CASE ExpCommit
  <2> DEFINE i == exp.id
  <2>1. i \in Ids
    BY <1>4 DEF ExpCommit, IdsInv, ExpGenuine
  <2>2. \A j \in Ids \ {i} : PairUntouched(j)
    BY <1>4, <1>t DEF ExpCommit, Expired, PairUntouched
  <2>3. inst'[i].status = "deleted" /\ rental'[i].status = "EXPIRED"
    BY <1>4, <1>t, <2>1 DEF ExpCommit, Expired, InstanceRow, RentalRow
  <2>4. \E j \in Ids : j = i
    BY <2>1
  <2> QED
    BY <2>2, <2>3, <2>4 DEF PairMoves
<1>5. CASE ApiNext
  <2>1. PICK r \in Requests : Rent(r) \/ Stop(r) \/ Extend(r) \/ RequestDies(r)
    BY <1>5 DEF ApiNext
  <2>2. \/ UNCHANGED <<inst, rental>>
        \/ RentCommit(r) \/ RentFail(r) \/ StopCommit(r) \/ ExtendCommit(r)
    BY <2>1 DEF Rent, RentAdmit, RentChoose, RentFlush, RentCreate, RentCount,
                Stop, StopLoad, StopCall, StopFlush, Extend, ExtendLoad,
                RequestDies, dbVars
  <2> QED
    BY <2>2, <1>0, <1>1, <1>2, <1>3
<1>6. CASE ExpNext
  <2>1. UNCHANGED <<inst, rental>> \/ ExpCommit
    BY <1>6 DEF ExpNext, ExpScan, ExpLoad, ExpDone, ExpCall, ExpCallError,
                ExpRollback, ExpCrash, dbVars
  <2> QED
    BY <2>1, <1>0, <1>4
<1>7. CASE Tick \/ UNCHANGED dbVars
  BY <1>7, <1>0 DEF Tick, dbVars
<1> QED
  BY <1>5, <1>6, <1>7 DEF LeaseNext

(* The pairs stay together.                                                *)
LEMMA PairsInvStep ==
    ASSUME LeaseTypeOK, IdsInv, PairsInv, LeaseNext
    PROVE  PairsInv'
<1>m. PairMoves
  BY PairStep
<1>1. LeaseConsistent'
  BY <1>m DEF PairMoves, PairUntouched, PairsInv, LeaseConsistent, ActiveRental
<1>2. \A i \in Ids : Committed(i) /\ inst[i].status # "running"
                       => inst'[i].status # "running"
  BY <1>m DEF PairMoves, PairUntouched
<1>3. ASSUME NEW s \in Requests, req'[s] = req[s]
      PROVE  StopSawEnd(s)'
  <2>1. CASE req[s].pc \in StopPc /\ req[s].status = "stopped"
    <3>1. /\ req[s].id \in Ids /\ Committed(req[s].id)
          /\ inst[req[s].id].status # "running"
      BY <2>1 DEF LeaseTypeOK, ApiTypeOK, Request, StopPc, PairsInv, StopSawEnd,
                  IdsInv, Genuine, StopGenuine
    <3> QED
      BY <1>2, <1>3, <3>1 DEF StopSawEnd
  <2> QED
    BY <2>1, <1>3 DEF StopSawEnd
<1>4. ASSUME NEW r \in Requests, NEW new, Goto(r, new), RequestMoves(r, new)
      PROVE  StopSawEnd(r)'
  <2>1. req'[r] = new
    BY <1>4 DEF LeaseTypeOK, ApiTypeOK, Goto
  <2>2. \A pc : pc \in StopPc =>
                  /\ pc \notin OwningPc
                  /\ pc \notin {"idle", "extending", "admitted", "chosen", "flushed"}
    BY DEF StopPc, OwningPc
  <2>3. CASE /\ new.status = inst[new.id].status
             /\ UNCHANGED <<seq, inst, rental>>
    BY <2>1, <2>3 DEF StopSawEnd
  <2>4. CASE /\ req[r].pc \in StopPc
             /\ new.id = req[r].id /\ new.status = req[r].status
             /\ UNCHANGED <<seq, inst, rental>>
    BY <2>1, <2>4 DEF StopSawEnd, PairsInv
  <2>5. CASE new.pc \notin StopPc
    BY <2>1, <2>5 DEF StopSawEnd
  <2> QED
    BY <1>4, <2>2, <2>3, <2>4, <2>5 DEF RequestMoves
<1>5. \A s \in Requests : StopSawEnd(s)'
  <2>1. CASE ApiNext
    <3>1. PICK r \in Requests : Rent(r) \/ Stop(r) \/ Extend(r) \/ RequestDies(r)
      BY <2>1 DEF ApiNext
    <3>2. PICK new : Goto(r, new) /\ RequestMoves(r, new)
      BY <3>1, RequestStep DEF LeaseTypeOK
    <3>3. \A s \in Requests \ {r} : req'[s] = req[s]
      BY <3>2 DEF LeaseTypeOK, ApiTypeOK, Goto
    <3> QED
      BY <3>2, <3>3, <1>3, <1>4
  <2>2. CASE UNCHANGED req
    BY <2>2, <1>3
  <2> QED
    BY <2>1, <2>2 DEF LeaseNext
<1> QED
  BY <1>1, <1>5 DEF PairsInv

-----------------------------------------------------------------------------
LeaseInv == LeaseTypeOK /\ IdsInv /\ PairsInv /\ QuotaClaims /\ CapacityClaims

(* Nothing is rented when the processes start.                             *)
LEMMA LeaseInitInv ==
    ASSUME LeaseInit
    PROVE  LeaseInv /\ Contract!Init
<1>1. LeaseTypeOK /\ QuotaClaims /\ CapacityClaims
  BY ApiInitTypes, ClaimsInit, ExpIdleType
     DEF LeaseInit, LeaseTypeOK, ExpInit, ExpTypeOK
<1>2. /\ \A i \in Ids : inst[i].status = "absent" /\ rental[i] = NoRental
      /\ \A r \in Requests : req[r].pc = "idle"
      /\ exp.due = {} /\ exp.pc = "idle"
  BY DEF LeaseInit, ApiInit, DbInit, NoInstance, ExpInit, ExpIdle, Idle
<1>3. IdsInv
  BY <1>2 DEF IdsInv, Registered, Fresh, Genuine, RentGenuine, StopGenuine,
              Apart, ExpGenuine, Committed, NoRental, RentPc, OwningPc, StopPc
<1>4. PairsInv
  BY <1>2 DEF PairsInv, LeaseConsistent, StopSawEnd, ActiveRental, NoRental,
              StopPc
<1>5. \A i \in Ids : Lease(i) = [state |-> "none", user |-> None]
  BY <1>2 DEF Lease, NoRental
<1>6. Contract!Init
  BY <1>5 DEF Contract!Init
<1> QED
  BY <1>1, <1>3, <1>4, <1>6 DEF LeaseInv

(* A step that changes no row and no record keeps the ids.                 *)
LEMMA IdsStutter ==
    ASSUME IdsInv, UNCHANGED <<dbVars, req, exp>>
    PROVE  IdsInv' /\ UNCHANGED [i \in Ids |-> Lease(i)]
BY DEF dbVars, IdsInv, Registered, Fresh, Genuine,
       RentGenuine, StopGenuine, Apart, ExpGenuine, Committed, ActiveRental, Lease

(* It keeps everything.                                                    *)
LEMMA LeaseStutter ==
    ASSUME LeaseInv, UNCHANGED leaseVars
    PROVE  LeaseInv'
<1> USE DEF LeaseInv
<1>1. LeaseTypeOK'
  BY DEF leaseVars, apiVars, dbVars, LeaseTypeOK, ApiTypeOK, DbTypeOK,
         AgentTypeOK, ExpTypeOK
<1>2. IdsInv'
  BY IdsStutter DEF leaseVars, apiVars
<1>3. PairsInv'
  BY DEF leaseVars, apiVars, dbVars, PairsInv, LeaseConsistent, ActiveRental,
         StopSawEnd
<1>4. QuotaClaims' /\ CapacityClaims'
  BY DEF leaseVars, apiVars, dbVars, QuotaClaims, RentalClaims, ActiveRentals,
         ActiveRental, Renting, CapacityClaims, PlaceClaims, ActiveCount,
         ActiveOn, Active, Placing
<1> QED
  BY <1>1, <1>2, <1>3, <1>4

(* No step breaks the bound on rentals and claims.                         *)
LEMMA LeaseQuotaStep ==
    ASSUME LeaseTypeOK, QuotaClaims, LeaseNext
    PROVE  QuotaClaims'
<1>t. ApiTypeOK /\ DbTypeOK
  BY DEF LeaseTypeOK, ApiTypeOK
<1>1. CASE ApiNext
  BY <1>1, <1>t, QuotaClaimsKept
<1>2. CASE ExpNext /\ UNCHANGED req
  BY <1>2, <1>t, ExpEndsRentals, QuotaClaimsShrink
<1>3. CASE (Tick \/ UNCHANGED dbVars) /\ UNCHANGED req
  <2>1. \A u \in Users : ActiveRentals(u)' \subseteq ActiveRentals(u)
    BY <1>3 DEF Tick, dbVars, ActiveRentals, ActiveRental
  <2> QED
    BY <1>3, <2>1, QuotaClaimsShrink
<1> QED
  BY <1>1, <1>2, <1>3 DEF LeaseNext

(* Nor the bound on instances and places.                                  *)
LEMMA LeaseCapacityStep ==
    ASSUME LeaseTypeOK, CapacityClaims, LeaseNext
    PROVE  CapacityClaims'
<1>t. ApiTypeOK /\ inst \in [Ids -> InstanceRow]
  BY DEF LeaseTypeOK, ApiTypeOK, DbTypeOK
<1>1. CASE ApiNext
  BY <1>1, <1>t, CapacityClaimsKept
<1>2. CASE (ExpNext \/ Tick \/ UNCHANGED dbVars) /\ UNCHANGED req
  <2>1. ASSUME NEW w \in Workers
        PROVE  ActiveOn(inst, w)' \subseteq ActiveOn(inst, w)
    <3>1. CASE ExpCommit
      BY <3>1, <1>t DEF ExpCommit, ActiveOn, Active, InstanceRow,
                        ACTIVE_INSTANCE_STATUSES
    <3>2. CASE UNCHANGED inst
      BY <3>2 DEF ActiveOn, Active
    <3> QED
      BY <1>2, <3>1, <3>2
         DEF ExpNext, ExpScan, ExpLoad, ExpDone, ExpCall, ExpCallError,
             ExpRollback, ExpCrash, Tick, dbVars
  <2> QED
    BY <1>2, <2>1, CapacityClaimsShrink
<1> QED
  BY <1>1, <1>2 DEF LeaseNext

(* The clock or an agent goes on, or one of the others takes a step.       *)
LEMMA LeaseRowsNext ==
    ASSUME LeaseNext
    PROVE  RowsNext
BY DEF LeaseNext, RowsNext, Elsewhere, Tick, dbVars, Committed

(* The invariant of the lease.                                             *)
LEMMA LeaseInvStep == LeaseInv /\ [LeaseNext]_leaseVars => LeaseInv'
<1>1. LeaseInv /\ LeaseNext => LeaseInv'
  BY LeaseStepTypes, LeaseRowsNext, IdsInvStep, PairsInvStep, LeaseQuotaStep,
     LeaseCapacityStep DEF LeaseInv
<1> QED
  BY <1>1, LeaseStutter

LEMMA LeaseInvHolds == LeaseSafety => []LeaseInv
BY LeaseInitInv, LeaseInvStep, PTL DEF LeaseSafety

(* The requests and the expiration worker (expiration_manager.py), with    *)
(* its failures and restarts, write no row and hold no record outside its  *)
(* type.                                                                   *)
THEOREM LeaseTypes == LeaseSafety => []LeaseTypeOK
<1>1. LeaseInv => LeaseTypeOK
  BY DEF LeaseInv
<1> QED
  BY <1>1, LeaseInvHolds, PTL

(* For any numbers of users, workers, processes and ports: beside the      *)
(* expiration worker, quota and capacity are exceeded by no more than the  *)
(* processes under way (the checks of rent(), api.py:62-76).               *)
THEOREM LeaseBounds == LeaseSafety => [](QuotaClaims /\ CapacityClaims)
<1>1. LeaseInv => QuotaClaims /\ CapacityClaims
  BY DEF LeaseInv
<1> QED
  BY <1>1, LeaseInvHolds, PTL

(* An instance is running exactly as long as its rental is ACTIVE: neither *)
(* rent(), stop_instance() nor expire_due_rentals() commits one half of a  *)
(* pair, however they overlap and whatever fails.                          *)
THEOREM LeaseRows == LeaseSafety => []LeaseConsistent
<1>1. LeaseInv => LeaseConsistent
  BY DEF LeaseInv, PairsInv
<1> QED
  BY <1>1, LeaseInvHolds, PTL

(* The rentals, as rent(), stop_instance(), extend_instance() (api.py) and *)
(* expire_due_rentals() write them, implement LeaseContract: granted once, *)
(* within the limit, ended once, never active again.                       *)
THEOREM LeaseImplementsContract == LeaseSafety => ImplementsContract
<1>1. LeaseInit => LeaseInv /\ Contract!Init
  BY LeaseInitInv
<1>2. LeaseInv /\ [LeaseNext]_leaseVars
        => [Contract!Next]_([i \in Ids |-> Lease(i)])
  BY ContractStep, LeaseRowsNext, IdsStutter DEF LeaseInv, leaseVars, apiVars
<1> QED
  BY <1>1, <1>2, LeaseInvHolds, PTL DEF LeaseSafety, ImplementsContract, Contract!Spec
=============================================================================
