------------------------------ MODULE ContainerProofs ------------------------------
(***************************************************************************)
(* What is known of the containers, for every value of the constants: that *)
(* a committed instance names its own one and, while no worker fails, that *)
(* no container outlives an instance that is called deleted, nor comes     *)
(* late for it.                                                            *)
(***************************************************************************)
EXTENDS LeasingProofs

-----------------------------------------------------------------------------
(* The container that a record or a row names was started for it.          *)
Names(c, w, i, p) == /\ c \in Cids
                     /\ container[c].id = i
                     /\ container[c].worker = w
                     /\ container[c].port = p
                     /\ ~container[c].late

-----------------------------------------------------------------------------
(* A container that is named has been started.                             *)
Arrived == \A i \in Ids : inst[i].cid # NoCid => ~container[inst[i].cid].late

(* What a rent knows of its container.                                     *)
RentHosts(r) ==
    /\ req[r].pc \in {"admitted", "chosen", "flushed"} => req[r].cid = NoCid
    /\ req[r].pc \in {"created", "counted"} =>
          Names(req[r].cid, req[r].worker, req[r].id, req[r].port)

HostsInv == /\ EndpointGenuine /\ Arrived
            /\ \A r \in Requests : RentHosts(r)

-----------------------------------------------------------------------------
(* While no worker fails a container that runs or is to come is that of an *)
(* id that was drawn; none runs or is to come for a row that is still to   *)
(* be written but the one that its request knows, nor for a row that names *)
(* a container but that one.                                               *)
Drawn == \A c \in Cids : Coming(c) => container[c].id <= seq

Only(i, c) == \A b \in Cids : Coming(b) /\ container[b].id = i => b = c

OwnOnly(r) == /\ req[r].pc = "flushed" => Only(req[r].id, NoCid)
              /\ req[r].pc \in {"created", "counted"} => Only(req[r].id, req[r].cid)

NamedOnly == \A i \in Ids : inst[i].cid # NoCid => Only(i, inst[i].cid)

RunningNamed == \A i \in Ids : inst[i].status = "running" => inst[i].cid # NoCid

Blank == \A i \in Ids : ~Committed(i) => inst[i].cid = NoCid

(* What expires has a container, and when it is called deleted has none.   *)
ExpHosts == /\ \A i \in exp.due : inst[i].cid # NoCid
            /\ exp.pc = "loaded" => /\ inst[exp.id].cid # NoCid
                                    /\ exp.cid = inst[exp.id].cid
                                    /\ exp.worker = inst[exp.id].worker
            /\ exp.pc = "called" => Only(exp.id, NoCid)

DeletedNone == \A i \in Ids : inst[i].status = "deleted" => Only(i, NoCid)

LifeInv == /\ Drawn /\ NamedOnly /\ RunningNamed /\ Blank /\ ExpHosts
           /\ \A r \in Requests : OwnOnly(r)
           /\ DeletedNone

-----------------------------------------------------------------------------
(* The agents of a step: nothing is started, or one container.             *)
AgentsMove == \/ NoneNew
              \/ \E w, i, p : \E c \in Cids : NewContainer(w, i, p, c)

(* What a container that was started is, it remains.                       *)
LEMMA NamesKept ==
    ASSUME AgentsMove, NEW d \in Cids, container[d].id \in Ids
    PROVE  /\ container'[d].worker = container[d].worker
           /\ container'[d].id = container[d].id
           /\ container'[d].port = container[d].port
           /\ container'[d].late => container[d].late
<1>1. container[d] # NoContainer
  BY BoundsAssumption DEF NoContainer, Ids, NoId
<1> QED
  BY <1>1 DEF AgentsMove, NoneNew, NewContainer, Kept

-----------------------------------------------------------------------------
(* What the step of a request does to the containers and to the places of  *)
(* the instances.                                                          *)
SamePlace(i) == /\ inst'[i].cid = inst[i].cid
                /\ inst'[i].worker = inst[i].worker
                /\ inst'[i].port = inst[i].port

HostMoves(r, new) ==
    \/ /\ new.pc \notin RentPc
       /\ \A i \in Ids : /\ SamePlace(i)
                         /\ inst'[i].status \in {inst[i].status, "stopped"}
       /\ NoneNew /\ UNCHANGED seq
    \/ /\ new.pc \in {"admitted", "chosen"} /\ new.cid = NoCid
       /\ UNCHANGED <<seq, inst, container>>
    \/ /\ new.pc = "flushed" /\ new.cid = NoCid
       /\ new.id = seq + 1 /\ seq' = seq + 1
       /\ new.port \in PickFreeSshPort(inst)
       /\ UNCHANGED <<inst, container>>
    \/ /\ new.pc = "created" /\ req[r].pc = "flushed" /\ new.id = req[r].id
       /\ new.worker = req[r].worker /\ new.port = req[r].port
       /\ new.cid \in Cids
       /\ NewContainer(new.worker, new.id, new.port, new.cid)
       /\ ~container'[new.cid].late
       /\ UNCHANGED <<seq, inst>>
    \/ /\ new.pc = "counted" /\ req[r].pc = "created"
       /\ new.id = req[r].id /\ new.cid = req[r].cid
       /\ new.worker = req[r].worker /\ new.port = req[r].port
       /\ UNCHANGED <<seq, inst, container>>
    \/ /\ new.pc = "idle" /\ req[r].pc = "counted"
       /\ inst' = [inst EXCEPT ![req[r].id] = OwnInstance(req[r], "running")]
       /\ UNCHANGED <<seq, container>>
    \/ /\ new.pc = "idle" /\ req[r].pc = "flushed"
       /\ \/ UNCHANGED inst
          \/ inst' = [inst EXCEPT ![req[r].id] = OwnInstance(req[r], "error")]
       /\ \/ NoneNew
          \/ \E c \in Cids :
                NewContainer(req[r].worker, req[r].id, req[r].port, c)
       /\ UNCHANGED seq

(* Every step of a request is one of these.                                *)
LEMMA RequestHosts ==
    ASSUME ApiTypeOK, NEW r \in Requests, RentHosts(r),
           Rent(r) \/ Stop(r) \/ Extend(r) \/ RequestDies(r)
    PROVE  \E new : Goto(r, new) /\ HostMoves(r, new)
<1> USE RowTypes
<1>q. req[r] \in Request
  OBVIOUS
<1>k. (UNCHANGED container) => NoneNew
  BY DEF NoneNew, Kept, Coming
<1>s. (UNCHANGED inst) => \A i \in Ids : /\ SamePlace(i)
                                         /\ inst'[i].status \in {inst[i].status, "stopped"}
  BY DEF SamePlace
<1>0. ASSUME NEW new, Goto(r, new), new.pc \notin RentPc,
             UNCHANGED <<seq, inst>>, NoneNew
      PROVE  \E n : Goto(r, n) /\ HostMoves(r, n)
  BY <1>0, <1>s DEF HostMoves
<1>i. Idle.pc = "idle" /\ "idle" \notin RentPc
  BY DEF Idle, RentPc
<1>1. ASSUME NEW u \in Users, RentAdmit(r, u)
      PROVE  \E n : Goto(r, n) /\ HostMoves(r, n)
  <2> DEFINE new == [Idle EXCEPT !.pc = "admitted", !.user = u]
  <2>1. new.pc = "admitted" /\ new.cid = NoCid
    BY DEF Idle
  <2>2. Goto(r, new) /\ UNCHANGED <<seq, inst, container>>
    BY <1>1 DEF RentAdmit, dbVars
  <2> HIDE DEF new
  <2> QED
    BY <2>1, <2>2 DEF HostMoves
<1>2. CASE RentChoose(r)
  <2>0. UNCHANGED <<seq, inst, container>> /\ req[r].cid = NoCid
    BY <1>2 DEF RentChoose, dbVars, RentHosts
  <2>1. ASSUME NEW w, Goto(r, [req[r] EXCEPT !.pc = "chosen", !.worker = w])
        PROVE  \E n : Goto(r, n) /\ HostMoves(r, n)
    <3> DEFINE new == [req[r] EXCEPT !.pc = "chosen", !.worker = w]
    <3>1. new.pc = "chosen" /\ new.cid = NoCid
      BY <1>q, <2>0 DEF Request
    <3>2. Goto(r, new)
      BY <2>1
    <3> HIDE DEF new
    <3> QED
      BY <2>0, <3>1, <3>2 DEF HostMoves
  <2>2. CASE Goto(r, Idle)
    BY <2>0, <2>2, <1>0, <1>i, <1>k
  <2> QED
    BY <1>2, <2>1, <2>2 DEF RentChoose
<1>3. CASE RentFlush(r)
  <2>0. UNCHANGED <<inst, container>> /\ req[r].cid = NoCid
    BY <1>3 DEF RentFlush, RentHosts
  <2>1. ASSUME NEW p \in PickFreeSshPort(inst), NEW e, seq' = seq + 1,
               Goto(r, [req[r] EXCEPT !.pc = "flushed", !.id = seq + 1,
                                      !.port = p, !.end = e])
        PROVE  \E n : Goto(r, n) /\ HostMoves(r, n)
    <3> DEFINE new == [req[r] EXCEPT !.pc = "flushed", !.id = seq + 1,
                                     !.port = p, !.end = e]
    <3>1. /\ new.pc = "flushed" /\ new.id = seq + 1
          /\ new.cid = NoCid /\ new.port = p
      BY <1>q, <2>0 DEF Request
    <3>2. Goto(r, new)
      BY <2>1
    <3> HIDE DEF new
    <3> QED
      BY <2>0, <2>1, <3>1, <3>2 DEF HostMoves
  <2>2. CASE Goto(r, Idle) /\ UNCHANGED seq
    BY <2>0, <2>2, <1>0, <1>i, <1>k
  <2> QED
    BY <1>3, <2>1, <2>2 DEF RentFlush
<1>4. CASE RentCreate(r)
  <2>1. PICK c \in Cids :
           /\ CreateOk(req[r].worker, req[r].id, req[r].port, c)
           /\ Goto(r, [req[r] EXCEPT !.pc = "created", !.cid = c])
    BY <1>4 DEF RentCreate
  <2> DEFINE new == [req[r] EXCEPT !.pc = "created", !.cid = c]
  <2>2. /\ new.pc = "created" /\ new.id = req[r].id /\ new.cid = c
        /\ new.worker = req[r].worker /\ new.port = req[r].port
    BY <1>q DEF Request
  <2>3. Goto(r, new) /\ req[r].pc = "flushed" /\ UNCHANGED <<seq, inst>>
    BY <1>4, <2>1 DEF RentCreate, dbVars
  <2>4. /\ NewContainer(req[r].worker, req[r].id, req[r].port, c)
        /\ ~container'[c].late
    BY <2>1, StartEffect
  <2> HIDE DEF new
  <2> QED
    BY <2>2, <2>3, <2>4 DEF HostMoves
<1>5. CASE RentCount(r)
  <2>1. PICK f : Goto(r, [req[r] EXCEPT !.pc = "counted", !.flag = f])
    BY <1>5 DEF RentCount
  <2> DEFINE new == [req[r] EXCEPT !.pc = "counted", !.flag = f]
  <2>2. /\ new.pc = "counted" /\ new.id = req[r].id /\ new.cid = req[r].cid
        /\ new.worker = req[r].worker /\ new.port = req[r].port
    BY <1>q DEF Request
  <2>3. /\ Goto(r, new) /\ req[r].pc = "created"
        /\ UNCHANGED <<seq, inst, container>>
    BY <1>5, <2>1 DEF RentCount, dbVars
  <2> HIDE DEF new
  <2> QED
    BY <2>2, <2>3 DEF HostMoves
<1>6. CASE RentCommit(r)
  BY <1>6, <1>i DEF RentCommit, HostMoves
<1>7. CASE RentFail(r)
  <2>1. \/ NoneNew
        \/ \E c \in Cids : NewContainer(req[r].worker, req[r].id, req[r].port, c)
    BY <1>7, CreateErrorEffect DEF RentFail
  <2> QED
    BY <1>7, <2>1, <1>i DEF RentFail, HostMoves
<1>8. ASSUME NEW u \in Users, NEW i \in Ids, StopLoad(r, u, i)
      PROVE  \E n : Goto(r, n) /\ HostMoves(r, n)
  <2> DEFINE new == [pc     |-> IF inst[i].cid # NoCid THEN "loaded" ELSE "called",
                     user   |-> u,
                     worker |-> inst[i].worker,
                     id     |-> i,
                     port   |-> NoPort,
                     cid    |-> inst[i].cid,
                     end    |-> 0,
                     status |-> inst[i].status,
                     active |-> ActiveRental(i),
                     flag   |-> worker[inst[i].worker].status = "BUSY"]
  <2>1. new.pc \notin RentPc
    BY DEF RentPc
  <2>2. Goto(r, new) /\ UNCHANGED <<seq, inst, container>>
    BY <1>8 DEF StopLoad, dbVars
  <2> HIDE DEF new
  <2> QED
    BY <2>1, <2>2, <1>0, <1>k
<1>9. CASE StopCall(r)
  <2>1. [req[r] EXCEPT !.pc = "called"].pc \notin RentPc
    BY <1>q DEF Request, RentPc
  <2>2. NoneNew
    BY <1>9, DeleteEffect DEF StopCall
  <2> QED
    BY <1>9, <2>1, <2>2, <1>0 DEF StopCall, dbVars
<1>10. CASE StopFlush(r)
  <2>1. PICK f : Goto(r, [req[r] EXCEPT !.pc = "stopping", !.flag = f])
    BY <1>10 DEF StopFlush
  <2>2. [req[r] EXCEPT !.pc = "stopping", !.flag = f].pc \notin RentPc
    BY <1>q DEF Request, RentPc
  <2> QED
    BY <1>10, <2>1, <2>2, <1>0, <1>k DEF StopFlush
<1>11. CASE StopCommit(r)
  <2>1. \A i \in Ids : /\ SamePlace(i)
                       /\ inst'[i].status \in {inst[i].status, "stopped"}
    BY <1>11 DEF StopCommit, Stopped, SamePlace, InstanceRow
  <2> QED
    BY <1>11, <2>1, <1>i, <1>k DEF StopCommit, HostMoves
<1>12. ASSUME NEW u \in Users, NEW i \in Ids, NEW d \in Durations,
              ExtendLoad(r, u, i, d)
       PROVE  \E n : Goto(r, n) /\ HostMoves(r, n)
  <2>1. [Idle EXCEPT !.pc = "extending", !.user = u, !.id = i,
                     !.end = Extended(i, d)].pc \notin RentPc
    BY DEF Idle, RentPc
  <2> QED
    BY <1>12, <2>1, <1>0, <1>k DEF ExtendLoad, dbVars
<1>13. CASE ExtendCommit(r) \/ (RequestDies(r) /\ UNCHANGED container)
  BY <1>13, <1>0, <1>i, <1>k DEF ExtendCommit, RequestDies
<1>14. CASE RequestDies(r) /\ ~UNCHANGED container
  <2>1. \E c \in Cids : NewContainer(req[r].worker, req[r].id, req[r].port, c)
    BY <1>14, StartEffect DEF RequestDies
  <2> QED
    BY <1>14, <2>1, <1>i DEF RequestDies, HostMoves
<1> QED
  BY <1>1, <1>2, <1>3, <1>4, <1>5, <1>6, <1>7, <1>8, <1>9, <1>10, <1>11,
     <1>12, <1>13, <1>14
     DEF Rent, Stop, Extend

(* An instance keeps naming its container, and a row that is moved or      *)
(* inserted names the one that was started for it.                         *)
LEMMA EndpointKept ==
    ASSUME DbTypeOK, EndpointGenuine, Arrived, AgentsMove,
           \A i \in Ids : \/ SamePlace(i)
                          \/ inst'[i].cid = NoCid
                          \/ Names(inst'[i].cid, inst'[i].worker, i, inst'[i].port)
    PROVE  EndpointGenuine' /\ Arrived'
<1> SUFFICES ASSUME NEW i \in Ids, inst'[i].cid # NoCid
             PROVE  /\ container'[inst'[i].cid].id = i
                    /\ container'[inst'[i].cid].worker = inst'[i].worker
                    /\ container'[inst'[i].cid].port = inst'[i].port
                    /\ ~container'[inst'[i].cid].late
  BY DEF EndpointGenuine, Arrived
<1>1. CASE SamePlace(i)
  <2>1. /\ inst[i].cid \in Cids
        /\ container[inst[i].cid].id = i
        /\ container[inst[i].cid].worker = inst[i].worker
        /\ container[inst[i].cid].port = inst[i].port
        /\ ~container[inst[i].cid].late
    BY <1>1 DEF SamePlace, EndpointGenuine, Arrived, DbTypeOK, InstanceRow
  <2> QED
    BY <1>1, <2>1, NamesKept DEF SamePlace
<1>2. CASE Names(inst'[i].cid, inst'[i].worker, i, inst'[i].port)
  BY <1>2, NamesKept DEF Names
<1> QED
  BY <1>1, <1>2

(* A request that does nothing keeps its container.                        *)
LEMMA RentHostsKept ==
    ASSUME ApiTypeOK, AgentsMove, NEW s \in Requests, RentHosts(s), req'[s] = req[s]
    PROVE  RentHosts(s)'
<1>1. CASE req[s].pc \in {"created", "counted"}
  <2>1. req[s].id \in Ids
    BY <1>1, RowTypes DEF Request
  <2>2. Names(req[s].cid, req[s].worker, req[s].id, req[s].port)
    BY <1>1 DEF RentHosts
  <2>3. /\ container'[req[s].cid].worker = req[s].worker
        /\ container'[req[s].cid].id = req[s].id
        /\ container'[req[s].cid].port = req[s].port
        /\ ~container'[req[s].cid].late
    BY <2>1, <2>2, NamesKept DEF Names
  <2> QED
    BY <1>1, <2>2, <2>3 DEF RentHosts, Names
<1> QED
  BY <1>1 DEF RentHosts

(* The containers under the steps of the requests: what a rent commits is  *)
(* what the agent has started for it.                                      *)
LEMMA HostsApi ==
    ASSUME ApiTypeOK, HostsInv, ApiNext
    PROVE  HostsInv'
<1> USE RowTypes
<1>1. PICK r \in Requests : Rent(r) \/ Stop(r) \/ Extend(r) \/ RequestDies(r)
  BY DEF ApiNext
<1>h. RentHosts(r) /\ req[r] \in Request
  BY DEF HostsInv
<1>2. PICK new : Goto(r, new) /\ HostMoves(r, new)
  BY <1>1, <1>h, RequestHosts
<1>3. req'[r] = new /\ \A s \in Requests \ {r} : req'[s] = req[s]
  BY <1>2 DEF Goto
<1>k. (UNCHANGED container) => NoneNew
  BY DEF NoneNew, Kept, Coming
<1>4. AgentsMove
  BY <1>2, <1>k DEF HostMoves, AgentsMove
<1>5. ASSUME NEW i \in Ids
      PROVE  \/ SamePlace(i)
             \/ inst'[i].cid = NoCid
             \/ Names(inst'[i].cid, inst'[i].worker, i, inst'[i].port)
  <2>1. CASE \A j \in Ids : SamePlace(j)
    BY <2>1
  <2>2. CASE UNCHANGED inst
    BY <2>2 DEF SamePlace
  <2>3. CASE /\ req[r].pc = "counted"
             /\ inst' = [inst EXCEPT ![req[r].id] = OwnInstance(req[r], "running")]
    BY <2>3, <1>h DEF SamePlace, OwnInstance, RentHosts
  <2>4. CASE /\ req[r].pc = "flushed"
             /\ inst' = [inst EXCEPT ![req[r].id] = OwnInstance(req[r], "error")]
    BY <2>4, <1>h DEF SamePlace, OwnInstance, RentHosts
  <2> QED
    BY <1>2, <2>1, <2>2, <2>3, <2>4 DEF HostMoves
<1>6. EndpointGenuine' /\ Arrived'
  BY <1>4, <1>5, EndpointKept DEF HostsInv, ApiTypeOK
<1>8. RentHosts(r)'
  <2>1. CASE new.pc \notin RentPc \/ new.pc = "idle"
    BY <2>1, <1>3 DEF RentHosts, RentPc
  <2>2. CASE new.pc \in {"admitted", "chosen", "flushed"} /\ new.cid = NoCid
    BY <2>2, <1>3 DEF RentHosts
  <2>3. CASE /\ new.pc = "created" /\ new.cid \in Cids
             /\ NewContainer(new.worker, new.id, new.port, new.cid)
             /\ ~container'[new.cid].late
    BY <2>3, <1>3 DEF RentHosts, NewContainer, Names
  <2>4. CASE /\ new.pc = "counted" /\ req[r].pc = "created"
             /\ new.id = req[r].id /\ new.cid = req[r].cid
             /\ new.worker = req[r].worker /\ new.port = req[r].port
             /\ UNCHANGED container
    BY <2>4, <1>3, <1>h DEF RentHosts, Names
  <2> QED
    BY <1>2, <2>1, <2>2, <2>3, <2>4 DEF HostMoves
<1>9. \A s \in Requests : RentHosts(s)'
  BY <1>3, <1>4, <1>8, RentHostsKept DEF HostsInv
<1> QED
  BY <1>6, <1>9 DEF HostsInv

(* The other processes keep them too, if they move an instance only to a   *)
(* container that was started for it.                                      *)
LEMMA HostsElsewhere ==
    ASSUME ApiTypeOK, HostsInv, AgentsMove,
           req' = req \/ req' = [r \in Requests |-> Idle],
           \A i \in Ids : \/ SamePlace(i)
                          \/ Names(inst'[i].cid, inst'[i].worker, i, inst'[i].port)
    PROVE  HostsInv'
<1>1. EndpointGenuine' /\ Arrived'
  BY EndpointKept DEF HostsInv, ApiTypeOK
<1>3. CASE req' = req
  <2>1. \A s \in Requests : RentHosts(s)'
    BY <1>3, RentHostsKept DEF HostsInv
  <2> QED
    BY <1>1, <2>1 DEF HostsInv
<1>4. CASE req' = [r \in Requests |-> Idle]
  <2>1. \A s \in Requests : req'[s].pc = "idle"
    BY <1>4 DEF Idle
  <2>2. \A s \in Requests : RentHosts(s)'
    BY <2>1 DEF RentHosts
  <2> QED
    BY <1>1, <2>2 DEF HostsInv
<1> QED
  BY <1>3, <1>4

(* The expiration worker only removes containers.                          *)
LEMMA ExpHosting ==
    ASSUME DbTypeOK, AgentTypeOK, ExpNext
    PROVE  /\ NoneNew /\ UNCHANGED seq
           /\ \A i \in Ids : SamePlace(i)
<1>t. inst \in [Ids -> InstanceRow]
  BY DEF DbTypeOK
<1>1. CASE ExpCommit
  BY <1>t, <1>1 DEF ExpCommit, SamePlace, InstanceRow, NoneNew, Kept,
                      Coming
<1>2. CASE ExpCall \/ ExpCallError
  BY <1>2, DeleteEffect DEF ExpCall, ExpCallError, SamePlace, dbVars
<1>3. CASE UNCHANGED <<dbVars, container>>
  BY <1>3 DEF SamePlace, NoneNew, Kept, Coming, dbVars
<1> QED
  BY <1>1, <1>2, <1>3
     DEF ExpNext, ExpScan, ExpLoad, ExpDone, ExpRollback, ExpCrash

(* No container runs when the processes start.                             *)
LEMMA HostsInit ==
    ASSUME ApiInit
    PROVE  HostsInv
<1>1. /\ \A i \in Ids : inst[i].cid = NoCid
      /\ \A r \in Requests : req[r].pc = "idle" /\ req[r].cid = NoCid
  BY DEF ApiInit, DbInit, NoInstance, Idle
<1> QED
  BY <1>1 DEF HostsInv, EndpointGenuine, Arrived, RentHosts

-----------------------------------------------------------------------------
(* A step that starts nothing, or a container of another instance, leaves  *)
(* what is there for an instance as it is, or less of it.                  *)
StartsFor(k) == \/ NoneNew
                \/ \E w, p : \E c \in Cids : NewContainer(w, k, p, c)

LEMMA OnlyKept ==
    ASSUME NEW k, StartsFor(k), NEW i, NoneNew \/ i # k, NEW c, Only(i, c)
    PROVE  \A b \in Cids : Coming(b)' /\ container'[b].id = i => b = c
<1>1. CASE NoneNew
  BY <1>1 DEF NoneNew, Kept, Only
<1>2. ASSUME NEW w, NEW p, NEW d \in Cids, NewContainer(w, k, p, d), i # k
      PROVE  \A b \in Cids : Coming(b)' /\ container'[b].id = i => b = c
  <2>1. container'[d].id = k /\ \A b \in Cids \ {d} : Kept(b)
    BY <1>2 DEF NewContainer
  <2> QED
    BY <1>2, <2>1 DEF Kept, Only
<1> QED
  BY <1>1, <1>2 DEF StartsFor

(* The lives of containers and instances under the steps of the requests.  *)
LEMMA LifeApi ==
    ASSUME LeaseTypeOK, LeaseTypeOK', IdsInv, HostsInv, LifeInv,
           ApiNext, UNCHANGED exp
    PROVE  LifeInv'
<1>t. ApiTypeOK /\ exp \in ExpState
  BY DEF LeaseTypeOK, ExpTypeOK
<1> USE <1>t, RowTypes
<1>n. /\ seq \in Nat /\ \A i \in Ids : i \in Nat
      /\ NoCid \notin Cids
  BY BoundsAssumption DEF Ids, Cids, NoCid
<1>1. PICK r \in Requests : Rent(r) \/ Stop(r) \/ Extend(r) \/ RequestDies(r)
  BY DEF ApiNext
<1>h. RentHosts(r) /\ OwnOnly(r) /\ req[r] \in Request
  BY DEF HostsInv, LifeInv
<1>2. PICK new : Goto(r, new) /\ HostMoves(r, new)
  BY <1>1, <1>h, RequestHosts
<1>3. req'[r] = new /\ \A s \in Requests \ {r} : req'[s] = req[s]
  BY <1>2 DEF Goto
<1> DEFINE k == req[r].id
<1>k. (UNCHANGED container) => NoneNew
  BY DEF NoneNew, Kept, Coming
<1>o. req[r].pc \in OwningPc => k \in Ids /\ k <= seq /\ ~Committed(k)
  BY <1>h DEF Request, OwningPc, IdsInv, Genuine, RentGenuine
<1>p. {"flushed", "created", "counted"} = OwningPc /\ "idle" \notin OwningPc
  BY DEF OwningPc
<1>4. StartsFor(k) /\ (NoneNew \/ req[r].pc = "flushed")
  BY <1>2, <1>k DEF HostMoves, StartsFor
<1>5. \A i \in Ids : Committed(i) =>
         /\ SamePlace(i)
         /\ inst'[i].status \in {inst[i].status, "stopped"}
         /\ NoneNew \/ i # k
  <2> SUFFICES ASSUME NEW i \in Ids, Committed(i)
               PROVE  /\ SamePlace(i)
                      /\ inst'[i].status \in {inst[i].status, "stopped"}
                      /\ NoneNew \/ i # k
    OBVIOUS
  <2>1. req[r].pc \in OwningPc => i # k
    BY <1>o
  <2>2. NoneNew \/ i # k
    BY <1>4, <1>p, <2>1
  <2>3. CASE UNCHANGED inst
    BY <2>2, <2>3 DEF SamePlace
  <2>4. CASE \A j \in Ids : /\ SamePlace(j)
                            /\ inst'[j].status \in {inst[j].status, "stopped"}
    BY <2>2, <2>4
  <2>5. CASE /\ req[r].pc \in OwningPc
             /\ \E row : inst' = [inst EXCEPT ![k] = row]
    BY <2>1, <2>2, <2>5 DEF SamePlace
  <2> QED
    BY <1>2, <1>p, <2>3, <2>4, <2>5 DEF HostMoves
<1>6. Drawn'
  <2>1. seq' = seq \/ seq' = seq + 1
    BY <1>2 DEF HostMoves
  <2>2. ASSUME NEW b \in Cids, Coming(b)'
        PROVE  \/ Coming(b) /\ container'[b].id = container[b].id
               \/ container'[b].id = k /\ req[r].pc = "flushed"
    <3>1. CASE NoneNew
      BY <2>2, <3>1 DEF NoneNew, Kept
    <3>2. ASSUME NEW w, NEW p, NEW d \in Cids, NewContainer(w, k, p, d)
          PROVE  \/ Coming(b) /\ container'[b].id = container[b].id
                 \/ container'[b].id = k
      <4>1. container'[d].id = k /\ (b # d => Kept(b))
        BY <3>2 DEF NewContainer
      <4> QED
        BY <2>2, <4>1 DEF Kept
    <3> QED
      BY <1>4, <3>1, <3>2 DEF StartsFor
  <2>3. ASSUME NEW b \in Cids, Coming(b)'
        PROVE  container'[b].id <= seq
    BY <2>2, <2>3, <1>o, <1>p DEF LifeInv, Drawn
  <2>4. \A b \in Cids : container'[b].id \in Int
    BY <1>n DEF LeaseTypeOK, ApiTypeOK, AgentTypeOK, Container, NoId
  <2> QED
    BY <2>1, <2>3, <2>4, <1>n DEF Drawn
<1>7. ASSUME NEW i \in Ids
      PROVE  /\ SamePlace(i) /\ (NoneNew \/ i # k)
             \/ inst'[i].cid = NoCid
             \/ /\ i = k /\ req[r].pc = "counted" /\ UNCHANGED container
                /\ inst'[i].cid = req[r].cid /\ inst'[i].status = "running"
  <2>1. CASE Committed(i)
    BY <2>1, <1>5
  <2>2. CASE ~Committed(i)
    <3>1. inst[i].cid = NoCid
      BY <2>2 DEF LifeInv, Blank
    <3>2. CASE SamePlace(i)
      BY <3>1, <3>2 DEF SamePlace
    <3>3. CASE /\ req[r].pc = "counted" /\ UNCHANGED container
               /\ inst' = [inst EXCEPT ![k] = OwnInstance(req[r], "running")]
      BY <3>1, <3>3 DEF OwnInstance
    <3>4. CASE /\ req[r].pc = "flushed"
               /\ inst' = [inst EXCEPT ![k] = OwnInstance(req[r], "error")]
      BY <3>1, <3>4, <1>h DEF OwnInstance, RentHosts
    <3> QED
      BY <1>2, <3>2, <3>3, <3>4 DEF HostMoves, SamePlace
  <2> QED
    BY <2>1, <2>2
<1>8. NamedOnly'
  <2> SUFFICES ASSUME NEW i \in Ids, inst'[i].cid # NoCid
               PROVE  \A b \in Cids : Coming(b)' /\ container'[b].id = i
                                      => b = inst'[i].cid
    BY DEF NamedOnly, Only
  <2>1. CASE SamePlace(i) /\ (NoneNew \/ i # k)
    <3>1. Only(i, inst[i].cid) /\ inst'[i].cid = inst[i].cid
      BY <2>1 DEF LifeInv, NamedOnly, SamePlace
    <3> QED
      BY <2>1, <3>1, <1>4, OnlyKept
  <2>2. CASE /\ i = k /\ req[r].pc = "counted" /\ UNCHANGED container
             /\ inst'[i].cid = req[r].cid
    BY <2>2, <1>h DEF OwnOnly, Only, Coming
  <2> QED
    BY <2>1, <2>2, <1>7
<1>9. RunningNamed'
  <2> SUFFICES ASSUME NEW i \in Ids, inst'[i].status = "running"
               PROVE  inst'[i].cid # NoCid
    BY DEF RunningNamed
  <2>1. CASE Committed(i)
    BY <2>1, <1>5 DEF LifeInv, RunningNamed, SamePlace
  <2>2. CASE ~Committed(i)
    <3>1. CASE i = k /\ req[r].pc = "counted" /\ inst'[i].cid = req[r].cid
      BY <3>1, <1>h, <1>n DEF RentHosts, Names
    <3>2. CASE \/ inst'[i].status \in {inst[i].status, "stopped"}
               \/ inst' = [inst EXCEPT ![k] = OwnInstance(req[r], "error")]
      BY <2>2, <3>2 DEF Committed, OwnInstance
    <3>3. CASE /\ req[r].pc = "counted"
               /\ inst' = [inst EXCEPT ![k] = OwnInstance(req[r], "running")]
      BY <2>2, <3>1, <3>3 DEF Committed, OwnInstance
    <3> QED
      BY <1>2, <3>2, <3>3 DEF HostMoves
  <2> QED
    BY <2>1, <2>2
<1>10. Blank'
  <2> SUFFICES ASSUME NEW i \in Ids, inst'[i].status = "absent"
               PROVE  inst'[i].cid = NoCid
    BY DEF Blank, Committed
  <2>1. ~Committed(i)
    BY <1>5 DEF Committed
  <2>2. inst[i].cid = NoCid
    BY <2>1 DEF LifeInv, Blank
  <2> QED
    BY <2>2, <1>7 DEF SamePlace
<1>11. ASSUME NEW s \in Requests \ {r}
       PROVE  OwnOnly(s)'
  <2>1. ASSUME req[s].pc \in OwningPc
        PROVE  NoneNew \/ req[s].id # k
    BY <1>4, <1>p, <2>1 DEF IdsInv, Apart
  <2>2. OwnOnly(s) /\ req'[s] = req[s]
    BY <1>3 DEF LifeInv
  <2>3. CASE req[s].pc = "flushed"
    <3>1. Only(req[s].id, NoCid)
      BY <2>2, <2>3 DEF OwnOnly
    <3>2. \A b \in Cids : Coming(b)' /\ container'[b].id = req[s].id
                          => b = NoCid
      BY <1>4, <1>p, <2>1, <2>3, <3>1, OnlyKept
    <3> QED
      BY <2>2, <2>3, <3>2 DEF OwnOnly, Only
  <2>4. CASE req[s].pc \in {"created", "counted"}
    <3>1. Only(req[s].id, req[s].cid)
      BY <2>2, <2>4 DEF OwnOnly
    <3>2. \A b \in Cids : Coming(b)' /\ container'[b].id = req[s].id
                          => b = req[s].cid
      BY <1>4, <1>p, <2>1, <2>4, <3>1, OnlyKept
    <3> QED
      BY <2>2, <2>4, <3>2 DEF OwnOnly, Only
  <2> QED
    BY <2>2, <2>3, <2>4 DEF OwnOnly
<1>12. OwnOnly(r)'
  <2>1. CASE new.pc \notin OwningPc
    BY <2>1, <1>3, <1>p DEF OwnOnly
  <2>2. CASE new.pc = "flushed" /\ new.id = seq + 1 /\ UNCHANGED container
    <3>1. \A b \in Cids : Coming(b) => container[b].id # seq + 1
      BY <1>n DEF LifeInv, Drawn, AgentTypeOK, Container, NoId
    <3> QED
      BY <2>2, <3>1, <1>3 DEF OwnOnly, Only, Coming
  <2>3. CASE /\ new.pc = "created" /\ req[r].pc = "flushed" /\ new.id = k
             /\ NewContainer(new.worker, new.id, new.port, new.cid)
    <3>1. \A b \in Cids : Coming(b) => container[b].id # k
      BY <2>3, <1>h, <1>n DEF OwnOnly, Only
    <3> QED
      <4>1. ASSUME NEW b \in Cids, Coming(b)', container'[b].id = k
            PROVE  b = new.cid
        BY <2>3, <3>1, <4>1 DEF NewContainer, Kept
      <4> QED
        BY <2>3, <4>1, <1>3 DEF OwnOnly, Only
  <2>4. CASE /\ new.pc = "counted" /\ req[r].pc = "created"
             /\ new.id = k /\ new.cid = req[r].cid /\ UNCHANGED container
    BY <2>4, <1>3, <1>h DEF OwnOnly, Only, Coming
  <2>5. new.pc \in OwningPc => new.pc \in RentPc
                              /\ new.pc \notin {"idle", "admitted", "chosen"}
    BY DEF OwningPc, RentPc
  <2> QED
    BY <1>2, <2>1, <2>2, <2>3, <2>4, <2>5 DEF HostMoves
<1>13. ExpHosts'
  <2>1. \A i \in exp.due : i \in Ids /\ Committed(i) /\ inst[i].cid # NoCid
    BY DEF ExpState, IdsInv, ExpGenuine, LifeInv, ExpHosts
  <2>2. \A i \in exp.due : inst'[i].cid # NoCid
    BY <2>1, <1>5 DEF SamePlace
  <2>3. CASE exp.pc = "loaded"
    <3>1. exp.id \in Ids /\ Committed(exp.id) /\ inst[exp.id].cid # NoCid
          /\ exp.cid = inst[exp.id].cid /\ exp.worker = inst[exp.id].worker
      BY <2>3 DEF IdsInv, ExpGenuine, LifeInv, ExpHosts
    <3> QED
      BY <2>2, <2>3, <3>1, <1>5 DEF ExpHosts, SamePlace
  <2>4. CASE exp.pc = "called"
    <3>1. exp.id \in Ids /\ Committed(exp.id) /\ Only(exp.id, NoCid)
      BY <2>4 DEF IdsInv, ExpGenuine, LifeInv, ExpHosts
    <3>2. \A b \in Cids : Coming(b)' /\ container'[b].id = exp.id
                          => b = NoCid
      BY <3>1, <1>4, <1>5, OnlyKept
    <3> QED
      BY <2>2, <2>4, <3>2 DEF ExpHosts, Only
  <2> QED
    BY <2>2, <2>3, <2>4 DEF ExpHosts
<1>14. DeletedNone'
  <2> SUFFICES ASSUME NEW i \in Ids, inst'[i].status = "deleted"
               PROVE  \A b \in Cids : Coming(b)' /\ container'[b].id = i
                                      => b = NoCid
    BY DEF DeletedNone, Only
  <2>1. inst[i].status = "deleted"
    BY <1>2 DEF HostMoves, OwnInstance
  <2>2. Only(i, NoCid)
    BY <2>1 DEF LifeInv, DeletedNone
  <2>3. NoneNew \/ i # k
    BY <2>1, <1>5 DEF Committed
  <2> QED
    BY <2>2, <2>3, <1>4, OnlyKept
<1> QED
  BY <1>6, <1>8, <1>9, <1>10, <1>11, <1>12, <1>13, <1>14 DEF LifeInv

-----------------------------------------------------------------------------
(* The lives of containers and instances under the expiration worker, that *)
(* calls an instance deleted only after its container was removed.         *)
LEMMA LifeExp ==
    ASSUME LeaseTypeOK, IdsInv, HostsInv, LeaseConsistent, LifeInv,
           ExpNext, UNCHANGED req
    PROVE  LifeInv'
<1>t. /\ DbTypeOK /\ AgentTypeOK /\ exp \in ExpState
      /\ inst \in [Ids -> InstanceRow]
      /\ container \in [Cids -> Container]
  BY DEF LeaseTypeOK, ApiTypeOK, ExpTypeOK, DbTypeOK, AgentTypeOK
<1>n. NoCid \notin Cids
  BY BoundsAssumption DEF Cids, NoCid
<1>1. NoneNew /\ UNCHANGED seq /\ \A i \in Ids : SamePlace(i)
  BY <1>t, ExpHosting
<1>2. ASSUME NEW i, NEW c, Only(i, c)
      PROVE  \A b \in Cids : Coming(b)' /\ container'[b].id = i => b = c
  BY <1>1, <1>2 DEF NoneNew, Kept, Only
<1>3. ASSUME NEW i \in Ids
      PROVE  \/ inst'[i].status = inst[i].status
             \/ inst'[i].status = "deleted" /\ i = exp.id /\ exp.pc = "called"
  <2>1. CASE ExpCommit
    BY <1>t, <2>1 DEF ExpCommit, InstanceRow
  <2>2. CASE UNCHANGED inst
    BY <2>2
  <2> QED
    BY <2>1, <2>2 DEF ExpNext, ExpScan, ExpLoad, ExpDone, ExpCall, ExpCallError,
                      ExpRollback, ExpCrash, dbVars
<1>4. Drawn'
  BY <1>1 DEF LifeInv, Drawn, NoneNew, Kept
<1>5. NamedOnly'
  <2> SUFFICES ASSUME NEW i \in Ids, inst'[i].cid # NoCid
               PROVE  \A b \in Cids : Coming(b)' /\ container'[b].id = i
                                      => b = inst'[i].cid
    BY DEF NamedOnly, Only
  <2>1. inst'[i].cid = inst[i].cid
    BY <1>1 DEF SamePlace
  <2>2. Only(i, inst[i].cid)
    BY <2>1 DEF LifeInv, NamedOnly
  <2> QED
    BY <2>1, <2>2, <1>2
<1>6. RunningNamed'
  BY <1>1, <1>3 DEF LifeInv, RunningNamed, SamePlace
<1>7. Blank'
  BY <1>1, <1>3 DEF LifeInv, Blank, SamePlace, Committed
<1>8. ASSUME NEW s \in Requests
      PROVE  OwnOnly(s)'
  <2>1. OwnOnly(s) /\ req'[s] = req[s]
    BY DEF LifeInv
  <2>2. CASE req[s].pc = "flushed"
    <3>1. \A b \in Cids : Coming(b)' /\ container'[b].id = req[s].id
                          => b = NoCid
      BY <2>1, <2>2, <1>2 DEF OwnOnly
    <3> QED
      BY <2>1, <2>2, <3>1 DEF OwnOnly, Only
  <2>3. CASE req[s].pc \in {"created", "counted"}
    <3>1. \A b \in Cids : Coming(b)' /\ container'[b].id = req[s].id
                          => b = req[s].cid
      BY <2>1, <2>3, <1>2 DEF OwnOnly
    <3> QED
      BY <2>1, <2>3, <3>1 DEF OwnOnly, Only
  <2> QED
    BY <2>1, <2>2, <2>3 DEF OwnOnly
<1>9. DeletedNone'
  <2> SUFFICES ASSUME NEW i \in Ids, inst'[i].status = "deleted"
               PROVE  \A b \in Cids : Coming(b)' /\ container'[b].id = i
                                      => b = NoCid
    BY DEF DeletedNone, Only
  <2>1. Only(i, NoCid)
    <3>1. CASE inst[i].status = "deleted"
      BY <3>1 DEF LifeInv, DeletedNone
    <3>2. CASE i = exp.id /\ exp.pc = "called"
      BY <3>2 DEF LifeInv, ExpHosts
    <3> QED
      BY <1>3, <3>1, <3>2
  <2> QED
    BY <2>1, <1>2
<1>10. ExpHosts'
  <2>1. \A i \in exp.due : i \in Ids /\ inst[i].cid # NoCid
                           /\ inst'[i].cid = inst[i].cid
    BY <1>t, <1>1 DEF ExpState, LifeInv, ExpHosts, SamePlace
  <2>n. /\ [ExpIdle EXCEPT !.pc = "next", !.due = exp.due].pc = "next"
        /\ [ExpIdle EXCEPT !.pc = "next", !.due = exp.due].due = exp.due
        /\ ExpIdle.pc = "idle" /\ ExpIdle.due = {}
    BY DEF ExpIdle
  <2>2. CASE ExpScan
    <3>1. exp'.pc = "next" /\ exp'.due = DueRentals
      BY <2>2 DEF ExpScan, ExpIdle
    <3>2. \A i \in DueRentals : inst'[i].cid # NoCid
      <4>1. \A i \in DueRentals : i \in Ids /\ inst[i].status = "running"
        BY DEF DueRentals, Due, LeaseConsistent, ActiveRental
      <4> QED
        BY <4>1, <1>1 DEF LifeInv, RunningNamed, SamePlace
    <3> QED
      BY <3>1, <3>2 DEF ExpHosts
  <2>3. CASE ExpLoad
    <3>1. PICK i \in exp.due :
             exp' = [pc     |-> IF inst[i].cid # NoCid THEN "loaded" ELSE "called",
                     due    |-> exp.due \ {i},
                     id     |-> i,
                     worker |-> inst[i].worker,
                     cid    |-> inst[i].cid,
                     busy   |-> worker[inst[i].worker].status = "BUSY"]
      BY <2>3 DEF ExpLoad
    <3>2. /\ exp'.pc = "loaded" /\ exp'.due \subseteq exp.due /\ exp'.id = i
          /\ exp'.cid = inst[i].cid /\ exp'.worker = inst[i].worker
      BY <2>1, <3>1
    <3>3. i \in Ids /\ SamePlace(i) /\ inst[i].cid # NoCid
      BY <1>1, <2>1
    <3> QED
      BY <2>1, <3>2, <3>3 DEF ExpHosts, SamePlace
  <2>4. CASE ExpCall
    <3>1. exp.pc = "loaded" /\ DeleteOk(exp.worker, exp.cid)
      BY <2>4 DEF ExpCall
    <3>2. exp'.pc = "called" /\ exp'.due = exp.due /\ exp'.id = exp.id
      BY <2>4, <1>t DEF ExpCall, ExpState
    <3>3. /\ exp.id \in Ids /\ exp.cid = inst[exp.id].cid
          /\ exp.cid # NoCid /\ exp.worker = inst[exp.id].worker
      BY <3>1 DEF IdsInv, ExpGenuine, LifeInv, ExpHosts
    <3>4. /\ exp.cid \in Cids /\ container[exp.cid].worker = exp.worker
          /\ Only(exp.id, exp.cid) /\ ~container[exp.cid].late
      BY <3>3, <1>t DEF HostsInv, EndpointGenuine, Arrived, InstanceRow,
                        LifeInv, NamedOnly
    <3>5. \A d \in Cids : d = exp.cid => ~Coming(d)'
      BY <3>1, <3>4, <1>t, DeleteEffect
    <3>6. \A b \in Cids : Coming(b)' /\ container'[b].id = exp.id
                          => b = NoCid
      BY <3>4, <3>5, <1>2
    <3>7. \A b \in Cids : Coming(b)' /\ container'[b].id = exp'.id
                          => b = NoCid
      BY <3>6, <3>2
    <3> QED
      BY <2>1, <3>2, <3>7 DEF ExpHosts, Only
  <2>5. CASE ExpCallError \/ ExpCommit \/ ExpRollback
    <3>1. exp'.pc = "next" /\ exp'.due = exp.due
      BY <2>5, <2>n DEF ExpCallError, ExpCommit, ExpRollback
    <3> QED
      BY <2>1, <3>1 DEF ExpHosts
  <2>6. CASE ExpDone \/ ExpCrash
    <3>1. exp'.pc = "idle" /\ exp'.due = {}
      BY <2>6, <2>n DEF ExpDone, ExpCrash
    <3> QED
      BY <3>1 DEF ExpHosts
  <2> QED
    BY <2>2, <2>3, <2>4, <2>5, <2>6 DEF ExpNext
<1> QED
  BY <1>4, <1>5, <1>6, <1>7, <1>8, <1>9, <1>10 DEF LifeInv

(* The clock and the agents leave the rows alone, and start for none of    *)
(* them what was not to come.                                              *)
LEMMA LifeStutter ==
    ASSUME LeaseTypeOK, HostsInv, LifeInv, UNCHANGED <<seq, inst, req, exp>>,
           NoneNew
    PROVE  HostsInv' /\ LifeInv'
<1>t. ApiTypeOK
  BY DEF LeaseTypeOK
<1>1. HostsInv'
  <2>1. AgentsMove /\ \A i \in Ids : SamePlace(i)
    BY DEF AgentsMove, SamePlace
  <2> QED
    BY <1>t, <2>1, HostsElsewhere
<1>2. ASSUME NEW i, NEW c, Only(i, c)
      PROVE  \A b \in Cids : Coming(b)' /\ container'[b].id = i => b = c
  BY <1>2 DEF NoneNew, Kept, Only
<1>3. ASSUME NEW r \in Requests
      PROVE  OwnOnly(r)'
  <2>1. OwnOnly(r) /\ req'[r] = req[r]
    BY DEF LifeInv
  <2> QED
    BY <2>1, <1>2 DEF OwnOnly, Only
<1>4. Drawn'
  BY DEF LifeInv, Drawn, NoneNew, Kept
<1>5. NamedOnly' /\ DeletedNone'
  <2>1. ASSUME NEW i \in Ids, inst[i].cid # NoCid
        PROVE  \A b \in Cids : Coming(b)' /\ container'[b].id = i => b = inst[i].cid
    <3>1. Only(i, inst[i].cid)
      BY <2>1 DEF LifeInv, NamedOnly
    <3> QED
      BY <3>1, <1>2
  <2>2. ASSUME NEW i \in Ids, inst[i].status = "deleted"
        PROVE  \A b \in Cids : Coming(b)' /\ container'[b].id = i => b = NoCid
    <3>1. Only(i, NoCid)
      BY <2>2 DEF LifeInv, DeletedNone
    <3> QED
      BY <3>1, <1>2
  <2>3. NamedOnly'
    BY <2>1 DEF NamedOnly, Only
  <2>4. DeletedNone'
    BY <2>2 DEF DeletedNone, Only
  <2> QED
    BY <2>3, <2>4
<1>6. RunningNamed' /\ Blank'
  BY DEF LifeInv, RunningNamed, Blank, Committed
<1>7. ExpHosts'
  BY <1>2 DEF LifeInv, ExpHosts, Only
<1> QED
  BY <1>1, <1>3, <1>4, <1>5, <1>6, <1>7 DEF LifeInv

(* Before the first step nothing runs and no row is written.               *)
LEMMA LifeInit ==
    ASSUME LeaseInit
    PROVE  LifeInv
<1>1. /\ \A i \in Ids : inst[i].cid = NoCid /\ inst[i].status = "absent"
      /\ \A r \in Requests : req[r].pc = "idle"
      /\ \A c \in Cids : ~Coming(c)
      /\ exp.due = {} /\ exp.pc = "idle"
  BY DEF LeaseInit, ApiInit, DbInit, AgentInit, ExpInit, NoInstance, NoContainer,
         Idle, ExpIdle, Coming
<1> QED
  BY <1>1 DEF LifeInv, Drawn, NamedOnly, RunningNamed, Blank, ExpHosts, OwnOnly,
              Only, DeletedNone


-----------------------------------------------------------------------------
ContainersInv == HostsInv /\ LifeInv

LEMMA ContainersInit == LeaseInit => ContainersInv
BY HostsInit, LifeInit DEF LeaseInit, ContainersInv

(* The steps of the lease keep what is known of the containers.            *)
LEMMA ContainersStep ==
    ASSUME LeaseInv, LeaseInv', ContainersInv, [LeaseNext]_leaseVars
    PROVE  ContainersInv'
<1>t. /\ LeaseTypeOK /\ LeaseTypeOK' /\ ApiTypeOK /\ DbTypeOK /\ AgentTypeOK
      /\ IdsInv /\ LeaseConsistent
  BY DEF LeaseInv, PairsInv, LeaseTypeOK, ApiTypeOK
<1>1. CASE ApiNext /\ UNCHANGED exp
  BY <1>1, <1>t, HostsApi, LifeApi DEF ContainersInv
<1>2. CASE ExpNext /\ UNCHANGED req
  <2>1. NoneNew /\ \A i \in Ids : SamePlace(i)
    BY <1>2, <1>t, ExpHosting
  <2>2. HostsInv'
    BY <1>2, <1>t, <2>1, HostsElsewhere DEF AgentsMove, ContainersInv
  <2> QED
    BY <1>2, <1>t, <2>2, LifeExp DEF ContainersInv
<1>3. CASE NoneNew /\ UNCHANGED <<seq, inst, req, exp>>
  BY <1>3, <1>t, LifeStutter DEF ContainersInv
<1>k. (UNCHANGED container) => NoneNew
  BY DEF NoneNew, Kept, Coming
<1>4. Tick /\ UNCHANGED <<container, req, exp>>
      => NoneNew /\ UNCHANGED <<seq, inst, req, exp>>
  BY <1>k DEF Tick
<1>5. AgentNext /\ UNCHANGED <<dbVars, req, exp>>
      => NoneNew /\ UNCHANGED <<seq, inst, req, exp>>
  BY <1>t, LateEffect DEF dbVars
<1>6. UNCHANGED leaseVars => NoneNew /\ UNCHANGED <<seq, inst, req, exp>>
  BY <1>k DEF leaseVars, apiVars, dbVars
<1> QED
  BY <1>1, <1>2, <1>3, <1>4, <1>5, <1>6 DEF LeaseNext

LEMMA ContainersHold == LeaseSafety => [](LeaseInv /\ ContainersInv)
<1>1. LeaseInit => LeaseInv /\ ContainersInv
  BY LeaseInitInv, ContainersInit
<1>2. LeaseInv /\ ContainersInv /\ [LeaseNext]_leaseVars
        => (LeaseInv /\ ContainersInv)'
  BY LeaseInvStep, ContainersStep
<1> QED
  BY <1>1, <1>2, PTL DEF LeaseSafety

(* "on ne prétend pas que le conteneur a été supprimé"                     *)
(* (expiration_manager.py:57): whatever fails, and whatever the requests   *)
(* do meanwhile, no container runs for an instance that the expiration     *)
(* worker has called deleted, not even one that came late.                 *)
THEOREM DeletedStaysGone == LeaseSafety => []DeletedMeansGone
<1>1. ContainersInv => DeletedMeansGone
  <2>1. NoCid \notin Cids
    BY BoundsAssumption DEF Cids, NoCid
  <2> QED
    BY <2>1 DEF ContainersInv, LifeInv, DeletedNone, Only, Coming,
                DeletedMeansGone
<1> QED
  BY <1>1, ContainersHold, PTL
=============================================================================
