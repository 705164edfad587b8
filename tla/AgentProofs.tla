------------------------------- MODULE AgentProofs -------------------------------
(***************************************************************************)
(* What the resource manager and the agents give back, for every value of  *)
(* the constants.                                                          *)
(***************************************************************************)
EXTENDS ResourceManager, Agent, FiniteSetTheorems, TLAPS

(* The resource manager returns workers, and ports of the reserved range:  *)
(* neither of them is the NoPort of a failed search.                       *)
LEMMA SelectionTypes ==
    ASSUME NEW rows
    PROVE  /\ SelectWorker(rows) \subseteq Workers
           /\ PickFreeSshPort(rows) \subseteq Ports
           /\ NoPort \notin Ports
BY PortsAssumption DEF SelectWorker, Eligible, PickFreeSshPort, FreePorts,
                       Ports, NoPort

(* Counting the instances of a worker gives a number.                      *)
LEMMA CountType ==
    ASSUME NEW rows, NEW w
    PROVE  /\ IsFiniteSet(ActiveOn(rows, w))
           /\ ActiveCount(rows, w) \in Nat
<1>1. IsFiniteSet(Ids)
  BY FS_Interval, BoundsAssumption DEF Ids
<1>2. ActiveOn(rows, w) \subseteq Ids
  BY DEF ActiveOn
<1> QED
  BY <1>1, <1>2, FS_Subset, FS_CardinalityType DEF ActiveCount

(* A container that an agent starts, now or later, is a container.         *)
LEMMA StartedType ==
    ASSUME AgentTypeOK, NEW w \in Workers \cup {None}, NEW i \in Ids \cup {NoId},
           NEW p \in Ports \cup {NoPort}
    PROVE  /\ Cleared(w, i, p) \in [Cids -> Container]
           /\ \A c \in Cids : Started(w, i, p, c) \in [Cids -> Container]
           /\ \A c \in Cids : CreateLate(w, i, p, c) => AgentTypeOK'
<1>1. Cleared(w, i, p) \in [Cids -> Container]
  BY DEF AgentTypeOK, Cleared, Container
<1>2. \A c \in Cids : Started(w, i, p, c) \in [Cids -> Container]
  BY <1>1 DEF Started, Container
<1>3. \A c \in Cids : CreateLate(w, i, p, c) => AgentTypeOK'
  BY DEF AgentTypeOK, CreateLate, Container
<1> QED
  BY <1>1, <1>2, <1>3

(* A container that an agent removes is a container still.                 *)
LEMMA RemovedType ==
    ASSUME AgentTypeOK, NEW w, NEW c
    PROVE  Removed(w, c) \in [Cids -> Container]
BY DEF AgentTypeOK, Removed, Container

(* The calls to an agent, answered or not, leave containers.               *)
LEMMA CreateType ==
    ASSUME AgentTypeOK, NEW w \in Workers \cup {None}, NEW i \in Ids \cup {NoId},
           NEW p \in Ports \cup {NoPort},
           \/ \E c \in Cids : CreateOk(w, i, p, c)
           \/ CreateError(w, i, p)
    PROVE  AgentTypeOK'
<1>1. ASSUME NEW c \in Cids, CreateOk(w, i, p, c)
      PROVE  AgentTypeOK'
  BY <1>1, StartedType DEF CreateOk, AgentTypeOK
<1>2. CASE UNCHANGED container
  BY <1>2 DEF AgentTypeOK
<1>3. CASE container' = Cleared(w, i, p)
  BY <1>3, StartedType DEF AgentTypeOK
<1> QED
  BY <1>1, <1>2, <1>3, StartedType DEF CreateError

(* And so does what an agent does when nobody waits any more.              *)
LEMMA LateType ==
    ASSUME AgentTypeOK, AgentNext
    PROVE  AgentTypeOK'
<1>1. PICK c \in Cids : LateCreation(c)
  BY DEF AgentNext
<1> DEFINE w == container[c].worker
           i == container[c].id
           p == container[c].port
<1>2. /\ w \in Workers \cup {None} /\ i \in Ids \cup {NoId}
      /\ p \in Ports \cup {NoPort}
  BY DEF AgentTypeOK, Container
<1>3. CASE container' = Started(w, i, p, c)
  BY <1>2, <1>3, StartedType DEF AgentTypeOK
<1>4. CASE container' = [Cleared(w, i, p) EXCEPT ![c].late = FALSE]
  <2>1. Cleared(w, i, p) \in [Cids -> Container]
    BY <1>2, StartedType
  <2> QED
    BY <1>4, <2>1 DEF AgentTypeOK, Container
<1> QED
  BY <1>1, <1>3, <1>4 DEF LateCreation

(* So do the deletions.                                                    *)
LEMMA DeleteType ==
    ASSUME AgentTypeOK, NEW w, NEW c, DeleteOk(w, c) \/ DeleteError(w, c)
    PROVE  AgentTypeOK'
<1>1. CASE container' = Removed(w, c)
  BY <1>1, RemovedType DEF AgentTypeOK
<1>2. CASE UNCHANGED container
  BY <1>2 DEF AgentTypeOK
<1> QED
  BY <1>1, <1>2 DEF DeleteOk, DeleteError

-----------------------------------------------------------------------------
(* What the calls to the agents do.  A container that runs, or is still to *)
(* come, keeps its worker, its port and its instance; one that ran, or     *)
(* failed to, does not come back.                                          *)
Coming(c) == container[c].live \/ container[c].late

Kept(b) == /\ container'[b].id = container[b].id
           /\ container'[b].worker = container[b].worker
           /\ container'[b].port = container[b].port
           /\ container'[b].late => container[b].late
           /\ Coming(b)' => Coming(b)

NoneNew == \A b \in Cids : Kept(b)

(* One container more, which runs or is to come.                           *)
NewContainer(w, i, p, c) ==
    /\ container[c] = NoContainer
    /\ container'[c].worker = w /\ container'[c].port = p /\ container'[c].id = i
    /\ \A b \in Cids \ {c} : Kept(b)

(* An agent that clears a name makes nothing new, one that starts a        *)
(* container starts one.                                                   *)
LEMMA StartEffect ==
    ASSUME AgentTypeOK, NEW w, NEW i, NEW p
    PROVE  /\ container' = Cleared(w, i, p) => NoneNew
           /\ \A c \in Cids : CreateOk(w, i, p, c) =>
                 NewContainer(w, i, p, c) /\ ~container'[c].late
           /\ \A c \in Cids : CreateLate(w, i, p, c) => NewContainer(w, i, p, c)
<1>t. container \in [Cids -> Container]
  BY DEF AgentTypeOK
<1>1. container' = Cleared(w, i, p) => NoneNew
  BY <1>t DEF Cleared, NoneNew, Kept, Coming, Container
<1>2. ASSUME NEW c \in Cids, CreateOk(w, i, p, c)
      PROVE  NewContainer(w, i, p, c) /\ ~container'[c].late
  <2>1. /\ container' = Started(w, i, p, c)
        /\ container[c] = NoContainer
    BY <1>2 DEF CreateOk, FreshCid
  <2>2. container'[c] = [live |-> TRUE, late |-> FALSE, worker |-> w,
                         port |-> p, id |-> i]
    BY <2>1 DEF Started, Cleared
  <2>3. ASSUME NEW b \in Cids \ {c}
        PROVE  Kept(b)
    BY <1>t, <2>1 DEF Started, Cleared, Kept, Coming, Container
  <2> QED
    BY <2>1, <2>2, <2>3 DEF NewContainer
<1>3. ASSUME NEW c \in Cids, CreateLate(w, i, p, c)
      PROVE  NewContainer(w, i, p, c)
  BY <1>t, <1>3 DEF CreateLate, FreshCid, NewContainer, Kept, Coming
<1> QED
  BY <1>1, <1>2, <1>3

(* A creation without an answer has made a container or none.              *)
LEMMA CreateErrorEffect ==
    ASSUME AgentTypeOK, NEW w, NEW i, NEW p, CreateError(w, i, p)
    PROVE  NoneNew \/ \E c \in Cids : NewContainer(w, i, p, c)
<1>1. UNCHANGED container => NoneNew
  BY DEF NoneNew, Kept, Coming
<1> QED
  BY <1>1, StartEffect DEF CreateError

(* A creation that nobody waits for ends with its own container.           *)
LEMMA LateEffect ==
    ASSUME AgentTypeOK, AgentNext
    PROVE  NoneNew
<1>1. PICK c \in Cids : LateCreation(c)
  BY DEF AgentNext
<1>t. container \in [Cids -> Container] /\ container[c].late
  BY <1>1 DEF AgentTypeOK, LateCreation
<1> DEFINE w == container[c].worker
           i == container[c].id
           p == container[c].port
<1>2. CASE container' = Started(w, i, p, c)
  <2>1. ASSUME NEW b \in Cids \ {c}
        PROVE  Kept(b)
    BY <1>t, <1>2 DEF Started, Cleared, Kept, Coming, Container
  <2>2. container'[c] = [live |-> TRUE, late |-> FALSE, worker |-> w,
                         port |-> p, id |-> i]
    BY <1>2 DEF Started, Cleared
  <2>3. Kept(c)
    BY <1>t, <2>2 DEF Kept, Coming
  <2> QED
    BY <2>1, <2>3 DEF NoneNew
<1>3. CASE container' = [Cleared(w, i, p) EXCEPT ![c].late = FALSE]
  BY <1>t, <1>3 DEF Cleared, NoneNew, Kept, Coming, Container
<1> QED
  BY <1>1, <1>2, <1>3 DEF LateCreation

(* A deletion makes nothing new; when it is answered, the container does   *)
(* not run, and does not come if it was not late.                          *)
LEMMA DeleteEffect ==
    ASSUME AgentTypeOK, NEW w, NEW c, DeleteOk(w, c) \/ DeleteError(w, c)
    PROVE  /\ NoneNew
           /\ /\ DeleteOk(w, c)
              /\ c \in Cids /\ container[c].worker = w /\ ~container[c].late
              => ~Coming(c)'
<1>t. container \in [Cids -> Container]
  BY DEF AgentTypeOK
<1>1. CASE container' = Removed(w, c)
  BY <1>t, <1>1 DEF Removed, Container, NoneNew, Kept, Coming
<1>2. CASE UNCHANGED container
  <2>1. DeleteOk(w, c) => container' = Removed(w, c)
    BY DEF DeleteOk
  <2> QED
    BY <1>1, <1>2, <2>1 DEF NoneNew, Kept, Coming
<1> QED
  BY <1>1, <1>2 DEF DeleteOk, DeleteError
=============================================================================
