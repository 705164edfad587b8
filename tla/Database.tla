------------------------------- MODULE Database -------------------------------
(***************************************************************************)
(* The PostgreSQL rows the processes of Shellter share (app/models.py).    *)
(* The database runs at READ COMMITTED, so the variables hold COMMITTED    *)
(* rows: what a process has flushed and not committed stays in the record  *)
(* of that process.  Objects loaded by SQLAlchemy keep the values they     *)
(* were loaded with until the process commits or rolls back, which is why  *)
(* the processes' records carry loaded values.                             *)
(*                                                                         *)
(* Every instance has exactly one rental (only rent() inserts them, one of *)
(* each), so rentals are indexed by the id of their instance.              *)
(***************************************************************************)
EXTENDS Integers, FiniteSets

CONSTANTS
    Workers,        \* hosts that run an agent
    Seeded,         \* the workers the deployment inserts before it starts
    Users,          \* accounts
    None,           \* SQL NULL / Python None
    MaxId,          \* bound: instance ids the sequence may give out
    MaxContainers,  \* bound: containers the agents may ever start
    Quota,          \* users.max_instances
    Capacity,       \* workers.max_instances
    SSH_PORT_START, SSH_PORT_END,   \* host ports reserved for ssh
    Durations,      \* ALLOWED_DURATIONS_MINUTES, in units of half an hour
    MaxNow,         \* bound: the clock stops there
    MaxEnd          \* bound: no end_time beyond it

ASSUME WorkersAssumption == /\ IsFiniteSet(Workers)
                            /\ Seeded \subseteq Workers
                            /\ None \notin Workers \cup Users
ASSUME BoundsAssumption == MaxId \in Nat /\ MaxContainers \in Nat
                           /\ MaxNow \in Nat /\ MaxEnd \in Nat
ASSUME QuotaAssumption == Quota \in Nat
ASSUME CapacityAssumption == Capacity \in Nat
ASSUME PortsAssumption == /\ SSH_PORT_START \in Nat \ {0}
                          /\ SSH_PORT_END \in Nat
ASSUME DurationsAssumption == Durations \subseteq Nat

VARIABLES
    now,        \* the clock all hosts share
    seq,        \* last value of the id sequence: a rolled back id is not reused
    worker,     \* workers row of each host, "absent" before it is registered
    inst,       \* instances row of each id, "absent" until committed
    rental,     \* rentals row of the instance of that id
    locked      \* ids whose rows an uncommitted UPDATE has locked

dbVars == <<now, seq, worker, inst, rental, locked>>

Ids    == 1..MaxId
Cids   == 1..MaxContainers
Ports  == SSH_PORT_START..SSH_PORT_END
Times  == 0..MaxEnd
NoId   == 0
NoCid  == 0
NoPort == 0

WorkerStatus   == {"AVAILABLE", "BUSY", "OFFLINE"}
InstanceStatus == {"pending", "creating", "running", "recovering",
                   "stopped", "deleted", "error"}
RentalStatus   == {"ACTIVE", "EXPIRED", "CANCELLED"}

WorkerRow   == [status : WorkerStatus \cup {"absent"}, fresh : BOOLEAN]
InstanceRow == [status : InstanceStatus \cup {"absent"},
                worker : Workers \cup {None},
                port   : Ports \cup {NoPort},
                cid    : Cids \cup {NoCid}]
RentalRow   == [status : RentalStatus \cup {"absent"},
                user   : Users \cup {None},
                end    : Times]

NoInstance == [status |-> "absent", worker |-> None, port |-> NoPort,
               cid |-> NoCid]
NoRental   == [status |-> "absent", user |-> None, end |-> 0]

DbTypeOK == /\ now \in 0..MaxNow
            /\ seq \in 0..MaxId
            /\ worker \in [Workers -> WorkerRow]
            /\ inst \in [Ids -> InstanceRow]
            /\ rental \in [Ids -> RentalRow]
            /\ locked \subseteq Ids

-----------------------------------------------------------------------------
(* docker/start.py has waited for the database and seeded the workers.     *)
DbInit ==
    /\ now = 0
    /\ seq = 0
    /\ worker = [w \in Workers |->
                   [status |-> IF w \in Seeded THEN "AVAILABLE" ELSE "absent",
                    fresh  |-> w \in Seeded]]
    /\ inst = [i \in Ids |-> NoInstance]
    /\ rental = [i \in Ids |-> NoRental]
    /\ locked = {}

(* The clock of the hosts; nothing in the code waits for it.               *)
Tick == /\ now < MaxNow
        /\ now' = now + 1
        /\ UNCHANGED <<seq, worker, inst, rental, locked>>

-----------------------------------------------------------------------------
Committed(i) == inst[i].status # "absent"

(* The rental of an instance is a live claim of its user.                  *)
ActiveRental(i) == rental[i].status = "ACTIVE"

ActiveRentals(u) == {i \in Ids : ActiveRental(i) /\ rental[i].user = u}

(* _owned_by: one of the rentals of the instance is this user's.           *)
OwnedBy(i, u) == rental[i].user = u

Due(i) == ActiveRental(i) /\ rental[i].end <= now
=============================================================================
