--------------------------------- MODULE Agent ---------------------------------
(***************************************************************************)
(* The agents (docker/agent/agent_real.py) as the controller meets them    *)
(* through app/agent_client.py.  A container id is never given twice; a    *)
(* removed container keeps its record with live = FALSE, and one that is   *)
(* late is still to be started.                                            *)
(*                                                                         *)
(* Any call may end in AgentError: the agent was not reached, answered an  *)
(* error, did the work and the answer was lost, or goes on with it after   *)
(* AGENT_TIMEOUT, when the caller has gone on too.                         *)
(***************************************************************************)
EXTENDS Database

VARIABLE container

Container   == [live : BOOLEAN, late : BOOLEAN, worker : Workers \cup {None},
                port : Ports \cup {NoPort}, id : Ids \cup {NoId}]
NoContainer == [live |-> FALSE, late |-> FALSE, worker |-> None,
                port |-> NoPort, id |-> NoId]

AgentTypeOK == container \in [Cids -> Container]

AgentInit == container = [c \in Cids |-> NoContainer]

(* The id Docker gives to the next container.                              *)
FreshCid(c) == /\ container[c] = NoContainer
               /\ \A b \in Cids : b < c => container[b] # NoContainer

(* A live container other than the one of the same name, which names the   *)
(* instance and the port, holds the host port.                             *)
PortTaken(w, i, p) == \E c \in Cids : /\ container[c].live
                                      /\ container[c].worker = w
                                      /\ container[c].port = p
                                      /\ container[c].id # i

(* create_container of the agent removes the container of the same name,   *)
Cleared(w, i, p) ==
    [b \in Cids |->
        IF /\ container[b].worker = w
           /\ container[b].port = p
           /\ container[b].id = i
        THEN [container[b] EXCEPT !.live = FALSE]
        ELSE container[b]]

(* then runs one under a new id.                                           *)
Started(w, i, p, c) ==
    [Cleared(w, i, p) EXCEPT ![c] = [live |-> TRUE, late |-> FALSE,
                                     worker |-> w, port |-> p, id |-> i]]

CreateOk(w, i, p, c) == /\ p # NoPort              \* int(None) raises
                        /\ ~PortTaken(w, i, p)
                        /\ FreshCid(c)
                        /\ container' = Started(w, i, p, c)

(* The agent goes on (it builds the image first): the container is to come.*)
CreateLate(w, i, p, c) ==
    /\ p # NoPort
    /\ FreshCid(c)
    /\ container' = [container EXCEPT ![c] = [live |-> FALSE, late |-> TRUE,
                                             worker |-> w, port |-> p, id |-> i]]

(* AgentError: nothing was done, the container of the same name was        *)
(* removed and the new one failed, the answer was lost, or the agent goes  *)
(* on.                                                                     *)
CreateError(w, i, p) ==
    \/ UNCHANGED container
    \/ p # NoPort /\ container' = Cleared(w, i, p)
    \/ \E c \in Cids : CreateOk(w, i, p, c) \/ CreateLate(w, i, p, c)

(* An agent comes to the end of a creation that nobody waits for.          *)
LateCreation(c) ==
    /\ container[c].late
    /\ LET w == container[c].worker
           i == container[c].id
           p == container[c].port
       IN  container' = IF PortTaken(w, i, p)
                        THEN [Cleared(w, i, p) EXCEPT ![c].late = FALSE]
                        ELSE Started(w, i, p, c)

AgentNext == \E c \in Cids : LateCreation(c)

(* delete_container of the agent: unknown ids are answered 204 too.        *)
Removed(w, c) ==
    [b \in Cids |-> IF b = c /\ container[b].worker = w
                    THEN [container[b] EXCEPT !.live = FALSE]
                    ELSE container[b]]

DeleteOk(w, c) == container' = Removed(w, c)

DeleteError(w, c) == UNCHANGED container \/ container' = Removed(w, c)
=============================================================================
