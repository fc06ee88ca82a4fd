--------------------------- MODULE AgentRegistry ---------------------------
(***************************************************************************)
(* The rows of the agents table and the connections that keep them: the    *)
(* lookup by UUID or by name, the create, the two updates and the key in   *)
(* HandleAgentWS (api/internal/relay/hub.go), POST and DELETE /api/agents  *)
(* (api/internal/handlers/agents.go), and what the public page endpoint    *)
(* hands to browsers (api/cmd/server/main.go).                             *)
(*                                                                         *)
(* Every statement is an action of its own: the code has no transaction.   *)
(* A statement may fail.  Handlers and row ids are reused when nothing     *)
(* refers to them any more, so behaviours are not bounded; the database    *)
(* never gives out an id twice, and nobody can tell.                       *)
(* Between Register and Cleanup a connection is RelayHub's.                *)
(***************************************************************************)
EXTENDS FiniteSets

CONSTANTS
  Dials,   \* what an agent may connect with: its token's user, name, UUID
  Conns,   \* goroutines of HandleAgentWS
  RowIds,  \* agents.id
  None     \* no row, no dial, no connection, no key

(* A dial also stands for the X25519 key the agent sends: it is created    *)
(* together with the UUID, and an agent that has none is refused.          *)
Users == {d.user : d \in Dials}
Names == {d.name : d \in Dials}
Uuids == {d.uuid : d \in Dials}

RowValues == [user : Users, name : Names, uuid : Uuids, key : Dials \cup {None}]

ASSUME RegistryAssumption ==
  /\ \A d \in Dials : d \in [user : Users, name : Names, uuid : Uuids]
  /\ None \notin Conns /\ None \notin RowIds
  /\ None \notin Dials /\ None \notin RowValues

VARIABLES
  rows,      \* the agents table
  hub,       \* Hub.agents
  pc,        \* where a goroutine of HandleAgentWS is
  dial,      \* the parameters of its request
  row,       \* agent.DBId, once a row is found or created
  orphaned,  \* history: connections whose UUID was deleted under them
  alone      \* history: connections that nothing has overlapped or failed

vars == <<rows, hub, pc, dial, row, orphaned, alone>>

Steps == {"none", "byUuid", "byName", "create", "setUuid", "rename",
          "storeKey", "accept", "reading"}

InFlight(c) == pc[c] \notin {"none", "reading"}

Init ==
  /\ rows = [i \in RowIds |-> None]
  /\ hub  = [x \in Uuids |-> None]
  /\ pc   = [c \in Conns |-> "none"]
  /\ dial = [c \in Conns |-> None]
  /\ row  = [c \in Conns |-> None]
  /\ orphaned = {} /\ alone = {}

Exists(i) == rows[i] # None

(* idx_agents_uuid and idx_agents_user_name: may row i hold these values?  *)
Admissible(i, user, name, uuid) ==
  \A j \in RowIds \ {i} :
    Exists(j) => rows[j].uuid # uuid /\ ~(rows[j].user = user /\ rows[j].name = name)

FreshId(i) == ~Exists(i) /\ \A c \in Conns : row[c] # i

(* The statements of storage.DB.  A unique violation is an error, and so   *)
(* is what the callers of these make of any other failure.                 *)
GetAgentByUUID(uuid) == {i \in RowIds : Exists(i) /\ rows[i].uuid = uuid}

GetAgentByUserAndName(user, name) ==
  {i \in RowIds : Exists(i) /\ rows[i].user = user /\ rows[i].name = name}

ListAgents(user) == {i \in RowIds : Exists(i) /\ rows[i].user = user}

CreateAgent(i, d) ==
  /\ FreshId(i) /\ Admissible(i, d.user, d.name, d.uuid)
  /\ rows' = [rows EXCEPT ![i] =
       [user |-> d.user, name |-> d.name, uuid |-> d.uuid, key |-> None]]

UpdateAgentUUID(i, uuid) ==
  /\ Exists(i) /\ Admissible(i, rows[i].user, rows[i].name, uuid)
  /\ rows' = [rows EXCEPT ![i].uuid = uuid]

UpdateAgentName(i, name) ==
  /\ Admissible(i, rows[i].user, name, rows[i].uuid)
  /\ rows' = [rows EXCEPT ![i].name = name]

UpdateAgentX25519PubKey(i, key) ==
  /\ Exists(i)
  /\ rows' = [rows EXCEPT ![i].key = key]

DeleteAgent(i) == rows' = [rows EXCEPT ![i] = None]

(* Only one handler at a time stays alone, and only while all goes well.   *)
Disturb == alone' = {}
Failure(c) == alone' = alone \ {c}

Goto(c, step) == pc' = [pc EXCEPT ![c] = step]

(* The end of a request that is refused, or of a connection.               *)
Leave(c) ==
  /\ Goto(c, "none")
  /\ dial' = [dial EXCEPT ![c] = None]
  /\ row'  = [row EXCEPT ![c] = None]
  /\ orphaned' = orphaned \ {c}
  /\ alone' = alone \ {c}

-----------------------------------------------------------------------------
(* HandleAgentWS.                                                          *)

(* GET /ws/agent with a valid token.                                       *)
Connect(c, d) ==
  /\ pc[c] = "none"
  /\ Goto(c, "byUuid")
  /\ dial' = [dial EXCEPT ![c] = d]
  /\ alone' = IF \E e \in Conns : InFlight(e) THEN {} ELSE {c}
  /\ UNCHANGED <<rows, hub, row, orphaned>>

(* Mutant: the owner of the row that has the UUID is not compared.         *)
FindByUuidAnyOwner(c) ==
  /\ pc[c] = "byUuid"
  /\ \/ \E i \in GetAgentByUUID(dial[c].uuid) :
          /\ Goto(c, IF rows[i].name # dial[c].name THEN "rename" ELSE "storeKey")
          /\ row' = [row EXCEPT ![c] = i]
          /\ UNCHANGED <<dial, orphaned, alone>>
     \/ /\ GetAgentByUUID(dial[c].uuid) = {}
        /\ Goto(c, "byName")
        /\ UNCHANGED <<dial, row, orphaned, alone>>
     \/ Goto(c, "byName") /\ Failure(c) /\ UNCHANGED <<dial, row, orphaned>>
  /\ UNCHANGED <<rows, hub>>

(* GetAgentByUUID.  Another user's row is a 404; no row and a failed query *)
(* are the same to the code.                                               *)
FindByUuid(c) ==
  /\ pc[c] = "byUuid"
  /\ \/ \E i \in GetAgentByUUID(dial[c].uuid) :
          IF rows[i].user # dial[c].user
            THEN Leave(c)
            ELSE /\ Goto(c, IF rows[i].name # dial[c].name THEN "rename" ELSE "storeKey")
                 /\ row' = [row EXCEPT ![c] = i]
                 /\ UNCHANGED <<dial, orphaned, alone>>
     \/ /\ GetAgentByUUID(dial[c].uuid) = {}
        /\ Goto(c, "byName")
        /\ UNCHANGED <<dial, row, orphaned, alone>>
     \/ Goto(c, "byName") /\ Failure(c) /\ UNCHANGED <<dial, row, orphaned>>
  /\ UNCHANGED <<rows, hub>>

(* GetAgentByUserAndName: a row with another UUID is taken over.           *)
FindByName(c) ==
  /\ pc[c] = "byName"
  /\ \/ \E i \in GetAgentByUserAndName(dial[c].user, dial[c].name) :
          /\ Goto(c, IF rows[i].uuid # dial[c].uuid THEN "setUuid" ELSE "storeKey")
          /\ row' = [row EXCEPT ![c] = i]
          /\ UNCHANGED alone
     \/ /\ GetAgentByUserAndName(dial[c].user, dial[c].name) = {}
        /\ Goto(c, "create")
        /\ UNCHANGED <<row, alone>>
     \/ Goto(c, "create") /\ Failure(c) /\ UNCHANGED row
  /\ UNCHANGED <<rows, hub, dial, orphaned>>

(* Mutant: the error of CreateAgent is dropped like those of the updates.  *)
CreateUnchecked(c) ==
  /\ pc[c] = "create"
  /\ Goto(c, "storeKey")
  /\ \/ \E i \in RowIds :
          /\ CreateAgent(i, dial[c])
          /\ row' = [row EXCEPT ![c] = i]
          /\ UNCHANGED alone
     \/ Failure(c) /\ UNCHANGED <<rows, row>>
  /\ UNCHANGED <<hub, dial, orphaned>>

(* CreateAgent; a taken UUID or name, or a failure, is a 500.              *)
Create(c) ==
  /\ pc[c] = "create"
  /\ \/ \E i \in RowIds :
          /\ CreateAgent(i, dial[c])
          /\ Goto(c, "storeKey")
          /\ row' = [row EXCEPT ![c] = i]
          /\ UNCHANGED <<dial, orphaned, alone>>
     \/ Leave(c) /\ UNCHANGED rows
  /\ UNCHANGED hub

(* Mutants: the UUID is not stored; the update is by user, not by row.     *)
SetUuidForgotten(c) ==
  /\ pc[c] = "setUuid"
  /\ Goto(c, "storeKey")
  /\ UNCHANGED <<rows, hub, dial, row, orphaned, alone>>

SetUuidOfAnyAgent(c) ==
  /\ pc[c] = "setUuid"
  /\ Goto(c, "storeKey")
  /\ \/ /\ \E i \in ListAgents(dial[c].user) : UpdateAgentUUID(i, dial[c].uuid)
        /\ UNCHANGED alone
     \/ Failure(c) /\ UNCHANGED rows
  /\ UNCHANGED <<hub, dial, row, orphaned>>

(* UpdateAgentUUID WHERE id; its error is dropped and the connection goes  *)
(* on under the UUID it asked for.                                         *)
SetUuid(c) ==
  /\ pc[c] = "setUuid"
  /\ Goto(c, "storeKey")
  /\ \/ UpdateAgentUUID(row[c], dial[c].uuid) /\ UNCHANGED alone
     \/ Failure(c) /\ UNCHANGED rows
  /\ UNCHANGED <<hub, dial, row, orphaned>>

(* UpdateAgentName WHERE uuid, whichever row has it by now; its error is   *)
(* dropped.  A name that another agent of the user has stays with it.      *)
Rename(c) ==
  /\ pc[c] = "rename"
  /\ Goto(c, "storeKey")
  /\ \/ \E i \in GetAgentByUUID(dial[c].uuid) : UpdateAgentName(i, dial[c].name)
     \/ UNCHANGED rows
  /\ UNCHANGED <<hub, dial, row, orphaned, alone>>

(* UpdateAgentX25519PubKey WHERE id; an error is only logged.              *)
StoreKey(c) ==
  /\ pc[c] = "storeKey"
  /\ Goto(c, "accept")
  /\ \/ UpdateAgentX25519PubKey(row[c], dial[c]) /\ UNCHANGED alone
     \/ Failure(c) /\ UNCHANGED rows
  /\ UNCHANGED <<hub, dial, row, orphaned>>

(* The socket is accepted and becomes the entry of the UUID.               *)
Register(c) ==
  /\ pc[c] = "accept"
  /\ Goto(c, "reading")
  /\ hub' = [hub EXCEPT ![dial[c].uuid] = c]
  /\ row' = [row EXCEPT ![c] = None]
  /\ UNCHANGED <<rows, dial, orphaned, alone>>

AcceptFail(c) ==
  /\ pc[c] = "accept"
  /\ Leave(c)
  /\ UNCHANGED <<rows, hub>>

(* The read loop has ended: the entry goes, whoever's it is.               *)
Cleanup(c) ==
  /\ pc[c] = "reading"
  /\ hub' = [hub EXCEPT ![dial[c].uuid] = None]
  /\ Goto(c, "none")
  /\ dial' = [dial EXCEPT ![c] = None]
  /\ orphaned' = orphaned \ {c}
  /\ Disturb
  /\ UNCHANGED <<rows, row>>

-----------------------------------------------------------------------------
(* The dashboard's endpoints.                                              *)

(* POST /api/agents: a row without a connection; a conflict is an error.   *)
Post(d) ==
  /\ \E i \in RowIds : CreateAgent(i, d)
  /\ Disturb
  /\ UNCHANGED <<hub, pc, dial, row, orphaned>>

(* DELETE /api/agents/{id}: the connection is left alone, and so is the    *)
(* hub's entry.                                                            *)
Delete(user, uuid) ==
  /\ \E i \in GetAgentByUUID(uuid) : rows[i].user = user /\ DeleteAgent(i)
  /\ orphaned' = orphaned \cup {c \in Conns : pc[c] # "none" /\ dial[c].uuid = uuid}
  /\ Disturb
  /\ UNCHANGED <<hub, pc, dial, row>>

(* GET /api/public-page/{username}/{slug}: the UUID and the key of any     *)
(* online agent of the user (the first in the list) that has a key.        *)
Discoverable(user) ==
  {<<rows[i].uuid, rows[i].key>> : i \in
     {j \in ListAgents(user) : hub[rows[j].uuid] # None /\ rows[j].key # None}}

(* RelayHandler.Relay and the relay of a public page look for this row.    *)
Known(user, uuid) ==
  \E i \in GetAgentByUUID(uuid) : rows[i].user = user

ConnStep(c) ==
  \/ \E d \in Dials : Connect(c, d)
  \/ FindByUuid(c)
  \/ FindByName(c)
  \/ Create(c)
  \/ SetUuid(c)
  \/ Rename(c)
  \/ StoreKey(c)
  \/ Register(c)
  \/ AcceptFail(c)
  \/ Cleanup(c)

Next ==
  \/ \E c \in Conns : ConnStep(c)
  \/ \E d \in Dials : Post(d)
  \/ \E d \in Dials : Delete(d.user, d.uuid)

Spec == Init /\ [][Next]_vars

-----------------------------------------------------------------------------
(* Types.                                                                  *)
TypeOK ==
  /\ rows \in [RowIds -> RowValues \cup {None}]
  /\ hub  \in [Uuids -> Conns \cup {None}]
  /\ pc   \in [Conns -> Steps]
  /\ dial \in [Conns -> Dials \cup {None}]
  /\ row  \in [Conns -> RowIds \cup {None}]
  /\ orphaned \subseteq Conns /\ alone \subseteq Conns
  /\ \A c \in Conns : pc[c] # "none" => dial[c] # None
  /\ \A c \in Conns : (pc[c] \in {"setUuid", "rename", "storeKey"}) => row[c] # None

(* A row holds no key but its own user's: the row a handler stores its key *)
(* in was checked statements earlier, and may have been deleted, renamed   *)
(* or given another UUID since.                                            *)
KeysStayWithOwner ==
  \A i \in RowIds :
    Exists(i) /\ rows[i].key # None => rows[i].key.user = rows[i].user

(* An agent that connects for one user only and whose names no other agent *)
(* that was ever run for that user goes by.                                *)
AgentsOf(user) == {d.uuid : d \in {e \in Dials : e.user = user}}
NamesOf(uuid)  == {d.name : d \in {e \in Dials : e.uuid = uuid}}

Exclusive(d) ==
  /\ \A e \in Dials : e.uuid = d.uuid => e.user = d.user
  /\ \A uuid \in AgentsOf(d.user) \ {d.uuid} : NamesOf(uuid) \cap NamesOf(d.uuid) = {}

(* A connected agent can be reached: the hub serves its UUID only for as   *)
(* long as a row of its user has it, unless the user deleted the row while *)
(* it was connecting or connected.  Lookups, creates and updates may fail  *)
(* and handlers of the agent and of others may overlap; agents that share  *)
(* a name are excepted, see ConnectedAgentsStayKnown.                      *)
ExclusiveAgentsAreKnown ==
  \A c \in Conns :
    pc[c] = "reading" /\ Exclusive(dial[c]) /\ c \notin orphaned
      => Known(dial[c].user, dial[c].uuid)

(* A connection that nothing overlapped and whose statements succeeded is  *)
(* discoverable with its own key, whatever rows and connections it found:  *)
(* none, its own, one with an older name or an older UUID.                 *)
UndisturbedIsDiscoverable ==
  \A c \in alone :
    pc[c] = "reading" =>
      \E d \in Dials :
        /\ d.uuid = dial[c].uuid /\ d.user = dial[c].user
        /\ <<dial[c].uuid, d>> \in Discoverable(dial[c].user)

(* "UUID makes them distinct. Server can now differentiate by UUID even if *)
(* names collide": connecting one agent does not make another connected    *)
(* agent unreachable, whatever their names.                                *)
ConnectedAgentsStayKnown ==
  [][\A c \in Conns :
       pc[c] = "reading" /\ Known(dial[c].user, dial[c].uuid)
         => (pc'[c] = "reading" /\ c \notin orphaned' => Known(dial[c].user, dial[c].uuid)')]_vars

-----------------------------------------------------------------------------
(* The inductive invariant behind KeysStayWithOwner and                    *)
(* ExclusiveAgentsAreKnown.  The row a handler holds is its user's.        *)
HeldRows ==
  \A c \in Conns :
    row[c] # None =>
      /\ pc[c] \in {"setUuid", "rename", "storeKey", "accept"}
      /\ Exists(row[c]) => rows[row[c]].user = dial[c].user

(* A row has the UUID of an agent of its user; an exclusive agent's row is *)
(* its user's, under one of its names, and rows of those names are its own.*)
RightfulRow(user, name, uuid) ==
  /\ uuid \in AgentsOf(user)
  /\ \A d \in Dials : Exclusive(d) =>
       /\ uuid = d.uuid => user = d.user /\ name \in NamesOf(d.uuid)
       /\ user = d.user /\ name \in NamesOf(d.uuid) => uuid = d.uuid

ExclusiveRows ==
  \A i \in RowIds : Exists(i) => RightfulRow(rows[i].user, rows[i].name, rows[i].uuid)

(* Only agents that share a name take rows over, and only from another.    *)
TakeoversSpareExclusive ==
  \A c \in Conns : pc[c] = "setUuid" =>
    /\ ~Exclusive(dial[c])
    /\ \A d \in Dials :
         Exclusive(d) /\ Exists(row[c]) => rows[row[c]].uuid # d.uuid

HandlersKnown ==
  \A c \in Conns :
    pc[c] \in {"rename", "storeKey", "accept", "reading"} /\ Exclusive(dial[c])
      /\ c \notin orphaned => Known(dial[c].user, dial[c].uuid)

IInv == TypeOK /\ KeysStayWithOwner /\ HeldRows
        /\ ExclusiveRows /\ TakeoversSpareExclusive /\ HandlersKnown
=============================================================================
