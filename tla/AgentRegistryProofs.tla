------------------------ MODULE AgentRegistryProofs ------------------------
(***************************************************************************)
(* Proofs about AgentRegistry for any users, names, UUIDs, handlers and    *)
(* rows, checked by TLAPS.  Each conjunct of the inductive invariant has a *)
(* lemma of its own, by cases on the step.                                 *)
(***************************************************************************)
EXTENDS AgentRegistry, TLAPS

USE RegistryAssumption
USE DEF GetAgentByUUID, GetAgentByUserAndName, UpdateAgentUUID, UpdateAgentName,
        UpdateAgentX25519PubKey, DeleteAgent

(* A dial's fields, and what Exclusive says of two agents of one name.     *)
LEMMA DialFields ==
  ASSUME NEW d \in Dials
  PROVE  /\ d.user \in Users /\ d.name \in Names /\ d.uuid \in Uuids
         /\ d.uuid \in AgentsOf(d.user) /\ d.name \in NamesOf(d.uuid)
BY DEF Users, Names, Uuids, AgentsOf, NamesOf

LEMMA ExclusiveName ==
  ASSUME NEW d \in Dials, Exclusive(d), NEW uuid \in AgentsOf(d.user),
         NEW name \in NamesOf(uuid), name \in NamesOf(d.uuid)
  PROVE  uuid = d.uuid
BY DEF Exclusive

LEMMA ExclusiveShared ==
  ASSUME NEW d \in Dials, NEW e \in Dials, Exclusive(d), e.uuid = d.uuid
  PROVE  Exclusive(e) /\ e.user = d.user
BY DEF Exclusive

LEMMA DialIsRightful ==
  ASSUME NEW d \in Dials
  PROVE  RightfulRow(d.user, d.name, d.uuid)
BY DialFields, ExclusiveName DEF RightfulRow, Exclusive

(* What CreateAgent puts in the table.                                          *)
NewRow(d) == [user |-> d.user, name |-> d.name, uuid |-> d.uuid, key |-> None]

LEMMA NewRowType ==
  ASSUME NEW d \in Dials
  PROVE  /\ NewRow(d) \in RowValues /\ NewRow(d) # None
         /\ NewRow(d).user = d.user /\ NewRow(d).name = d.name
         /\ NewRow(d).uuid = d.uuid /\ NewRow(d).key = None
BY DialFields DEF NewRow, RowValues

-----------------------------------------------------------------------------
LEMMA InitIInv == Init => IInv
BY DEF Init, IInv, TypeOK, KeysStayWithOwner, HeldRows, ExclusiveRows,
       TakeoversSpareExclusive, HandlersKnown, Steps, Exists, Uuids, RowValues

LEMMA LeaveType ==
  ASSUME TypeOK, NEW c \in Conns, Leave(c)
  PROVE  /\ pc' \in [Conns -> Steps] /\ dial' \in [Conns -> Dials \cup {None}]
         /\ row' \in [Conns -> RowIds \cup {None}]
         /\ orphaned' \subseteq Conns /\ alone' \subseteq Conns
         /\ \A e \in Conns : pc'[e] # "none" => dial'[e] # None
         /\ \A e \in Conns : pc'[e] \in {"setUuid", "rename", "storeKey"} => row'[e] # None
BY DEF TypeOK, Leave, Goto, Steps

LEMMA CreateStep ==
  ASSUME TypeOK, NEW i \in RowIds, NEW d \in Dials, CreateAgent(i, d)
  PROVE  /\ rows' \in [RowIds -> RowValues \cup {None}]
         /\ rows[i] = None /\ \A c \in Conns : row[c] # i
         /\ \A j \in RowIds : j # i => rows'[j] = rows[j]
         /\ rows'[i] # None
         /\ rows'[i].user = d.user /\ rows'[i].name = d.name
         /\ rows'[i].uuid = d.uuid /\ rows'[i].key = None
BY NewRowType DEF TypeOK, CreateAgent, NewRow, FreshId, Exists

LEMMA StepType ==
  ASSUME TypeOK, [Next]_vars
  PROVE  TypeOK'
<1> USE DEF TypeOK, Steps, Goto, Failure, Disturb, Exists
<1>1. ASSUME NEW c \in Conns, NEW d \in Dials, Connect(c, d) PROVE TypeOK'
  BY <1>1 DEF Connect
<1>2. ASSUME NEW c \in Conns, FindByUuid(c) PROVE TypeOK'
  <2>1. CASE Leave(c)
    BY <1>2, <2>1, LeaveType DEF FindByUuid
  <2>2. CASE ~Leave(c)
    BY <1>2, <2>2 DEF FindByUuid
  <2>3. QED BY <2>1, <2>2
<1>3. ASSUME NEW c \in Conns, FindByName(c) PROVE TypeOK'
  BY <1>3 DEF FindByName
<1>4. ASSUME NEW c \in Conns, Create(c) PROVE TypeOK'
  <2>1. CASE Leave(c) /\ UNCHANGED rows
    BY <1>4, <2>1, LeaveType DEF Create
  <2>2. ASSUME NEW i \in RowIds, CreateAgent(i, dial[c]), Goto(c, "storeKey"),
               row' = [row EXCEPT ![c] = i], UNCHANGED <<dial, orphaned, alone>>
        PROVE  TypeOK'
    <3>1. dial[c] \in Dials
      BY <1>4 DEF Create
    <3>2. rows' \in [RowIds -> RowValues \cup {None}]
      BY <2>2, <3>1, CreateStep
    <3>3. QED BY <1>4, <2>2, <3>2 DEF Create
  <2>3. QED BY <1>4, <2>1, <2>2 DEF Create
<1>5. ASSUME NEW c \in Conns, SetUuid(c) PROVE TypeOK'
  <2>1. dial[c] \in Dials /\ row[c] \in RowIds
    BY <1>5 DEF SetUuid
  <2>2. rows' \in [RowIds -> RowValues \cup {None}]
    BY <1>5, <2>1, DialFields DEF SetUuid, RowValues
  <2>3. QED BY <1>5, <2>2 DEF SetUuid
<1>6. ASSUME NEW c \in Conns, Rename(c) PROVE TypeOK'
  <2>1. dial[c] \in Dials
    BY <1>6 DEF Rename
  <2>2. rows' \in [RowIds -> RowValues \cup {None}]
    BY <1>6, <2>1, DialFields DEF Rename, RowValues
  <2>3. QED BY <1>6, <2>2 DEF Rename
<1>7. ASSUME NEW c \in Conns, StoreKey(c) PROVE TypeOK'
  <2>1. dial[c] \in Dials /\ row[c] \in RowIds
    BY <1>7 DEF StoreKey
  <2>2. rows' \in [RowIds -> RowValues \cup {None}]
    BY <1>7, <2>1 DEF StoreKey, RowValues
  <2>3. QED BY <1>7, <2>2 DEF StoreKey
<1>8. ASSUME NEW c \in Conns, Register(c) PROVE TypeOK'
  BY <1>8 DEF Register
<1>9. ASSUME NEW c \in Conns, AcceptFail(c) PROVE TypeOK'
  BY <1>9, LeaveType DEF AcceptFail
<1>10. ASSUME NEW c \in Conns, Cleanup(c) PROVE TypeOK'
  BY <1>10 DEF Cleanup
<1>11. ASSUME NEW d \in Dials, Post(d) PROVE TypeOK'
  BY <1>11, CreateStep DEF Post
<1>12. ASSUME NEW d \in Dials, Delete(d.user, d.uuid) PROVE TypeOK'
  BY <1>12 DEF Delete
<1>13. CASE UNCHANGED vars
  BY <1>13 DEF vars
<1>14. QED
  BY <1>1, <1>2, <1>3, <1>4, <1>5, <1>6, <1>7, <1>8, <1>9, <1>10, <1>11, <1>12, <1>13
     DEF Next, ConnStep

LEMMA StepKeys ==
  ASSUME TypeOK, HeldRows, KeysStayWithOwner, [Next]_vars
  PROVE  KeysStayWithOwner'
<1> USE DEF TypeOK, KeysStayWithOwner, HeldRows, Exists, RowValues, Goto
<1>1. ASSUME NEW c \in Conns, NEW d \in Dials, Connect(c, d) PROVE KeysStayWithOwner'
  BY <1>1 DEF Connect
<1>2. ASSUME NEW c \in Conns, FindByUuid(c) PROVE KeysStayWithOwner'
  BY <1>2 DEF FindByUuid, Leave
<1>3. ASSUME NEW c \in Conns, FindByName(c) PROVE KeysStayWithOwner'
  BY <1>3 DEF FindByName
<1>4. ASSUME NEW c \in Conns, Create(c) PROVE KeysStayWithOwner'
  <2>1. CASE Leave(c) /\ UNCHANGED rows
    BY <1>4, <2>1 DEF Create, Leave
  <2>2. ASSUME NEW i \in RowIds, CreateAgent(i, dial[c]), Goto(c, "storeKey"),
               row' = [row EXCEPT ![c] = i], UNCHANGED <<dial, orphaned, alone>>
        PROVE  KeysStayWithOwner'
    <3>1. dial[c] \in Dials
      BY <1>4 DEF Create
    <3>2. QED BY <1>4, <2>2, <3>1, CreateStep DEF Create
  <2>3. QED BY <1>4, <2>1, <2>2 DEF Create
<1>5. ASSUME NEW c \in Conns, SetUuid(c) PROVE KeysStayWithOwner'
  BY <1>5 DEF SetUuid
<1>6. ASSUME NEW c \in Conns, Rename(c) PROVE KeysStayWithOwner'
  BY <1>6 DEF Rename
<1>7. ASSUME NEW c \in Conns, StoreKey(c) PROVE KeysStayWithOwner'
  BY <1>7 DEF StoreKey
<1>8. ASSUME NEW c \in Conns, Register(c) PROVE KeysStayWithOwner'
  BY <1>8 DEF Register
<1>9. ASSUME NEW c \in Conns, AcceptFail(c) PROVE KeysStayWithOwner'
  BY <1>9 DEF AcceptFail, Leave
<1>10. ASSUME NEW c \in Conns, Cleanup(c) PROVE KeysStayWithOwner'
  BY <1>10 DEF Cleanup
<1>11. ASSUME NEW d \in Dials, Post(d) PROVE KeysStayWithOwner'
  BY <1>11, CreateStep DEF Post
<1>12. ASSUME NEW d \in Dials, Delete(d.user, d.uuid) PROVE KeysStayWithOwner'
  BY <1>12 DEF Delete
<1>13. CASE UNCHANGED vars
  BY <1>13 DEF vars
<1>14. QED
  BY <1>1, <1>2, <1>3, <1>4, <1>5, <1>6, <1>7, <1>8, <1>9,
     <1>10, <1>11, <1>12, <1>13 DEF Next, ConnStep

LEMMA StepHeldRows ==
  ASSUME TypeOK, HeldRows, [Next]_vars
  PROVE  HeldRows'
<1> USE DEF TypeOK, HeldRows, Exists, RowValues, Goto
<1>1. ASSUME NEW c \in Conns, NEW d \in Dials, Connect(c, d) PROVE HeldRows'
  BY <1>1 DEF Connect
<1>2. ASSUME NEW c \in Conns, FindByUuid(c) PROVE HeldRows'
  BY <1>2 DEF FindByUuid, Leave
<1>3. ASSUME NEW c \in Conns, FindByName(c) PROVE HeldRows'
  BY <1>3 DEF FindByName
<1>4. ASSUME NEW c \in Conns, Create(c) PROVE HeldRows'
  <2>1. CASE Leave(c) /\ UNCHANGED rows
    BY <1>4, <2>1 DEF Create, Leave
  <2>2. ASSUME NEW i \in RowIds, CreateAgent(i, dial[c]), Goto(c, "storeKey"),
               row' = [row EXCEPT ![c] = i], UNCHANGED <<dial, orphaned, alone>>
        PROVE  HeldRows'
    <3>1. dial[c] \in Dials
      BY <1>4 DEF Create
    <3>2. QED BY <1>4, <2>2, <3>1, CreateStep DEF Create
  <2>3. QED BY <1>4, <2>1, <2>2 DEF Create
<1>5. ASSUME NEW c \in Conns, SetUuid(c) PROVE HeldRows'
  BY <1>5 DEF SetUuid
<1>6. ASSUME NEW c \in Conns, Rename(c) PROVE HeldRows'
  BY <1>6 DEF Rename
<1>7. ASSUME NEW c \in Conns, StoreKey(c) PROVE HeldRows'
  BY <1>7 DEF StoreKey
<1>8. ASSUME NEW c \in Conns, Register(c) PROVE HeldRows'
  BY <1>8 DEF Register
<1>9. ASSUME NEW c \in Conns, AcceptFail(c) PROVE HeldRows'
  BY <1>9 DEF AcceptFail, Leave
<1>10. ASSUME NEW c \in Conns, Cleanup(c) PROVE HeldRows'
  BY <1>10 DEF Cleanup
<1>11. ASSUME NEW d \in Dials, Post(d) PROVE HeldRows'
  BY <1>11, CreateStep DEF Post
<1>12. ASSUME NEW d \in Dials, Delete(d.user, d.uuid) PROVE HeldRows'
  BY <1>12 DEF Delete
<1>13. CASE UNCHANGED vars
  BY <1>13 DEF vars
<1>14. QED
  BY <1>1, <1>2, <1>3, <1>4, <1>5, <1>6, <1>7, <1>8, <1>9,
     <1>10, <1>11, <1>12, <1>13 DEF Next, ConnStep

LEMMA StepExclusiveRows ==
  ASSUME TypeOK, HeldRows, ExclusiveRows, TakeoversSpareExclusive, [Next]_vars
  PROVE  ExclusiveRows'
<1> USE DEF TypeOK, ExclusiveRows, Exists, RowValues, Goto
<1>1. ASSUME NEW c \in Conns, NEW d \in Dials, Connect(c, d) PROVE ExclusiveRows'
  BY <1>1 DEF Connect
<1>2. ASSUME NEW c \in Conns, FindByUuid(c) PROVE ExclusiveRows'
  BY <1>2 DEF FindByUuid, Leave
<1>3. ASSUME NEW c \in Conns, FindByName(c) PROVE ExclusiveRows'
  BY <1>3 DEF FindByName
<1>4. ASSUME NEW c \in Conns, Create(c) PROVE ExclusiveRows'
  <2>1. CASE Leave(c) /\ UNCHANGED rows
    BY <1>4, <2>1 DEF Create, Leave
  <2>2. ASSUME NEW i \in RowIds, CreateAgent(i, dial[c]), Goto(c, "storeKey"),
               row' = [row EXCEPT ![c] = i], UNCHANGED <<dial, orphaned, alone>>
        PROVE  ExclusiveRows'
    <3>1. dial[c] \in Dials
      BY <1>4 DEF Create
    <3>2. QED BY <1>4, <2>2, <3>1, CreateStep, DialIsRightful DEF Create
  <2>3. QED BY <1>4, <2>1, <2>2 DEF Create
<1>5. ASSUME NEW c \in Conns, SetUuid(c) PROVE ExclusiveRows'
  <2>1. dial[c] \in Dials /\ row[c] \in RowIds
    BY <1>5 DEF SetUuid
  <2>2. CASE UNCHANGED rows
    BY <2>2
  <2>3. CASE Exists(row[c]) /\ rows' = [rows EXCEPT ![row[c]].uuid = dial[c].uuid]
    <3> DEFINE old == rows[row[c]]
    <3>1. old \in RowValues /\ old.user = dial[c].user
      BY <2>1, <2>3, <1>5 DEF HeldRows, SetUuid
    <3>2. ~Exclusive(dial[c]) /\ \A d \in Dials : Exclusive(d) => old.uuid # d.uuid
      BY <2>3, <1>5 DEF TakeoversSpareExclusive, SetUuid
    <3>3. RightfulRow(old.user, old.name, dial[c].uuid)
      BY <2>1, <2>3, <3>1, <3>2, DialFields, ExclusiveShared DEF RightfulRow
    <3>4. QED BY <2>1, <2>3, <3>1, <3>3
  <2>4. QED BY <1>5, <2>2, <2>3 DEF SetUuid
<1>6. ASSUME NEW c \in Conns, Rename(c) PROVE ExclusiveRows'
  <2>1. dial[c] \in Dials
    BY <1>6 DEF Rename
  <2>2. CASE UNCHANGED rows
    BY <2>2
  <2>3. ASSUME NEW i \in RowIds, Exists(i), rows[i].uuid = dial[c].uuid,
               rows' = [rows EXCEPT ![i].name = dial[c].name]
        PROVE  ExclusiveRows'
    <3>1. rows[i] \in RowValues /\ RightfulRow(rows[i].user, rows[i].name, rows[i].uuid)
      BY <2>3
    <3>2. RightfulRow(rows[i].user, dial[c].name, rows[i].uuid)
      BY <2>1, <2>3, <3>1, DialFields, ExclusiveName DEF RightfulRow
    <3>3. QED BY <2>3, <3>1, <3>2
  <2>4. QED BY <1>6, <2>2, <2>3 DEF Rename
<1>7. ASSUME NEW c \in Conns, StoreKey(c) PROVE ExclusiveRows'
  BY <1>7 DEF StoreKey
<1>8. ASSUME NEW c \in Conns, Register(c) PROVE ExclusiveRows'
  BY <1>8 DEF Register
<1>9. ASSUME NEW c \in Conns, AcceptFail(c) PROVE ExclusiveRows'
  BY <1>9 DEF AcceptFail, Leave
<1>10. ASSUME NEW c \in Conns, Cleanup(c) PROVE ExclusiveRows'
  BY <1>10 DEF Cleanup
<1>11. ASSUME NEW d \in Dials, Post(d) PROVE ExclusiveRows'
  BY <1>11, CreateStep, DialIsRightful DEF Post
<1>12. ASSUME NEW d \in Dials, Delete(d.user, d.uuid) PROVE ExclusiveRows'
  BY <1>12 DEF Delete
<1>13. CASE UNCHANGED vars
  BY <1>13 DEF vars
<1>14. QED
  BY <1>1, <1>2, <1>3, <1>4, <1>5, <1>6, <1>7, <1>8, <1>9,
     <1>10, <1>11, <1>12, <1>13 DEF Next, ConnStep

LEMMA StepTakeovers ==
  ASSUME TypeOK, HeldRows, ExclusiveRows, TakeoversSpareExclusive, [Next]_vars
  PROVE  TakeoversSpareExclusive'
<1> USE DEF TypeOK, TakeoversSpareExclusive, Exists, RowValues, Goto
<1>1. ASSUME NEW c \in Conns, NEW d \in Dials, Connect(c, d) PROVE TakeoversSpareExclusive'
  BY <1>1 DEF Connect
<1>2. ASSUME NEW c \in Conns, FindByUuid(c) PROVE TakeoversSpareExclusive'
  BY <1>2 DEF FindByUuid, Leave
<1>3. ASSUME NEW c \in Conns, FindByName(c) PROVE TakeoversSpareExclusive'
  <2>1. dial[c] \in Dials
    BY <1>3 DEF FindByName
  <2>2. CASE pc'[c] # "setUuid"
    BY <1>3, <2>2 DEF FindByName
  <2>3. CASE pc'[c] = "setUuid"
    <3>1. PICK i \in RowIds :
            /\ Exists(i) /\ rows[i].user = dial[c].user /\ rows[i].name = dial[c].name
            /\ rows[i].uuid # dial[c].uuid /\ row' = [row EXCEPT ![c] = i]
      BY <1>3, <2>3 DEF FindByName
    <3>2. RightfulRow(dial[c].user, dial[c].name, rows[i].uuid)
      BY <3>1 DEF ExclusiveRows
    <3>3. ~Exclusive(dial[c])
      BY <2>1, <3>1, <3>2, DialFields DEF RightfulRow
    <3>4. \A d \in Dials : Exclusive(d) => rows[i].uuid # d.uuid
      <4>1. SUFFICES ASSUME NEW d \in Dials, Exclusive(d), rows[i].uuid = d.uuid PROVE FALSE
        OBVIOUS
      <4>2. dial[c].user = d.user /\ dial[c].name \in NamesOf(d.uuid)
        BY <3>2, <4>1 DEF RightfulRow
      <4>3. dial[c].uuid = d.uuid
        BY <2>1, <4>1, <4>2, DialFields, ExclusiveName
      <4>4. QED BY <3>1, <4>1, <4>3
    <3>5. row'[c] = i /\ UNCHANGED <<rows, dial>>
      BY <1>3, <3>1 DEF FindByName
    <3>6. \A e \in Conns \ {c} : pc'[e] = pc[e] /\ row'[e] = row[e]
      BY <1>3, <3>1 DEF FindByName
    <3>7. QED BY <3>3, <3>4, <3>5, <3>6
  <2>4. QED BY <2>2, <2>3
<1>4. ASSUME NEW c \in Conns, Create(c) PROVE TakeoversSpareExclusive'
  <2>1. CASE Leave(c) /\ UNCHANGED rows
    BY <1>4, <2>1 DEF Create, Leave
  <2>2. ASSUME NEW i \in RowIds, CreateAgent(i, dial[c]), Goto(c, "storeKey"),
               row' = [row EXCEPT ![c] = i], UNCHANGED <<dial, orphaned, alone>>
        PROVE  TakeoversSpareExclusive'
    <3>1. dial[c] \in Dials
      BY <1>4 DEF Create
    <3>2. QED BY <1>4, <2>2, <3>1, CreateStep DEF Create
  <2>3. QED BY <1>4, <2>1, <2>2 DEF Create
<1>5. ASSUME NEW c \in Conns, SetUuid(c) PROVE TakeoversSpareExclusive'
  <2>1. dial[c] \in Dials /\ row[c] \in RowIds
    BY <1>5 DEF SetUuid
  <2>2. CASE UNCHANGED rows
    BY <1>5, <2>2 DEF SetUuid
  <2>3. CASE Exists(row[c]) /\ rows' = [rows EXCEPT ![row[c]].uuid = dial[c].uuid]
    <3>1. rows[row[c]] \in RowValues /\ rows'[row[c]].uuid = dial[c].uuid
      BY <2>1, <2>3
    <3>2. \A d \in Dials : Exclusive(d) => dial[c].uuid # d.uuid
      BY <1>5, <2>1, ExclusiveShared DEF SetUuid
    <3>3. \A j \in RowIds : j # row[c] => rows'[j] = rows[j]
      BY <2>1, <2>3
    <3>4. QED BY <1>5, <2>1, <3>1, <3>2, <3>3 DEF SetUuid
  <2>4. QED BY <1>5, <2>2, <2>3 DEF SetUuid
<1>6. ASSUME NEW c \in Conns, Rename(c) PROVE TakeoversSpareExclusive'
  BY <1>6 DEF Rename
<1>7. ASSUME NEW c \in Conns, StoreKey(c) PROVE TakeoversSpareExclusive'
  BY <1>7 DEF StoreKey
<1>8. ASSUME NEW c \in Conns, Register(c) PROVE TakeoversSpareExclusive'
  BY <1>8 DEF Register
<1>9. ASSUME NEW c \in Conns, AcceptFail(c) PROVE TakeoversSpareExclusive'
  BY <1>9 DEF AcceptFail, Leave
<1>10. ASSUME NEW c \in Conns, Cleanup(c) PROVE TakeoversSpareExclusive'
  BY <1>10 DEF Cleanup
<1>11. ASSUME NEW d \in Dials, Post(d) PROVE TakeoversSpareExclusive'
  BY <1>11, CreateStep DEF Post
<1>12. ASSUME NEW d \in Dials, Delete(d.user, d.uuid) PROVE TakeoversSpareExclusive'
  BY <1>12 DEF Delete
<1>13. CASE UNCHANGED vars
  BY <1>13 DEF vars
<1>14. QED
  BY <1>1, <1>2, <1>3, <1>4, <1>5, <1>6, <1>7, <1>8, <1>9,
     <1>10, <1>11, <1>12, <1>13 DEF Next, ConnStep

LEMMA StepHandlersKnown ==
  ASSUME TypeOK, ExclusiveRows, TakeoversSpareExclusive, HandlersKnown, [Next]_vars
  PROVE  HandlersKnown'
<1> USE DEF TypeOK, HandlersKnown, Known, Exists, RowValues, Goto
<1>1. ASSUME NEW c \in Conns, NEW d \in Dials, Connect(c, d) PROVE HandlersKnown'
  BY <1>1 DEF Connect
<1>2. ASSUME NEW c \in Conns, FindByUuid(c) PROVE HandlersKnown'
  BY <1>2 DEF FindByUuid, Leave
<1>3. ASSUME NEW c \in Conns, FindByName(c) PROVE HandlersKnown'
  BY <1>3 DEF FindByName
<1>4. ASSUME NEW c \in Conns, Create(c) PROVE HandlersKnown'
  <2>1. CASE Leave(c) /\ UNCHANGED rows
    BY <1>4, <2>1 DEF Create, Leave
  <2>2. ASSUME NEW i \in RowIds, CreateAgent(i, dial[c]), Goto(c, "storeKey"),
               row' = [row EXCEPT ![c] = i], UNCHANGED <<dial, orphaned, alone>>
        PROVE  HandlersKnown'
    <3>1. dial[c] \in Dials
      BY <1>4 DEF Create
    <3>2. QED BY <1>4, <2>2, <3>1, CreateStep DEF Create
  <2>3. QED BY <1>4, <2>1, <2>2 DEF Create
<1>5. ASSUME NEW c \in Conns, SetUuid(c) PROVE HandlersKnown'
  <2>1. dial[c] \in Dials /\ row[c] \in RowIds /\ ~Exclusive(dial[c])
    BY <1>5 DEF SetUuid, TakeoversSpareExclusive
  <2>2. CASE UNCHANGED rows
    BY <1>5, <2>1, <2>2 DEF SetUuid
  <2>3. CASE Exists(row[c]) /\ rows' = [rows EXCEPT ![row[c]].uuid = dial[c].uuid]
    <3>1. SUFFICES ASSUME NEW e \in Conns, Exclusive(dial[e]), e # c,
                          pc[e] \in {"rename", "storeKey", "accept", "reading"},
                          e \notin orphaned
                   PROVE  Known(dial[e].user, dial[e].uuid)'
      BY <1>5, <2>1 DEF SetUuid
    <3>2. dial[e] \in Dials
      BY <3>1
    <3>3. PICK i \in RowIds :
            Exists(i) /\ rows[i].user = dial[e].user /\ rows[i].uuid = dial[e].uuid
      BY <3>1
    <3>4. i # row[c]
      BY <1>5, <3>1, <3>2, <3>3 DEF SetUuid, TakeoversSpareExclusive
    <3>5. rows'[i] = rows[i] /\ dial' = dial
      BY <1>5, <2>3, <3>4 DEF SetUuid
    <3>6. QED BY <3>3, <3>5
  <2>4. QED BY <1>5, <2>2, <2>3 DEF SetUuid
<1>6. ASSUME NEW c \in Conns, Rename(c) PROVE HandlersKnown'
  BY <1>6 DEF Rename
<1>7. ASSUME NEW c \in Conns, StoreKey(c) PROVE HandlersKnown'
  BY <1>7 DEF StoreKey
<1>8. ASSUME NEW c \in Conns, Register(c) PROVE HandlersKnown'
  BY <1>8 DEF Register
<1>9. ASSUME NEW c \in Conns, AcceptFail(c) PROVE HandlersKnown'
  BY <1>9 DEF AcceptFail, Leave
<1>10. ASSUME NEW c \in Conns, Cleanup(c) PROVE HandlersKnown'
  BY <1>10 DEF Cleanup
<1>11. ASSUME NEW d \in Dials, Post(d) PROVE HandlersKnown'
  BY <1>11, CreateStep DEF Post
<1>12. ASSUME NEW d \in Dials, Delete(d.user, d.uuid) PROVE HandlersKnown'
  BY <1>12 DEF Delete
<1>13. CASE UNCHANGED vars
  BY <1>13 DEF vars
<1>14. QED
  BY <1>1, <1>2, <1>3, <1>4, <1>5, <1>6, <1>7, <1>8, <1>9,
     <1>10, <1>11, <1>12, <1>13 DEF Next, ConnStep
-----------------------------------------------------------------------------
(* Whatever the agents, the handlers and the failures, IInv holds: rows    *)
(* are only ever changed by their user's handlers as the invariant says.   *)
THEOREM Invariance == Spec => []IInv
<1>1. Init => IInv
  BY InitIInv
<1>2. IInv /\ [Next]_vars => IInv'
  BY StepType, StepKeys, StepHeldRows, StepExclusiveRows, StepTakeovers, StepHandlersKnown
     DEF IInv
<1>3. QED BY <1>1, <1>2, PTL DEF Spec

(* The variables keep their types.                                         *)
THEOREM TypeCorrect == Spec => []TypeOK
<1>1. IInv => TypeOK
  BY DEF IInv
<1>2. QED BY <1>1, Invariance, PTL

(* A row's X25519 key was sent by an agent with its own user's token       *)
(* (hub.go:90 stores it by the id of a row checked statements earlier).    *)
THEOREM KeysAreTheOwners == Spec => []KeysStayWithOwner
<1>1. IInv => KeysStayWithOwner
  BY DEF IInv
<1>2. QED BY <1>1, Invariance, PTL

(* A connected agent that shares no name and no UUID can be reached until  *)
(* its user deletes it, whatever fails or overlaps while it connects       *)
(* (hub.go:66-89).                                                         *)
THEOREM ExclusiveAgentsReachable == Spec => []ExclusiveAgentsAreKnown
<1>1. IInv => ExclusiveAgentsAreKnown
  BY DEF IInv, HandlersKnown, ExclusiveAgentsAreKnown
<1>2. QED BY <1>1, Invariance, PTL

-----------------------------------------------------------------------------
(* A handler that nothing overlaps and whose statements succeed: no other  *)
(* is connecting, and step by step its row becomes what it asked for.      *)
NobodyElse == \A c \in alone : \A e \in Conns \ {c} : ~InFlight(e)

(* The row that a handler holds.                                           *)
HasRow(c) == row[c] \in RowIds /\ Exists(row[c]) /\ rows[row[c]].user = dial[c].user

Prepared(c) ==
  /\ pc[c] \in {"setUuid", "rename", "storeKey", "accept"} => HasRow(c)
  /\ pc[c] \in {"rename", "storeKey", "accept"} => rows[row[c]].uuid = dial[c].uuid
  /\ pc[c] = "accept" => rows[row[c]].key = dial[c]

Published(c) ==
  pc[c] = "reading" =>
    /\ hub[dial[c].uuid] = c
    /\ \E i \in RowIds : /\ Exists(i) /\ rows[i].user = dial[c].user
                         /\ rows[i].uuid = dial[c].uuid /\ rows[i].key = dial[c]

AloneInv == NobodyElse /\ \A c \in alone : Prepared(c) /\ Published(c)

(* What a step does to who is alone: it ends with another's connection or  *)
(* change of the table, and otherwise only its own handler moves.          *)
LEMMA StepsOfTheAlone ==
  ASSUME TypeOK, NobodyElse, [Next]_vars, NEW c \in alone'
  PROVE  \/ pc'[c] = "byUuid" /\ NobodyElse'
         \/ c \in alone /\ UNCHANGED <<rows, hub, pc, dial, row>>
         \/ /\ c \in alone /\ NobodyElse'
            /\ \/ FindByUuid(c) \/ FindByName(c) \/ Create(c) \/ SetUuid(c)
               \/ Rename(c) \/ StoreKey(c) \/ Register(c)
<1> USE DEF NobodyElse, InFlight, TypeOK
<1>1. ASSUME NEW e \in Conns, NEW d \in Dials, Connect(e, d)
      PROVE  pc'[c] = "byUuid" /\ NobodyElse'
  BY <1>1 DEF Connect, Goto
<1>2. ASSUME NEW e \in Conns, AcceptFail(e) \/ Cleanup(e) PROVE FALSE
  <2>1. CASE Cleanup(e)
    BY <2>1 DEF Cleanup, Disturb
  <2>2. CASE AcceptFail(e)
    BY <2>2 DEF AcceptFail, Leave
  <2>3. QED BY <1>2, <2>1, <2>2
<1>3. ASSUME NEW d \in Dials, Post(d) \/ Delete(d.user, d.uuid) PROVE FALSE
  BY <1>3 DEF Post, Delete, Disturb
<1>4. ASSUME NEW e \in Conns,
             \/ FindByUuid(e) \/ FindByName(e) \/ Create(e) \/ SetUuid(e)
             \/ Rename(e) \/ StoreKey(e) \/ Register(e)
      PROVE  /\ c \in alone /\ NobodyElse'
             /\ \/ FindByUuid(c) \/ FindByName(c) \/ Create(c) \/ SetUuid(c)
                \/ Rename(c) \/ StoreKey(c) \/ Register(c)
  <2>1. alone' \subseteq alone /\ InFlight(e)
    BY <1>4 DEF FindByUuid, FindByName, Create, SetUuid, Rename, StoreKey, Register, Leave, Failure
  <2>2. \A f \in Conns \ {e} : pc'[f] = pc[f]
    BY <1>4 DEF FindByUuid, FindByName, Create, SetUuid, Rename, StoreKey, Register, Leave, Goto
  <2>3. e = c
    BY <2>1
  <2>4. QED BY <1>4, <2>1, <2>2, <2>3
<1>5. CASE UNCHANGED vars
  BY <1>5 DEF vars
<1>6. QED BY <1>1, <1>2, <1>3, <1>4, <1>5 DEF Next, ConnStep

LEMMA StepPrepared ==
  ASSUME TypeOK, NEW c \in Conns, dial[c] \in Dials, Prepared(c), c \in alone',
         \/ FindByUuid(c) \/ FindByName(c) \/ Create(c) \/ SetUuid(c)
         \/ Rename(c) \/ StoreKey(c)
  PROVE  Prepared(c)' /\ pc'[c] # "reading"
<1> USE DEF TypeOK, Prepared, HasRow, Exists, Goto
<1>a. ~Leave(c)
  BY DEF Leave
<1>b. ~Failure(c)
  BY DEF Failure
<1>1. CASE FindByUuid(c)
  BY <1>1, <1>a DEF FindByUuid
<1>2. CASE FindByName(c)
  BY <1>2 DEF FindByName
<1>3. CASE Create(c)
  <2>1. PICK i \in RowIds : /\ CreateAgent(i, dial[c]) /\ Goto(c, "storeKey")
                            /\ row' = [row EXCEPT ![c] = i] /\ dial' = dial
    BY <1>3, <1>a DEF Create
  <2>2. QED BY <2>1, CreateStep
<1>4. CASE SetUuid(c)
  <2>1. /\ pc[c] = "setUuid" /\ pc' = [pc EXCEPT ![c] = "storeKey"]
        /\ rows' = [rows EXCEPT ![row[c]].uuid = dial[c].uuid] /\ UNCHANGED <<dial, row>>
    BY <1>4, <1>b DEF SetUuid
  <2>2. rows[row[c]] \in RowValues
    BY <2>1
  <2>3. /\ rows'[row[c]].uuid = dial[c].uuid /\ rows'[row[c]].user = rows[row[c]].user
        /\ rows'[row[c]] \in RowValues
    BY <2>1, <2>2, DialFields DEF RowValues
  <2>4. QED BY <2>1, <2>3
<1>5. CASE Rename(c)
  <2>1. /\ pc[c] = "rename" /\ pc' = [pc EXCEPT ![c] = "storeKey"]
        /\ UNCHANGED <<dial, row>>
    BY <1>5 DEF Rename
  <2>2. CASE UNCHANGED rows
    BY <2>1, <2>2
  <2>3. ASSUME NEW i \in RowIds, Exists(i), rows' = [rows EXCEPT ![i].name = dial[c].name]
        PROVE  Prepared(c)'
    <3>1. rows[row[c]] \in RowValues
      BY <2>1
    <3>2. /\ rows'[row[c]].uuid = rows[row[c]].uuid /\ rows'[row[c]].user = rows[row[c]].user
          /\ rows'[row[c]] \in RowValues
      BY <2>1, <2>3, <3>1, DialFields DEF RowValues
    <3>3. QED BY <2>1, <3>2
  <2>4. QED BY <1>5, <2>1, <2>2, <2>3 DEF Rename
<1>6. CASE StoreKey(c)
  <2>1. /\ pc[c] = "storeKey" /\ pc' = [pc EXCEPT ![c] = "accept"]
        /\ rows' = [rows EXCEPT ![row[c]].key = dial[c]] /\ UNCHANGED <<dial, row>>
    BY <1>6, <1>b DEF StoreKey
  <2>2. rows[row[c]] \in RowValues
    BY <2>1
  <2>3. /\ rows'[row[c]].key = dial[c] /\ rows'[row[c]].user = rows[row[c]].user
        /\ rows'[row[c]].uuid = rows[row[c]].uuid /\ rows'[row[c]] \in RowValues
    BY <2>1, <2>2 DEF RowValues
  <2>4. QED BY <2>1, <2>3
<1>7. QED BY <1>1, <1>2, <1>3, <1>4, <1>5, <1>6

LEMMA StepAlone ==
  ASSUME TypeOK, AloneInv, [Next]_vars
  PROVE  AloneInv'
<1>1. alone' \subseteq Conns
  BY StepType DEF TypeOK
<1>2. ASSUME NEW c \in alone' PROVE Prepared(c)' /\ Published(c)'
  <2>1. CASE pc'[c] = "byUuid"
    BY <2>1 DEF Prepared, Published
  <2>2. CASE c \in alone /\ UNCHANGED <<rows, hub, pc, dial, row>>
    BY <2>2 DEF AloneInv, Prepared, Published, HasRow, Exists
  <2>3. CASE c \in alone /\ Register(c)
    <3>1. /\ pc[c] = "accept" /\ pc'[c] = "reading" /\ UNCHANGED <<rows, dial>>
          /\ dial[c].uuid \in Uuids /\ hub' = [hub EXCEPT ![dial[c].uuid] = c]
      BY <1>1, <2>3, DialFields DEF Register, Goto, TypeOK
    <3>2. hub'[dial'[c].uuid] = c
      BY <3>1 DEF TypeOK
    <3>3. HasRow(c) /\ rows[row[c]].uuid = dial[c].uuid /\ rows[row[c]].key = dial[c]
      BY <2>3, <3>1 DEF AloneInv, Prepared
    <3>4. QED BY <3>1, <3>2, <3>3 DEF HasRow, Exists, Prepared, Published
  <2>4. CASE /\ c \in alone
             /\ \/ FindByUuid(c) \/ FindByName(c) \/ Create(c) \/ SetUuid(c)
                \/ Rename(c) \/ StoreKey(c)
    <3>1. c \in Conns /\ dial[c] \in Dials /\ Prepared(c)
      BY <1>1, <2>4 DEF TypeOK, AloneInv, FindByUuid, FindByName, Create, SetUuid, Rename, StoreKey
    <3>2. Prepared(c)' /\ pc'[c] # "reading"
      BY <2>4, <3>1, StepPrepared
    <3>3. QED BY <3>2 DEF Published
  <2>5. QED BY <2>1, <2>2, <2>3, <2>4, StepsOfTheAlone DEF AloneInv
<1>3. NobodyElse'
  <2>1. SUFFICES ASSUME NEW c \in alone', NEW e \in Conns \ {c} PROVE ~InFlight(e)'
    BY DEF NobodyElse
  <2>2. CASE NobodyElse'
    BY <2>1, <2>2 DEF NobodyElse
  <2>3. CASE c \in alone /\ UNCHANGED <<rows, hub, pc, dial, row>>
    BY <2>1, <2>3 DEF AloneInv, NobodyElse, InFlight
  <2>4. QED BY <2>2, <2>3, StepsOfTheAlone DEF AloneInv
<1>4. QED BY <1>2, <1>3 DEF AloneInv

(* UndisturbedIsDiscoverable, for every value of the constants: whatever   *)
(* rows and connections it finds, a connection that nothing overlaps and   *)
(* whose statements succeed is offered to browsers with its own key        *)
(* (hub.go:66-112, and the public page endpoint of main.go).               *)
THEOREM TheUndisturbedAreDiscoverable == Spec => []UndisturbedIsDiscoverable
<1>1. Init => AloneInv
  BY DEF Init, AloneInv, NobodyElse
<1>2. IInv /\ AloneInv /\ [Next]_vars => AloneInv'
  BY StepAlone DEF IInv
<1>3. IInv /\ AloneInv => UndisturbedIsDiscoverable
  <2>1. SUFFICES ASSUME IInv, AloneInv, NEW c \in alone, pc[c] = "reading"
                 PROVE  /\ dial[c] \in Dials
                        /\ <<dial[c].uuid, dial[c]>> \in Discoverable(dial[c].user)
    BY DEF UndisturbedIsDiscoverable
  <2>2. c \in Conns /\ dial[c] \in Dials
    BY <2>1 DEF IInv, TypeOK
  <2>3. hub[dial[c].uuid] = c
    BY <2>1 DEF AloneInv, Published
  <2>4. PICK i \in RowIds : /\ Exists(i) /\ rows[i].user = dial[c].user
                            /\ rows[i].uuid = dial[c].uuid /\ rows[i].key = dial[c]
    BY <2>1 DEF AloneInv, Published
  <2>5. c # None /\ dial[c] # None
    BY <2>2 DEF RegistryAssumption
  <2>6. i \in {j \in ListAgents(dial[c].user) : hub[rows[j].uuid] # None /\ rows[j].key # None}
    BY <2>3, <2>4, <2>5 DEF ListAgents
  <2>7. QED BY <2>2, <2>4, <2>6 DEF Discoverable
<1>4. QED BY <1>1, <1>2, <1>3, Invariance, PTL DEF Spec
=============================================================================
