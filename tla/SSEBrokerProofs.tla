-------------------------- MODULE SSEBrokerProofs --------------------------
(***************************************************************************)
(* Proofs about SSEBroker for any number of agents, streams and goroutines *)
(* and any channel capacity, checked by TLAPS.                             *)
(***************************************************************************)
EXTENDS SSEBroker, SequenceTheorems, TLAPS

USE BrokerAssumption

-----------------------------------------------------------------------------
(* A stream is subscribed while its goroutine sends or serves, and its     *)
(* channel is closed only when that goroutine has left.                    *)
StageInv ==
  /\ stage \in [Senders -> Stages]
  /\ \A s \in subs : s \in Streams /\ stage[s] \notin {"idle", "leaving", "left"}
  /\ \A s \in closed : s \in Streams /\ stage[s] = "left"

LEMMA InitStageInv == Init => StageInv
BY DEF Init, StageInv, Stages

(* Whoever is in the middle of a send is neither idle nor leaving, and a   *)
(* stream that ends its send serves.                                       *)
LEMMA SendStageInv ==
  ASSUME StageInv, NEW g \in Senders, SendStep(g)
  PROVE  StageInv'
<1>1. subs' = subs /\ closed' = closed
  BY DEF SendStep, NotifyUser, ListAgents, ListFails, ReadStatus, Publish, streamVars
<1>2. CASE \E a \in Agents : ReadStatus(g, a)
  BY <1>1, <1>2 DEF StageInv, ReadStatus
<1>3. CASE ~ \E a \in Agents : ReadStatus(g, a)
  <2>1. /\ stage[g] \in {"notify", "list", "status", "check"}
        /\ stage' = [stage EXCEPT ![g] = Rest(g)]
           \/ stage' = [stage EXCEPT ![g] = "list"]
           \/ stage' = [stage EXCEPT ![g] = "status"]
    BY <1>3 DEF SendStep, NotifyUser, ListAgents, ListFails, Publish, Goto, Return
  <2>2. Rest(g) \in Stages /\ (g \in Streams => Rest(g) = "serving")
    BY DEF Rest, Stages
  <2>3. PICK to \in Stages : /\ stage' = [stage EXCEPT ![g] = to]
                             /\ g \in Streams => to \in {"list", "status", "serving"}
    BY <2>1, <2>2 DEF Stages
  <2>4. QED
    BY <1>1, <2>1, <2>3 DEF StageInv
<1>4. QED BY <1>2, <1>3

LEMMA CheckerStageInv ==
  ASSUME StageInv, CheckerStep
  PROVE  StageInv'
<1>1. subs' = subs /\ closed' = closed
  BY DEF CheckerStep, CheckerTick, CheckerList, Compare, streamVars
<1>2. PICK to \in Stages : stage' = [stage EXCEPT ![Checker] = to]
  BY DEF CheckerStep, CheckerTick, CheckerList, Compare, Goto, Return, Stages
<1>3. QED
  BY <1>1, <1>2 DEF StageInv, Senders

LEMMA StreamStageInv ==
  ASSUME StageInv, NEW s \in Streams, StreamStep(s)
  PROVE  StageInv'
<1>1. s \in Senders
  BY DEF Senders
<1>2. CASE Subscribe(s)
  BY <1>1, <1>2 DEF StageInv, Subscribe, Goto, Stages
<1>3. CASE Forward(s)
  BY <1>3 DEF StageInv, Forward, sendVars
<1>4. CASE Unsubscribe(s)
  BY <1>1, <1>4 DEF StageInv, Unsubscribe, Goto, Stages
<1>5. CASE Close(s)
  BY <1>1, <1>5 DEF StageInv, Close, Goto, Stages
<1>6. QED
  BY <1>2, <1>3, <1>4, <1>5 DEF StreamStep

LEMMA WorldStageInv ==
  ASSUME StageInv, WorldStep
  PROVE  StageInv'
<1>1. CASE \E a \in Agents : CreateAgent(a) \/ DeleteAgent(a)
  BY <1>1 DEF StageInv, CreateAgent, DeleteAgent, streamVars, sendVars
<1>2. ASSUME NEW g \in Notifiers, NEW a \in Agents, HubChange(g, a)
      PROVE  StageInv'
  BY <1>2 DEF StageInv, HubChange, Goto, Stages, Senders, streamVars
<1>3. QED
  BY <1>1, <1>2 DEF WorldStep

(* No snapshot is ever sent on a closed channel: a stream leaves the set   *)
(* of clients, under the mutex, before its channel is closed.              *)
THEOREM NeverSendsOnClosed == Spec => []NoSendOnClosed
<1>1. StageInv /\ [Next]_vars => StageInv'
  <2>1. StageInv /\ UNCHANGED vars => StageInv'
    BY DEF StageInv, vars, streamVars, sendVars
  <2>2. QED
    BY <2>1, SendStageInv, CheckerStageInv, StreamStageInv, WorldStageInv DEF Next
<1>2. StageInv => NoSendOnClosed
  BY DEF StageInv, NoSendOnClosed
<1>3. QED
  BY <1>1, <1>2, InitStageInv, PTL DEF Spec

-----------------------------------------------------------------------------
(* Snapshots, and what reading one more flag makes of one.                 *)
LEMMA SnapshotFields ==
  ASSUME NEW f \in Snapshots
  PROVE  DOMAIN f \subseteq Agents /\ f \in [DOMAIN f -> BOOLEAN]
BY DEF Snapshots

LEMMA NoStateType == NoState \in Snapshots /\ DOMAIN NoState = {}
<1>1. NoState \in [{} -> BOOLEAN]
  BY DEF NoState
<1>2. QED BY <1>1 DEF Snapshots, NoState

WithFlag(f, a) == [b \in DOMAIN f \cup {a} |-> IF b = a THEN a \in online ELSE f[b]]

LEMMA WithFlagType ==
  ASSUME NEW f \in Snapshots, NEW a \in Agents
  PROVE  WithFlag(f, a) \in Snapshots
<1>1. DOMAIN f \cup {a} \in SUBSET Agents
  BY SnapshotFields
<1>2. \A b \in DOMAIN f \cup {a} : (IF b = a THEN a \in online ELSE f[b]) \in BOOLEAN
  <2>1. TAKE b \in DOMAIN f \cup {a}
  <2>2. (a \in online) \in BOOLEAN
    OBVIOUS
  <2>3. b # a => f[b] \in BOOLEAN
    BY SnapshotFields
  <2>4. QED BY <2>2, <2>3
<1>3. WithFlag(f, a) \in [DOMAIN f \cup {a} -> BOOLEAN]
  BY <1>2 DEF WithFlag
<1>4. QED BY <1>1, <1>3 DEF Snapshots

(* The part of the type invariant about goroutines, and the part about     *)
(* streams, whose channels are sequences.                                  *)
SendTypes ==
  /\ stage \in [Senders -> Stages]
  /\ listed \in [Senders -> SUBSET Agents]
  /\ snap \in [Senders -> Snapshots]

StreamTypes ==
  /\ subs \subseteq Streams /\ closed \subseteq Streams /\ missed \subseteq Streams
  /\ queue \in [Streams -> Seq(Snapshots)]
  /\ \A s \in Streams : Len(queue[s]) <= Cap
  /\ screen \in [Streams -> Snapshots \cup {Unseen}]

TypeInv ==
  /\ SendTypes /\ StreamTypes
  /\ rows \subseteq Agents /\ online \subseteq Agents
  /\ last \in Snapshots /\ muddled \in BOOLEAN

LEMMA TypeInvIsTypeOK == TypeInv => TypeOK
BY DEF TypeInv, SendTypes, StreamTypes, TypeOK

LEMMA InitTypeInv == Init => TypeInv
<1> SUFFICES ASSUME Init PROVE TypeInv
  OBVIOUS
<1>1. SendTypes
  BY NoStateType DEF Init, SendTypes, Stages
<1>2. StreamTypes
  BY DEF Init, StreamTypes, BrokerAssumption
<1>3. QED BY <1>1, <1>2, NoStateType DEF Init, TypeInv

LEMMA ReturnType ==
  ASSUME SendTypes, NEW g \in Senders, NEW to \in Stages, Return(g, to)
  PROVE  SendTypes'
BY NoStateType DEF SendTypes, Return, Goto

(* The flags that the database has: false for every row.                   *)
LEMMA NoFlagsType ==
  ASSUME NEW shown \in SUBSET Agents
  PROVE  [a \in shown |-> FALSE] \in Snapshots
<1>1. [a \in shown |-> FALSE] \in [shown -> BOOLEAN]
  OBVIOUS
<1>2. QED BY <1>1 DEF Snapshots

LEMMA RestType == \A g \in Senders : Rest(g) \in Stages
BY DEF Rest, Stages

(* Where Publish puts a snapshot.                                          *)
Room == {s \in subs : Len(queue[s]) < Cap}

LEMMA PublishStreams ==
  ASSUME StreamTypes, NEW g \in Senders, snap[g] \in Snapshots, Publish(g)
  PROVE  /\ StreamTypes' /\ UNCHANGED <<subs, screen, online, muddled>>
         /\ missed' = missed \cup (subs \ Room)
         /\ \A s \in Room : queue'[s] # <<>> /\ queue'[s][Len(queue'[s])] = snap[g]
<1>1. /\ queue' = [s \in Streams |-> IF s \in Room THEN Append(queue[s], snap[g]) ELSE queue[s]]
      /\ missed' = missed \cup (subs \ Room)
      /\ UNCHANGED <<subs, closed, screen, online, muddled>>
  BY DEF Publish, Room, worldVars
<1>2. ASSUME NEW s \in Room
      PROVE  /\ Append(queue[s], snap[g]) \in Seq(Snapshots)
             /\ Append(queue[s], snap[g]) # <<>>
             /\ Len(Append(queue[s], snap[g])) <= Cap
             /\ Append(queue[s], snap[g])[Len(Append(queue[s], snap[g]))] = snap[g]
  <2>1. queue[s] \in Seq(Snapshots) /\ Len(queue[s]) < Cap
    BY DEF StreamTypes, Room
  <2>2. QED BY <2>1 DEF BrokerAssumption
<1>3. Room \subseteq Streams
  BY DEF Room, StreamTypes
<1>4. StreamTypes'
  BY <1>1, <1>2, <1>3 DEF StreamTypes
<1>5. QED BY <1>1, <1>2, <1>3, <1>4

LEMMA SendTypeInv ==
  ASSUME TypeInv, NEW g \in Senders, SendStep(g)
  PROVE  TypeInv'
<1> USE DEF TypeInv
<1>1. CASE NotifyUser(g)
  <2>1. SendTypes'
    BY <1>1, RestType DEF NotifyUser, Goto, SendTypes, Stages
  <2>2. QED BY <1>1, <2>1 DEF NotifyUser, StreamTypes, worldVars, streamVars
<1>2. CASE ListAgents(g)
  <2>1. SendTypes'
    BY <1>2 DEF ListAgents, Goto, SendTypes, Stages
  <2>2. QED BY <1>2, <2>1 DEF ListAgents, StreamTypes, worldVars, streamVars
<1>3. CASE ListFails(g)
  BY <1>3, RestType, ReturnType DEF ListFails, StreamTypes, worldVars, streamVars
<1>4. ASSUME NEW a \in Agents, ReadStatus(g, a) PROVE TypeInv'
  <2>1. snap' = [snap EXCEPT ![g] = WithFlag(snap[g], a)]
    BY <1>4 DEF ReadStatus, WithFlag, SendTypes
  <2>2. WithFlag(snap[g], a) \in Snapshots
    BY WithFlagType DEF SendTypes
  <2>3. SendTypes'
    BY <1>4, <2>1, <2>2 DEF ReadStatus, SendTypes
  <2>4. QED BY <1>4, <2>3 DEF ReadStatus, StreamTypes, worldVars, streamVars
<1>5. CASE Publish(g)
  <2>1. snap[g] \in Snapshots /\ listed[g] \in SUBSET Agents
    BY DEF SendTypes
  <2>2. SendTypes'
    BY <1>5, RestType, ReturnType DEF Publish
  <2>3. last' \in Snapshots
    BY <1>5, <2>1, NoFlagsType DEF Publish
  <2>4. QED BY <1>5, <2>1, <2>2, <2>3, PublishStreams DEF Publish, worldVars
<1>6. QED BY <1>1, <1>2, <1>3, <1>4, <1>5 DEF SendStep

LEMMA CheckerTypeInv ==
  ASSUME TypeInv, CheckerStep
  PROVE  TypeInv'
<1> USE DEF TypeInv, CheckerStep
<1>1. UNCHANGED <<worldVars, streamVars, last>> /\ muddled' \in BOOLEAN
  BY DEF CheckerTick, CheckerList, Compare
<1>2. StreamTypes' /\ rows' \subseteq Agents /\ online' \subseteq Agents
  BY <1>1 DEF StreamTypes, worldVars, streamVars
<1>3. Checker \in Senders
  BY DEF Senders
<1>4. ASSUME CheckerTick PROVE SendTypes'
  BY <1>3, <1>4 DEF CheckerTick, Goto, SendTypes, Stages
<1>5. ASSUME CheckerList PROVE SendTypes'
  BY <1>3, <1>5 DEF CheckerList, Goto, SendTypes, Stages
<1>6. ASSUME Compare PROVE SendTypes'
  BY <1>3, <1>6, ReturnType DEF Compare, Stages
<1>7. SendTypes'
  BY <1>4, <1>5, <1>6
<1>8. QED BY <1>1, <1>2, <1>7

LEMMA StreamTypeInv ==
  ASSUME TypeInv, NEW s \in Streams, StreamStep(s)
  PROVE  TypeInv'
<1> USE DEF TypeInv
<1>1. s \in Senders
  BY DEF Senders
<1>2. CASE Subscribe(s)
  <2>1. SendTypes'
    BY <1>1, <1>2 DEF Subscribe, Goto, SendTypes, Stages
  <2>2. QED BY <1>2, <2>1 DEF Subscribe, StreamTypes, worldVars
<1>3. CASE Forward(s)
  <2>1. queue[s] \in Seq(Snapshots) /\ queue[s] # <<>> /\ Len(queue[s]) <= Cap
    BY <1>3 DEF Forward, StreamTypes
  <2>2. /\ Head(queue[s]) \in Snapshots /\ Tail(queue[s]) \in Seq(Snapshots)
        /\ Len(Tail(queue[s])) <= Cap
    BY <2>1 DEF BrokerAssumption
  <2>3. StreamTypes'
    BY <1>3, <2>2 DEF Forward, StreamTypes
  <2>4. QED BY <1>3, <2>3 DEF Forward, SendTypes, worldVars, sendVars
<1>4. CASE Unsubscribe(s)
  <2>1. SendTypes'
    BY <1>1, <1>4 DEF Unsubscribe, Goto, SendTypes, Stages
  <2>2. QED BY <1>4, <2>1, NoStateType DEF Unsubscribe, StreamTypes, worldVars
<1>5. CASE Close(s)
  <2>1. SendTypes'
    BY <1>1, <1>5 DEF Close, Goto, SendTypes, Stages
  <2>2. QED BY <1>5, <2>1 DEF Close, StreamTypes, worldVars
<1>6. QED BY <1>2, <1>3, <1>4, <1>5 DEF StreamStep

LEMMA WorldTypeInv ==
  ASSUME TypeInv, WorldStep
  PROVE  TypeInv'
<1> USE DEF TypeInv
<1>1. ASSUME NEW a \in Agents, CreateAgent(a) \/ DeleteAgent(a) PROVE TypeInv'
  BY <1>1 DEF CreateAgent, DeleteAgent, SendTypes, StreamTypes, streamVars, sendVars
<1>2. ASSUME NEW g \in Notifiers, NEW a \in Agents, HubChange(g, a) PROVE TypeInv'
  <2>1. SendTypes'
    BY <1>2 DEF HubChange, Goto, SendTypes, Stages, Senders
  <2>2. QED BY <1>2, <2>1 DEF HubChange, StreamTypes, streamVars
<1>3. QED BY <1>1, <1>2 DEF WorldStep

LEMMA StepTypeInv == TypeInv /\ [Next]_vars => TypeInv'
<1>1. TypeInv /\ UNCHANGED vars => TypeInv'
  BY DEF TypeInv, SendTypes, StreamTypes, vars, worldVars, streamVars, sendVars
<1>2. QED
  BY <1>1, SendTypeInv, CheckerTypeInv, StreamTypeInv, WorldTypeInv DEF Next

(* TypeOK, for every value of the constants: no channel holds more than    *)
(* its capacity, and all that is in one is a snapshot of the user's agents.*)
THEOREM TypeCorrect == Spec => []TypeOK
BY InitTypeInv, StepTypeInv, TypeInvIsTypeOK, PTL DEF Spec

-----------------------------------------------------------------------------
(* A send that nothing overlaps.  Only a goroutine that reads the flags    *)
(* holds any; while sends do not overlap there is one of them, and what it *)
(* has read is what the hub says; and when no goroutine owes the streams a *)
(* snapshot (the checker never does), they are about to show the flags.    *)
Flags(f) == \A a \in DOMAIN f : f[a] = (a \in online)

ShowsHub(s) == Newest(s) # Unseen /\ Flags(Newest(s))

NothingRead == \A g \in Senders : stage[g] # "status" => snap[g] = NoState

OneAtATime == \A g, h \in Senders : Busy(g) /\ Busy(h) => g = h

ReadIsTrue == \A g \in Senders : Flags(snap[g])

NobodyOwes == \A g \in Senders \ {Checker} : ~Busy(g)

StreamsShowHub == \A s \in subs \ missed : ShowsHub(s)

Quiet == OneAtATime /\ ReadIsTrue /\ (NobodyOwes => StreamsShowHub)

QuietInv == NothingRead /\ (~muddled => Quiet)

LEMMA NoFlags == Flags(NoState)
BY NoStateType DEF Flags

LEMMA InitQuietInv == Init => QuietInv
BY NoFlags DEF Init, QuietInv, NothingRead, Quiet, OneAtATime, ReadIsTrue, StreamsShowHub, Busy

(* Flags and streams that no step touches.                                 *)
LEMMA ShownStays ==
  ASSUME UNCHANGED <<online, subs, missed, queue, screen>>
  PROVE  (StreamsShowHub => StreamsShowHub') /\ \A f : Flags(f)' <=> Flags(f)
BY DEF StreamsShowHub, ShowsHub, Newest, Flags

(* A goroutine that goes on to another step of its send, or ends it, while *)
(* the flags and the streams stay as they are.                             *)
LEMMA QuietGoesOn ==
  ASSUME SendTypes, Quiet, NEW g \in Senders, Busy(g), NEW to \in Stages,
         Goto(g, to), UNCHANGED <<online, subs, missed, queue, screen>>,
         \/ snap' = snap
         \/ snap' = [snap EXCEPT ![g] = NoState],
         g = Checker \/ to \in {"list", "status"} \/ subs = {}
  PROVE  Quiet'
<1>1. /\ stage' = [stage EXCEPT ![g] = to] /\ g \in DOMAIN stage
      /\ \A h \in Senders : Busy(h)' => Busy(h)
  BY DEF Goto, SendTypes, Busy
<1>2. OneAtATime'
  BY <1>1 DEF Quiet, OneAtATime
<1>3. ReadIsTrue'
  BY NoFlags, ShownStays DEF Quiet, ReadIsTrue, SendTypes
<1>4. ASSUME NobodyOwes' PROVE StreamsShowHub'
  <2>1. CASE subs = {}
    BY <2>1 DEF StreamsShowHub
  <2>2. CASE g = Checker
    <3>1. NobodyOwes
      BY <1>1, <1>4, <2>2 DEF NobodyOwes, Busy
    <3>2. QED BY <3>1, ShownStays DEF Quiet
  <2>3. CASE g # Checker /\ to \in {"list", "status"}
    BY <1>1, <1>4, <2>3 DEF NobodyOwes, Busy
  <2>4. QED BY <2>1, <2>2, <2>3
<1>5. QED BY <1>2, <1>3, <1>4 DEF Quiet

(* A goroutine that begins a send, when no other does; or the checker.     *)
LEMMA QuietBegins ==
  ASSUME SendTypes, NothingRead, NEW g \in Senders, stage[g] = "idle",
         \A h \in Senders : ~Busy(h), NEW to \in {"notify", "list", "check"},
         Goto(g, to), UNCHANGED snap,
         \/ g # Checker
         \/ Quiet /\ UNCHANGED <<online, subs, missed, queue, screen>>
  PROVE  Quiet'
<1>1. /\ stage' = [stage EXCEPT ![g] = to] /\ g \in DOMAIN stage
      /\ \A h \in Senders : Busy(h)' <=> h = g
  BY DEF Goto, SendTypes, Busy
<1>2. OneAtATime'
  BY <1>1 DEF OneAtATime
<1>3. \A h \in Senders : snap'[h] = NoState
  BY DEF NothingRead, Busy
<1>4. ReadIsTrue'
  BY <1>3, NoStateType DEF ReadIsTrue, Flags
<1>5. ASSUME NobodyOwes' PROVE StreamsShowHub'
  <2>1. g = Checker
    BY <1>1, <1>5 DEF NobodyOwes
  <2>2. NobodyOwes
    BY DEF NobodyOwes
  <2>3. QED BY <2>1, <2>2, ShownStays DEF Quiet
<1>6. QED BY <1>2, <1>4, <1>5 DEF Quiet

LEMMA NothingReadStep ==
  ASSUME SendTypes, NothingRead, NEW g \in Senders, NEW to \in Stages, Goto(g, to),
         \/ snap' = [snap EXCEPT ![g] = NoState]
         \/ snap' = snap /\ stage[g] # "status"
  PROVE  NothingRead'
BY DEF SendTypes, NothingRead, Goto

LEMMA SendQuietInv ==
  ASSUME TypeInv, QuietInv, NEW g \in Senders, SendStep(g)
  PROVE  QuietInv'
<1>a. SendTypes /\ StreamTypes /\ NothingRead /\ snap[g] \in Snapshots
  BY DEF TypeInv, QuietInv, SendTypes
<1>b. Rest(g) \in {"serving", "idle"} /\ {"list", "status", "serving", "idle"} \subseteq Stages
  BY DEF Rest, Stages
<1>1. CASE NotifyUser(g)
  <2>1. PICK to \in Stages : Goto(g, to) /\ (to = "list" \/ subs = {})
    BY <1>1, <1>b DEF NotifyUser
  <2>2. Busy(g) /\ UNCHANGED <<online, subs, missed, queue, screen, snap, muddled>>
    BY <1>1 DEF NotifyUser, Busy, worldVars, streamVars
  <2>3. NothingRead'
    BY <1>1, <1>a, <2>1, <2>2, NothingReadStep DEF NotifyUser
  <2>4. QED BY <1>a, <2>1, <2>2, <2>3, QuietGoesOn DEF QuietInv
<1>2. CASE ListAgents(g)
  <2>1. /\ Goto(g, "status") /\ stage[g] = "list"
        /\ UNCHANGED <<online, subs, missed, queue, screen, snap, muddled>>
    BY <1>2 DEF ListAgents, worldVars, streamVars
  <2>2. NothingRead'
    BY <1>a, <1>b, <2>1, NothingReadStep
  <2>3. QED BY <1>a, <1>b, <2>1, <2>2, QuietGoesOn DEF QuietInv, Busy
<1>3. CASE ListFails(g)
  BY <1>3, <1>a, <1>b, NothingReadStep DEF ListFails, Return, QuietInv
<1>4. ASSUME NEW a \in Agents, ReadStatus(g, a) PROVE QuietInv'
  <2>1. /\ snap' = [snap EXCEPT ![g] = WithFlag(snap[g], a)]
        /\ stage[g] = "status" /\ UNCHANGED stage
        /\ UNCHANGED <<online, subs, missed, queue, screen, muddled>>
    BY <1>4, <1>a DEF ReadStatus, WithFlag, worldVars, streamVars, SendTypes
  <2>2. NothingRead'
    BY <1>a, <2>1 DEF NothingRead, SendTypes
  <2>3. ASSUME Quiet PROVE Quiet'
    <3>1. OneAtATime' /\ (NobodyOwes' => NobodyOwes)
      BY <2>1, <2>3 DEF Quiet, OneAtATime, NobodyOwes, Busy
    <3>2. Flags(WithFlag(snap[g], a))
      BY <2>3 DEF Quiet, ReadIsTrue, Flags, WithFlag
    <3>3. ReadIsTrue'
      BY <1>a, <2>1, <2>3, <3>2, ShownStays DEF Quiet, ReadIsTrue, SendTypes
    <3>4. QED BY <2>1, <2>3, <3>1, <3>3, ShownStays DEF Quiet
  <2>4. QED BY <2>1, <2>2, <2>3 DEF QuietInv
<1>5. CASE Publish(g)
  <2>1. stage[g] = "status" /\ Goto(g, Rest(g)) /\ snap' = [snap EXCEPT ![g] = NoState]
    BY <1>5 DEF Publish, Return
  <2>2. NothingRead'
    BY <1>a, <1>b, <2>1, NothingReadStep
  <2>3. /\ UNCHANGED <<subs, screen, online, muddled>> /\ missed' = missed \cup (subs \ Room)
        /\ \A s \in Room : queue'[s] # <<>> /\ queue'[s][Len(queue'[s])] = snap[g]
    BY <1>5, <1>a, PublishStreams
  <2>4. ASSUME Quiet PROVE Quiet'
    <3>1. OneAtATime'
      BY <1>a, <1>b, <2>1, <2>4 DEF Quiet, OneAtATime, Busy, Goto, SendTypes
    <3>2. ReadIsTrue'
      <4>1. \A h \in Senders : snap'[h] \in {snap[h], NoState}
        BY <1>a, <2>1 DEF SendTypes
      <4>2. \A f : Flags(f)' <=> Flags(f)
        BY <2>3 DEF Flags
      <4>3. QED BY <2>4, <4>1, <4>2, NoFlags DEF Quiet, ReadIsTrue
    <3>3. StreamsShowHub'
      <4>1. SUFFICES ASSUME NEW s \in subs \ missed' PROVE ShowsHub(s)'
        BY <2>3 DEF StreamsShowHub
      <4>2. s \in Room
        BY <2>3, <4>1
      <4>3. Newest(s)' = snap[g]
        BY <2>3, <4>2 DEF Newest
      <4>4. snap[g] # Unseen /\ Flags(snap[g])
        BY <1>a, <2>4 DEF BrokerAssumption, Quiet, ReadIsTrue
      <4>5. QED BY <2>3, <4>3, <4>4 DEF ShowsHub, Flags
    <3>4. QED BY <3>1, <3>2, <3>3 DEF Quiet
  <2>5. QED BY <2>2, <2>3, <2>4 DEF QuietInv
<1>6. QED BY <1>1, <1>2, <1>3, <1>4, <1>5 DEF SendStep

LEMMA CheckerQuietInv ==
  ASSUME TypeInv, QuietInv, CheckerStep
  PROVE  QuietInv'
<1>a. SendTypes /\ NothingRead /\ Checker \in Senders
  BY DEF TypeInv, QuietInv, Senders
<1>b. UNCHANGED <<online, subs, missed, queue, screen>>
  BY DEF CheckerStep, CheckerTick, CheckerList, Compare, worldVars, streamVars
<1>1. CASE CheckerTick
  <2>1. /\ stage[Checker] = "idle" /\ Goto(Checker, "check") /\ UNCHANGED snap
        /\ muddled' = (muddled \/ \E h \in Senders : Busy(h))
    BY <1>1 DEF CheckerTick
  <2>2. NothingRead'
    BY <1>a, <2>1, NothingReadStep DEF Stages
  <2>3. ASSUME ~muddled' PROVE Quiet'
    <3>1. ~muddled /\ \A h \in Senders : ~Busy(h)
      BY <2>1, <2>3
    <3>2. QED BY <1>a, <1>b, <2>1, <3>1, QuietBegins DEF QuietInv
  <2>4. QED BY <2>2, <2>3 DEF QuietInv
<1>2. CASE CheckerList
  <2>1. /\ stage[Checker] = "check" /\ Goto(Checker, "compare") /\ UNCHANGED <<snap, muddled>>
    BY <1>2 DEF CheckerList
  <2>2. NothingRead'
    BY <1>a, <2>1, NothingReadStep DEF Stages
  <2>3. Quiet => Quiet'
    BY <1>a, <1>b, <2>1, QuietGoesOn DEF Busy, Stages
  <2>4. QED BY <2>1, <2>2, <2>3 DEF QuietInv
<1>3. CASE Compare
  <2>1. PICK to \in {"list", "idle"} :
          /\ stage[Checker] = "compare" /\ Goto(Checker, to)
          /\ snap' = [snap EXCEPT ![Checker] = NoState] /\ UNCHANGED muddled
    BY <1>3 DEF Compare, Return
  <2>2. NothingRead'
    BY <1>a, <2>1, NothingReadStep DEF Stages
  <2>3. Quiet => Quiet'
    BY <1>a, <1>b, <2>1, QuietGoesOn DEF Busy, Stages
  <2>4. QED BY <2>1, <2>2, <2>3 DEF QuietInv
<1>4. QED BY <1>1, <1>2, <1>3 DEF CheckerStep

(* A sequence without its head has the same last element, if it has one.   *)
LEMMA TailKeepsLast ==
  ASSUME NEW q \in Seq(Snapshots), q # <<>>
  PROVE  /\ Tail(q) = <<>> => Head(q) = q[Len(q)]
         /\ Tail(q) # <<>> => Tail(q)[Len(Tail(q))] = q[Len(q)]
<1> DEFINE t == Tail(q)
<1>1. /\ t \in Seq(Snapshots) /\ Len(t) = Len(q) - 1
      /\ \A i \in 1 .. Len(t) : t[i] = q[i + 1]
  BY HeadTailProperties
<1>2. Len(q) \in Nat /\ Head(q) = q[1]
  OBVIOUS
<1> HIDE DEF t
<1>3. ASSUME t = <<>> PROVE Head(q) = q[Len(q)]
  <2>1. Len(t) = 0
    BY <1>3, EmptySeq
  <2>2. Len(q) = 1
    <3> DEFINE n == Len(q)
    <3>1. n \in Nat /\ 0 = n - 1
      BY <1>1, <1>2, <2>1
    <3> HIDE DEF n
    <3>2. n = 1
      BY <3>1
    <3>3. QED BY <3>2 DEF n
  <2>3. QED BY <1>2, <2>2
<1>4. ASSUME t # <<>> PROVE t[Len(t)] = q[Len(q)]
  <2>1. Len(t) \in Nat \ {0}
    BY <1>1, <1>4, EmptySeq
  <2>2. Len(t) \in 1 .. Len(t)
    BY <2>1
  <2>3. QED BY <1>1, <1>2, <2>1, <2>2
<1>5. QED BY <1>3, <1>4 DEF t

(* A stream that is written to its browser still has the same newest.      *)
LEMMA ForwardKeepsNewest ==
  ASSUME StreamTypes, NEW s \in Streams, Forward(s), NEW t \in Streams
  PROVE  Newest(t)' = Newest(t)
<1>1. /\ queue[s] \in Seq(Snapshots) /\ queue[s] # <<>>
      /\ screen' = [screen EXCEPT ![s] = Head(queue[s])]
      /\ queue'  = [queue EXCEPT ![s] = Tail(queue[s])]
  BY DEF Forward, StreamTypes
<1>2. CASE t # s
  BY <1>1, <1>2 DEF Newest, StreamTypes
<1>3. CASE t = s
  <2>1. queue'[s] = Tail(queue[s]) /\ screen'[s] = Head(queue[s])
    BY <1>1 DEF StreamTypes
  <2>2. QED BY <1>1, <1>3, <2>1, TailKeepsLast DEF Newest
<1>4. QED BY <1>2, <1>3

(* A step that begins and ends no send, and takes no flag away.            *)
LEMMA QuietStays ==
  ASSUME QuietInv, UNCHANGED <<online, snap, muddled>>,
         \A g \in Senders : /\ Busy(g)' <=> Busy(g)
                            /\ stage'[g] = "status" <=> stage[g] = "status",
         subs' \subseteq subs, UNCHANGED missed,
         \A s \in subs : Newest(s)' = Newest(s)
  PROVE  QuietInv'
<1>1. NothingRead'
  BY DEF QuietInv, NothingRead
<1>2. ASSUME Quiet PROVE Quiet'
  <2>1. OneAtATime' /\ (NobodyOwes' => NobodyOwes)
    BY <1>2 DEF Quiet, OneAtATime, NobodyOwes
  <2>2. ReadIsTrue'
    BY <1>2 DEF Quiet, ReadIsTrue, Flags
  <2>3. StreamsShowHub => StreamsShowHub'
    BY DEF StreamsShowHub, ShowsHub, Flags
  <2>4. QED BY <1>2, <2>1, <2>2, <2>3 DEF Quiet
<1>3. QED BY <1>1, <1>2 DEF QuietInv

LEMMA StreamQuietInv ==
  ASSUME TypeInv, QuietInv, NEW s \in Streams, StreamStep(s)
  PROVE  QuietInv'
<1>a. SendTypes /\ StreamTypes /\ NothingRead /\ s \in Senders /\ s # Checker
  BY DEF TypeInv, QuietInv, Senders, BrokerAssumption
<1>1. CASE Subscribe(s)
  <2>1. /\ stage[s] = "idle" /\ Goto(s, "list") /\ UNCHANGED snap
        /\ muddled' = \E h \in Senders : Busy(h)
    BY <1>1 DEF Subscribe
  <2>2. NothingRead'
    BY <1>a, <2>1, NothingReadStep DEF Stages
  <2>3. ~muddled' => Quiet'
    BY <1>a, <2>1, QuietBegins
  <2>4. QED BY <2>2, <2>3 DEF QuietInv
<1>2. CASE Forward(s)
  <2>1. UNCHANGED <<online, snap, muddled, stage, subs, missed>>
    BY <1>2 DEF Forward, worldVars, sendVars
  <2>2. \A t \in subs : Newest(t)' = Newest(t)
    BY <1>2, <1>a, ForwardKeepsNewest DEF StreamTypes
  <2>3. QED BY <2>1, <2>2, QuietStays DEF Busy
<1>3. CASE Unsubscribe(s) \/ Close(s)
  <2>1. /\ UNCHANGED <<online, snap, muddled, queue, screen, missed>>
        /\ subs' \subseteq subs
    BY <1>3 DEF Unsubscribe, Close, worldVars
  <2>2. PICK to \in {"leaving", "left"} :
          stage[s] \in {"serving", "leaving"} /\ Goto(s, to)
    BY <1>3 DEF Unsubscribe, Close
  <2>3. \A g \in Senders : /\ Busy(g)' <=> Busy(g)
                           /\ stage'[g] = "status" <=> stage[g] = "status"
    BY <1>a, <2>2 DEF Goto, SendTypes, Busy
  <2>4. \A t \in subs : Newest(t)' = Newest(t)
    BY <2>1 DEF Newest
  <2>5. QED BY <2>1, <2>3, <2>4, QuietStays
<1>4. QED BY <1>1, <1>2, <1>3 DEF StreamStep

LEMMA WorldQuietInv ==
  ASSUME TypeInv, QuietInv, WorldStep
  PROVE  QuietInv'
<1>1. ASSUME NEW a \in Agents, CreateAgent(a) \/ DeleteAgent(a) PROVE QuietInv'
  BY <1>1, QuietStays DEF CreateAgent, DeleteAgent, streamVars, sendVars, Busy, Newest
<1>2. ASSUME NEW g \in Notifiers, NEW a \in Agents, HubChange(g, a) PROVE QuietInv'
  <2>1. SendTypes /\ NothingRead /\ g \in Senders /\ g # Checker
    BY DEF TypeInv, QuietInv, Senders, BrokerAssumption
  <2>2. /\ stage[g] = "idle" /\ Goto(g, "notify") /\ UNCHANGED snap
        /\ muddled' = \E h \in Senders : Busy(h)
    BY <1>2 DEF HubChange
  <2>3. NothingRead'
    BY <2>1, <2>2, NothingReadStep DEF Stages
  <2>4. ~muddled' => Quiet'
    BY <2>1, <2>2, QuietBegins
  <2>5. QED BY <2>3, <2>4 DEF QuietInv
<1>3. QED BY <1>1, <1>2 DEF WorldStep

(* QuietStreamsAreAccurate, for every value of the constants: with any     *)
(* number of agents, connections and streams, once the last send ran alone *)
(* every stream that was not full is about to show what the hub says       *)
(* (sse.go:57-129).                                                        *)
THEOREM QuietIsAccurate == Spec => []QuietStreamsAreAccurate
<1>1. TypeInv /\ QuietInv /\ [Next]_vars => QuietInv'
  <2>1. QuietInv /\ UNCHANGED vars => QuietInv'
    BY QuietStays DEF vars, worldVars, streamVars, sendVars, Busy, Newest
  <2>2. QED
    BY <2>1, SendQuietInv, CheckerQuietInv, StreamQuietInv, WorldQuietInv DEF Next
<1>2. QuietInv => QuietStreamsAreAccurate
  BY DEF QuietInv, Quiet, NobodyOwes, StreamsShowHub, ShowsHub, Flags, QuietStreamsAreAccurate
<1>3. QED
  BY <1>1, <1>2, InitTypeInv, StepTypeInv, InitQuietInv, PTL DEF Spec
=============================================================================
