--------------------------- MODULE RelayHubProofs ---------------------------
(***************************************************************************)
(* Proofs about RelayHub for any number of agents, connections, requests   *)
(* and ids, checked by TLAPS: the safety of its channels and answers, and  *)
(* that it implements the safety of RelayRPC.                              *)
(***************************************************************************)
EXTENDS RelayHub, TLAPS

USE ConstAssumption DEF Phases, Steps, Places, Replies

-----------------------------------------------------------------------------
(* Types.                                                                  *)

LEMMA InitTypeOK == Init => TypeOK
BY DEF Init, TypeOK

LEMMA ServerTypeOK ==
  ASSUME TypeOK, NEW c \in Conns, ServerStep(c)
  PROVE  TypeOK'
<1>1. CASE Register(c)
  BY <1>1 DEF TypeOK, Register, netVars, reqVars, chanVars
<1>2. CASE Deliver(c)
  BY <1>2 DEF TypeOK, Deliver, netVars, reqVars
<1>3. CASE ReadFail(c)
  BY <1>3 DEF TypeOK, ReadFail, reqVars, chanVars
<1>4. CASE Unregister(c)
  BY <1>4 DEF TypeOK, Unregister, netVars, reqVars, chanVars
<1>5. CASE Drain(c)
  BY <1>5 DEF TypeOK, Drain, PendingOn, netVars, reqVars
<1>6. ASSUME NEW r \in Requests, ReadResponse(c, r)
      PROVE  TypeOK'
  <2>1. CASE pending[c][IdOf[r]] # None
    <3> DEFINE d == [ch |-> pending[c][IdOf[r]], resp |-> r]
    <3>1. IdOf[r] \in Ids /\ pending[c][IdOf[r]] \in Requests
      BY <2>1 DEF TypeOK
    <3>2. d \in [ch : Requests, resp : Requests]
      BY <3>1
    <3>3. hand' = [hand EXCEPT ![c] = d]
      BY <1>6, <2>1 DEF ReadResponse
    <3>4. hand' \in [Conns -> [ch : Requests, resp : Requests] \cup {None}]
      <4> HIDE DEF d
      <4> QED BY <3>2, <3>3 DEF TypeOK
    <3>5. pending' = [pending EXCEPT ![c][IdOf[r]] = None]
      BY <1>6, <2>1 DEF ReadResponse
    <3>6. pending' \in [Conns -> [Ids -> Requests \cup {None}]]
      BY <3>1, <3>5 DEF TypeOK
    <3>7. QED
      BY <1>6, <3>4, <3>5, <3>6 DEF TypeOK, ReadResponse, reqVars, chanVars
  <2>2. CASE pending[c][IdOf[r]] = None
    BY <1>6, <2>2 DEF TypeOK, ReadResponse, reqVars, chanVars
  <2>3. QED BY <2>1, <2>2
<1>7. QED
  BY <1>1, <1>2, <1>3, <1>4, <1>5, <1>6 DEF ServerStep

LEMMA RequestTypeOK ==
  ASSUME TypeOK, NEW r \in Requests, RequestStep(r)
  PROVE  TypeOK'
<1>1. CASE CheckOnline(r)
  BY <1>1 DEF TypeOK, CheckOnline, Goto, Finish, hubVars, netVars, chanVars
<1>2. CASE LookupConn(r)
  <2>1. agents[TargetOf[r]] \in Conns \cup {None}
    BY DEF TypeOK
  <2>2. QED
    BY <1>2, <2>1 DEF TypeOK, LookupConn, IsOnline, Goto, Finish, hubVars, netVars, chanVars
<1>3. CASE AddPending(r)
  <2>1. CASE phase[conn[r]] = "closed"
    BY <1>3, <2>1 DEF TypeOK, AddPending, Finish, netVars, chanVars
  <2>2. CASE phase[conn[r]] # "closed"
    <3>1. pending' = [pending EXCEPT ![conn[r]][IdOf[r]] = r]
      BY <1>3, <2>2 DEF AddPending
    <3>2. pending' \in [Conns -> [Ids -> Requests \cup {None}]]
      BY <3>1 DEF TypeOK
    <3>3. QED
      BY <1>3, <2>2, <3>1, <3>2 DEF TypeOK, AddPending, Goto, netVars, chanVars
  <2>3. QED BY <2>1, <2>2
<1>4. CASE WriteRequest(r)
  BY <1>4 DEF TypeOK, WriteRequest, Goto, hubVars, chanVars
<1>5. CASE WriteFail(r)
  <2>1. wire' \in [Requests -> Places]
    <3>1. PICK place \in {"none", "toAgent"} : wire' = [wire EXCEPT ![r] = place]
      BY <1>5 DEF WriteFail
    <3>2. QED BY <3>1 DEF TypeOK, Places
  <2>2. pc' = [pc EXCEPT ![r] = "giveup"]
    BY <1>5 DEF WriteFail, Goto
  <2>3. pc' \in [Requests -> Steps]
    BY <2>2 DEF TypeOK, Steps
  <2>4. QED
    BY <1>5, <2>1, <2>3 DEF TypeOK, WriteFail, Goto, hubVars, chanVars
<1>6. CASE Timeout(r)
  BY <1>6 DEF TypeOK, Timeout, Goto, hubVars, netVars, chanVars
<1>7. CASE Receive(r)
  BY <1>7 DEF TypeOK, Receive, Finish, hubVars, netVars
<1>8. CASE GiveUp(r)
  <2>1. pending' = [pending EXCEPT ![conn[r]][IdOf[r]] = None]
    BY <1>8 DEF GiveUp
  <2>2. pending' \in [Conns -> [Ids -> Requests \cup {None}]]
    BY <2>1 DEF TypeOK
  <2>3. QED
    BY <1>8, <2>1, <2>2 DEF TypeOK, GiveUp, Finish, netVars, chanVars
<1>9. QED
  BY <1>1, <1>2, <1>3, <1>4, <1>5, <1>6, <1>7, <1>8 DEF RequestStep

LEMMA AgentTypeOK ==
  ASSUME TypeOK, AgentStep
  PROVE  TypeOK'
<1>1. ASSUME NEW a \in Agents, LoseLink(a)
      PROVE  TypeOK'
  BY <1>1 DEF TypeOK, LoseLink, hubVars, reqVars, chanVars
<1>2. ASSUME NEW a \in Agents, NEW c \in Conns, Accept(a, c)
      PROVE  TypeOK'
  BY <1>2 DEF TypeOK, Accept, reqVars, chanVars
<1>3. ASSUME NEW r \in Requests, AgentHandle(r)
      PROVE  TypeOK'
  BY <1>3 DEF TypeOK, AgentHandle, hubVars, reqVars, chanVars
<1>4. ASSUME NEW r \in Requests, AgentRespond(r)
      PROVE  TypeOK'
  BY <1>4 DEF TypeOK, AgentRespond, hubVars, reqVars, chanVars
<1>5. QED
  BY <1>1, <1>2, <1>3, <1>4 DEF AgentStep

LEMMA StutterTypeOK ==
  ASSUME TypeOK, UNCHANGED vars
  PROVE  TypeOK'
BY DEF TypeOK, vars, hubVars, netVars, reqVars, chanVars

(* Every reachable state is well typed, and a drained connection's map has *)
(* no entry, whatever the instance.                                        *)
THEOREM TypeCorrect == Spec => []TypeOK
<1>1. TypeOK /\ [Next]_vars => TypeOK'
  BY ServerTypeOK, RequestTypeOK, AgentTypeOK, StutterTypeOK DEF Next, Finished
<1>2. QED
  BY <1>1, InitTypeOK, PTL DEF Spec

-----------------------------------------------------------------------------
(* Channels.                                                               *)

LEMMA HandType ==
  ASSUME TypeOK, NEW c \in Conns, hand[c] # None
  PROVE  hand[c].ch \in Requests /\ hand[c].resp \in Requests
<1>1. hand[c] \in [ch : Requests, resp : Requests]
  BY DEF TypeOK
<1>2. QED BY <1>1

LEMMA ServerChannelInv ==
  ASSUME TypeOK, TypeOK', ChannelInv, NEW c \in Conns, ServerStep(c)
  PROVE  ChannelInv'
<1> USE DEF ChannelInv, FreshChannels, PendingChannels, HeldChannels,
            PendingChannel, HeldChannel, Untouched
<1>1. CASE Register(c)
  BY <1>1 DEF TypeOK, Register, netVars, reqVars, chanVars
<1>2. CASE Deliver(c)
  <2> DEFINE t == hand[c].ch
  <2>1. t \in Requests /\ HeldChannel(c, t)
    BY <1>2, HandType DEF Deliver
  <2>2. buf' = [buf EXCEPT ![t] = hand[c].resp] /\ hand' = [hand EXCEPT ![c] = None]
    BY <1>2 DEF Deliver
  <2>3. UNCHANGED <<phase, pending, pc, conn, closed>>
    BY <1>2 DEF Deliver, reqVars
  <2> HIDE DEF t
  <2>4. FreshChannels'
    BY <2>1, <2>2, <2>3 DEF TypeOK
  <2>5. PendingChannels'
    BY <2>1, <2>2, <2>3 DEF TypeOK
  <2>6. ASSUME NEW d \in Conns, hand'[d] # None
        PROVE  HeldChannel(d, hand[d].ch)' /\ hand'[d] = hand[d]
    <3>1. d # c /\ hand'[d] = hand[d]
      BY <2>2, <2>6 DEF TypeOK
    <3>2. hand[d].ch \in Requests /\ HeldChannel(d, hand[d].ch) /\ hand[d].ch # t
      BY <2>1, <2>6, <3>1, HandType
    <3>3. QED BY <2>2, <2>3, <3>1, <3>2 DEF TypeOK
  <2>7. QED BY <2>4, <2>5, <2>6
<1>3. CASE ReadFail(c)
  BY <1>3 DEF TypeOK, ReadFail, reqVars, chanVars
<1>4. CASE Unregister(c)
  BY <1>4 DEF TypeOK, Unregister, netVars, reqVars, chanVars
<1>5. CASE Drain(c)
  <2> DEFINE P == PendingOn(c)
  <2>1. \A r \in P : r \in Requests /\ conn[r] = c /\ pc[r] \in {"registered", "waiting", "giveup"}
    BY DEF TypeOK, PendingOn
  <2>2. \A r \in Requests \ P : buf'[r] = buf[r] /\ (r \in closed' <=> r \in closed)
    BY <1>5 DEF Drain
  <2>3. UNCHANGED <<hand, pc, conn>> /\ phase[c] = "unregistered"
    BY <1>5 DEF Drain, reqVars
  <2>4. phase' = [phase EXCEPT ![c] = "closed"]
        /\ pending' = [pending EXCEPT ![c] = [i \in Ids |-> None]]
    BY <1>5 DEF Drain
  <2> HIDE DEF P
  <2>5. FreshChannels'
    BY <2>1, <2>2, <2>3
  <2>6. ASSUME NEW d \in Conns, NEW i \in Ids, pending'[d][i] # None
        PROVE  PendingChannel(d, i, pending[d][i])' /\ pending'[d][i] = pending[d][i]
    <3>1. d # c /\ pending'[d][i] = pending[d][i]
      BY <2>4, <2>6 DEF TypeOK
    <3>2. pending[d][i] \in Requests \ P /\ PendingChannel(d, i, pending[d][i])
      BY <2>1, <2>6, <3>1 DEF TypeOK
    <3>3. QED BY <2>2, <2>3, <3>1, <3>2
  <2>7. ASSUME NEW d \in Conns, hand[d] # None
        PROVE  HeldChannel(d, hand[d].ch)'
    <3>1. d # c
      BY <2>3, <2>7
    <3>2. hand[d].ch \in Requests \ P /\ HeldChannel(d, hand[d].ch)
      BY <2>1, <2>7, <3>1, HandType
    <3>3. phase'[d] = phase[d] /\ pending'[d] = pending[d]
      BY <2>4, <3>1 DEF TypeOK
    <3>4. QED BY <2>2, <2>3, <3>2, <3>3
  <2>8. QED BY <2>3, <2>5, <2>6, <2>7
<1>6. ASSUME NEW r \in Requests, ReadResponse(c, r)
      PROVE  ChannelInv'
  <2>1. CASE pending[c][IdOf[r]] = None
    BY <1>6, <2>1 DEF TypeOK, ReadResponse, reqVars, chanVars
  <2>2. CASE pending[c][IdOf[r]] # None
    <3> PICK t \in Requests : t = pending[c][IdOf[r]]
      BY <2>2 DEF TypeOK
    <3> DEFINE d == [ch |-> t, resp |-> r]
    <3>1. PendingChannel(c, IdOf[r], t) /\ phase[c] = "reading"
      BY <1>6, <2>2 DEF TypeOK, ReadResponse
    <3>2. hand' = [hand EXCEPT ![c] = d] /\ pending' = [pending EXCEPT ![c][IdOf[r]] = None]
      BY <1>6, <2>2 DEF ReadResponse
    <3>3. UNCHANGED <<phase, pc, conn, buf, closed>>
      BY <1>6 DEF ReadResponse, reqVars, chanVars
    <3>4. d.ch = t
      OBVIOUS
    <3> HIDE DEF d
    <3>5. PendingChannels'
      BY <3>2, <3>3 DEF TypeOK
    <3>6. HeldChannel(c, t)' /\ hand'[c].ch = t
      BY <3>1, <3>2, <3>3, <3>4 DEF TypeOK
    <3>7. ASSUME NEW e \in Conns, e # c, hand'[e] # None
          PROVE  HeldChannel(e, hand[e].ch)' /\ hand'[e] = hand[e]
      BY <3>2, <3>3, <3>7, HandType DEF TypeOK
    <3>8. QED BY <3>3, <3>5, <3>6, <3>7
  <2>3. QED BY <2>1, <2>2
<1>7. QED
  BY <1>1, <1>2, <1>3, <1>4, <1>5, <1>6 DEF ServerStep

LEMMA RequestChannelInv ==
  ASSUME TypeOK, TypeOK', RouteInv, ChannelInv, NEW r \in Requests, RequestStep(r)
  PROVE  ChannelInv'
<1> USE DEF ChannelInv, FreshChannels, PendingChannels, HeldChannels,
            PendingChannel, HeldChannel, Untouched
<1> DEFINE others == \A s \in Requests \ {r} : pc'[s] = pc[s] /\ conn'[s] = conn[s]
<1>h. \A c \in Conns : hand[c] # None =>
        hand[c].ch \in Requests /\ HeldChannel(c, hand[c].ch)
  BY HandType
<1>p. \A c \in Conns, i \in Ids : pending[c][i] # None =>
        pending[c][i] \in Requests /\ PendingChannel(c, i, pending[c][i])
  BY DEF TypeOK
<1>c. pc[r] \in {"found", "registered", "waiting", "giveup"} => conn[r] \in Conns
  BY DEF TypeOK, RouteInv, RoutedToTarget
<1>a. ASSUME others, UNCHANGED <<hubVars, chanVars>>,
             pc[r] \in {"idle", "checked", "found"}
      PROVE  ChannelInv'
  BY <1>a, <1>h, <1>p DEF hubVars, chanVars
<1>1. CASE CheckOnline(r)
  BY <1>1, <1>a DEF TypeOK, CheckOnline, Goto, Finish
<1>2. CASE LookupConn(r)
  BY <1>2, <1>a DEF TypeOK, LookupConn, Goto, Finish
<1>3. CASE AddPending(r)
  <2>1. CASE phase[conn[r]] = "closed"
    BY <1>3, <2>1, <1>a DEF TypeOK, AddPending, Finish, hubVars
  <2>2. CASE phase[conn[r]] # "closed"
    <3>1. others /\ conn' = conn /\ pc'[r] = "registered" /\ pc[r] = "found"
      BY <1>3, <2>2 DEF TypeOK, AddPending, Goto
    <3>2. conn[r] \in Conns
          /\ \A c \in Conns, i \in Ids : pending'[c][i] =
               IF c = conn[r] /\ i = IdOf[r] THEN r ELSE pending[c][i]
      BY <1>3, <2>2, <1>c DEF TypeOK, AddPending
    <3>3. UNCHANGED <<phase, hand, buf, closed>>
      BY <1>3 DEF AddPending, chanVars
    <3>4. FreshChannels'
      BY <3>1, <3>3
    <3>5. PendingChannels'
      BY <3>1, <3>2, <3>3, <1>p
    <3>6. HeldChannels'
      BY <3>1, <3>2, <3>3, <1>h
    <3>7. QED BY <3>4, <3>5, <3>6
  <2>3. QED BY <2>1, <2>2
<1>b. ASSUME others, conn' = conn, UNCHANGED <<hubVars, chanVars>>,
             pc[r] \in {"registered", "waiting"},
             pc'[r] \in {"waiting", "giveup"}
      PROVE  ChannelInv'
  BY <1>b, <1>h, <1>p DEF hubVars, chanVars
<1>4. CASE WriteRequest(r) \/ WriteFail(r) \/ Timeout(r)
  BY <1>4, <1>b DEF TypeOK, WriteRequest, WriteFail, Timeout, Goto
<1>5. CASE Receive(r)
  <2>1. others /\ conn' = conn /\ pc'[r] = "done" /\ buf[r] # None
    BY <1>5 DEF TypeOK, Receive, Finish
  <2>2. UNCHANGED <<phase, pending, hand, closed>>
        /\ \A s \in Requests \ {r} : buf'[s] = buf[s]
    BY <1>5 DEF TypeOK, Receive, hubVars
  <2>3. QED BY <2>1, <2>2, <1>h, <1>p
<1>6. CASE GiveUp(r)
  <2>1. others /\ conn' = conn /\ pc'[r] = "done" /\ pc[r] = "giveup"
    BY <1>6 DEF TypeOK, GiveUp, Finish
  <2>2. conn[r] \in Conns
        /\ \A c \in Conns, i \in Ids : pending'[c][i] =
             IF c = conn[r] /\ i = IdOf[r] THEN None ELSE pending[c][i]
    BY <1>6, <1>c DEF TypeOK, GiveUp
  <2>3. UNCHANGED <<phase, hand, buf, closed>>
    BY <1>6 DEF GiveUp, chanVars
  <2>4. PendingChannels'
    BY <2>1, <2>2, <2>3, <1>p
  <2>5. HeldChannels'
    BY <2>1, <2>2, <2>3, <1>h
  <2>6. QED BY <2>1, <2>3, <2>4, <2>5
<1>7. QED
  BY <1>1, <1>2, <1>3, <1>4, <1>5, <1>6 DEF RequestStep

LEMMA AgentChannelInv ==
  ASSUME TypeOK, ChannelInv, AgentStep
  PROVE  ChannelInv'
<1> USE DEF ChannelInv, FreshChannels, PendingChannels, HeldChannels,
            PendingChannel, HeldChannel, Untouched
<1>1. ASSUME NEW a \in Agents, NEW c \in Conns, Accept(a, c)
      PROVE  ChannelInv'
  BY <1>1 DEF TypeOK, Accept, reqVars, chanVars
<1>2. UNCHANGED <<phase, pending, hand, pc, conn, buf, closed>> => ChannelInv'
  OBVIOUS
<1>3. QED
  BY <1>1, <1>2
  DEF AgentStep, LoseLink, AgentHandle, AgentRespond, hubVars, reqVars, chanVars

-----------------------------------------------------------------------------
(* Routing and correlation.                                                *)

LEMMA ServerRouteInv ==
  ASSUME TypeOK, RouteInv, NEW c \in Conns, ServerStep(c)
  PROVE  RouteInv'
<1> USE DEF RouteInv, OwnersKnown, HubEntryIsLive, RoutedToTarget, IsOnline
<1>1. CASE Register(c)
  BY <1>1 DEF TypeOK, Register, reqVars
<1>2. CASE Deliver(c)
  BY <1>2 DEF Deliver, reqVars
<1>3. CASE ReadFail(c)
  BY <1>3 DEF TypeOK, ReadFail, reqVars
<1>4. CASE Unregister(c)
  BY <1>4 DEF TypeOK, Unregister, reqVars
<1>5. CASE Drain(c)
  BY <1>5 DEF TypeOK, Drain, reqVars
<1>6. CASE \E r \in Requests : ReadResponse(c, r)
  BY <1>6 DEF ReadResponse, reqVars
<1>7. QED
  BY <1>1, <1>2, <1>3, <1>4, <1>5, <1>6 DEF ServerStep

LEMMA RequestRouteInv ==
  ASSUME TypeOK, RouteInv, NEW r \in Requests, RequestStep(r)
  PROVE  RouteInv'
<1> USE DEF RouteInv, OwnersKnown, HubEntryIsLive, RoutedToTarget, IsOnline
<1>1. CASE LookupConn(r)
  <2> DEFINE a == TargetOf[r]
  <2>1. UNCHANGED <<agents, phase, owner>> /\ a \in Agents
    BY <1>1 DEF LookupConn, hubVars
  <2>2. CASE agents[a] = None
    BY <1>1, <2>1, <2>2 DEF TypeOK, LookupConn, Finish
  <2>3. CASE agents[a] # None
    <3>1. conn' = [conn EXCEPT ![r] = agents[a]] /\ pc' = [pc EXCEPT ![r] = "found"]
      BY <1>1, <2>3 DEF LookupConn, Goto
    <3>2. owner[agents[a]] = a /\ phase[agents[a]] # "unused"
      BY <2>1, <2>3
    <3> HIDE DEF a
    <3>3. \A s \in Requests \ {r} : conn'[s] = conn[s] /\ pc'[s] = pc[s]
      BY <3>1 DEF TypeOK
    <3>4. conn'[r] = agents[a] /\ pc'[r] = "found"
      BY <3>1 DEF TypeOK
    <3>5. RoutedToTarget'
      BY <2>1, <2>3, <3>2, <3>3, <3>4 DEF a
    <3>6. QED BY <2>1, <3>5
  <2>4. QED BY <2>2, <2>3
<1>2. ASSUME UNCHANGED <<agents, phase, owner, conn>>,
             \A s \in Requests \ {r} : pc'[s] = pc[s],
             pc[r] \in {"found", "registered", "waiting", "giveup"}
               \/ pc'[r] \in {"checked", "done"}
      PROVE  RouteInv'
  BY <1>2
<1> HIDE DEF RouteInv
<1>3. CASE CheckOnline(r)
  BY <1>2, <1>3 DEF TypeOK, CheckOnline, Goto, Finish, hubVars
<1>4. CASE AddPending(r) \/ WriteRequest(r) \/ WriteFail(r)
  BY <1>2, <1>4 DEF TypeOK, AddPending, WriteRequest, WriteFail, Goto, Finish, hubVars
<1>5. CASE Receive(r) \/ Timeout(r) \/ GiveUp(r)
  BY <1>2, <1>5 DEF TypeOK, Receive, Timeout, GiveUp, Goto, Finish, hubVars
<1>6. QED
  BY <1>1, <1>3, <1>4, <1>5 DEF RequestStep

LEMMA AgentRouteInv ==
  ASSUME TypeOK, RouteInv, AgentStep
  PROVE  RouteInv'
<1> USE DEF RouteInv, OwnersKnown, HubEntryIsLive, RoutedToTarget, IsOnline
<1>1. ASSUME NEW a \in Agents, NEW c \in Conns, Accept(a, c)
      PROVE  RouteInv'
  BY <1>1 DEF TypeOK, Accept, reqVars
<1>2. UNCHANGED <<agents, phase, owner, pc, conn>> => RouteInv'
  OBVIOUS
<1>3. QED
  BY <1>1, <1>2 DEF AgentStep, LoseLink, AgentHandle, AgentRespond, hubVars, reqVars

LEMMA ServerCorrelationInv ==
  ASSUME TypeOK, ChannelInv, RouteInv, CorrelationInv, NEW c \in Conns, ServerStep(c)
  PROVE  CorrelationInv'
<1> USE DEF CorrelationInv, SameId
<1>1. CASE Register(c) \/ ReadFail(c) \/ Unregister(c)
  BY <1>1 DEF Register, ReadFail, Unregister, netVars, reqVars, chanVars
<1>2. CASE Deliver(c)
  <2>1. hand[c].ch \in Requests /\ SameId(hand[c].ch, hand[c].resp)
    BY <1>2, HandType DEF Deliver
  <2>2. \A s \in Requests : buf'[s] = IF s = hand[c].ch THEN hand[c].resp ELSE buf[s]
    BY <1>2 DEF Deliver, TypeOK
  <2>3. \A d \in Conns : hand'[d] # None => hand'[d] = hand[d]
    BY <1>2 DEF Deliver, TypeOK
  <2>4. QED BY <1>2, <2>1, <2>2, <2>3 DEF Deliver, netVars, reqVars
<1>3. CASE Drain(c)
  BY <1>3 DEF Drain, netVars, reqVars
<1>4. ASSUME NEW r \in Requests, ReadResponse(c, r)
      PROVE  CorrelationInv'
  <2>1. r \in handled /\ handled' = handled
        /\ \A s \in Requests : wire'[s] = IF s = r THEN "gone" ELSE wire[s]
    BY <1>4 DEF ReadResponse, TypeOK
  <2>2. UNCHANGED <<buf, conn, result>>
    BY <1>4 DEF ReadResponse, chanVars, reqVars
  <2>3. CASE pending[c][IdOf[r]] = None
    BY <1>4, <2>1, <2>2, <2>3 DEF ReadResponse
  <2>4. CASE pending[c][IdOf[r]] # None
    <3>1. hand' = [hand EXCEPT ![c] = [ch |-> pending[c][IdOf[r]], resp |-> r]]
      BY <1>4, <2>4 DEF ReadResponse
    <3>2. IdOf[pending[c][IdOf[r]]] = IdOf[r]
      BY <2>4 DEF ChannelInv, PendingChannels, PendingChannel
    <3>3. hand'[c].ch = pending[c][IdOf[r]] /\ hand'[c].resp = r
          /\ \A d \in Conns : d # c => hand'[d] = hand[d]
      BY <3>1 DEF TypeOK
    <3>4. \A d \in Conns : hand'[d] # None => SameId(hand'[d].ch, hand'[d].resp)
      BY <2>1, <3>2, <3>3
    <3>5. QED BY <2>1, <2>2, <3>4
  <2>5. QED BY <2>3, <2>4
<1>5. QED
  BY <1>1, <1>2, <1>3, <1>4 DEF ServerStep

LEMMA RequestCorrelationInv ==
  ASSUME TypeOK, RouteInv, CorrelationInv, NEW r \in Requests, RequestStep(r)
  PROVE  CorrelationInv'
<1> USE DEF CorrelationInv, SameId
<1>1. ASSUME UNCHANGED <<hand, buf, handled>>,
             \A s \in Requests : wire'[s] = wire[s] \/ wire'[s] = "toAgent",
             \A s \in Requests : result'[s] = result[s] \/ result'[s] = Failed,
             \A s \in Requests : conn'[s] = conn[s] \/ conn'[s] \in Conns
      PROVE  CorrelationInv'
  BY <1>1
<1>2. CASE Receive(r)
  <2>1. pc[r] = "waiting" /\ conn[r] # None
    BY <1>2 DEF Receive, RouteInv, RoutedToTarget
  <2>2. \A s \in Requests :
          /\ buf'[s] = IF s = r THEN None ELSE buf[s]
          /\ result'[s] = IF s = r THEN buf[r] ELSE result[s]
    BY <1>2 DEF Receive, Finish, TypeOK
  <2>3. UNCHANGED <<hand, handled, wire, conn>>
    BY <1>2 DEF Receive, hubVars, netVars
  <2>4. QED BY <2>1, <2>2, <2>3
<1>3. CASE LookupConn(r)
  BY <1>1, <1>3 DEF TypeOK, LookupConn, IsOnline, Goto, Finish, hubVars, netVars, chanVars
<1>4. QED
  BY <1>1, <1>2, <1>3
  DEF TypeOK, RequestStep, CheckOnline, AddPending, WriteRequest, WriteFail,
      Timeout, GiveUp, Goto, Finish, hubVars, netVars, chanVars

LEMMA AgentCorrelationInv ==
  ASSUME TypeOK, CorrelationInv, AgentStep
  PROVE  CorrelationInv'
BY DEF TypeOK, CorrelationInv, SameId, AgentStep, LoseLink, Accept, AgentHandle,
       AgentRespond, hubVars, reqVars, chanVars

-----------------------------------------------------------------------------
(* The invariant, and what follows from it.                                *)

LEMMA InitIInv == Init => IInv
<1> SUFFICES ASSUME Init PROVE IInv
  OBVIOUS
<1>1. ChannelInv
  BY DEF Init, ChannelInv, FreshChannels, PendingChannels, HeldChannels, Untouched
<1>2. RouteInv
  BY DEF Init, RouteInv, OwnersKnown, HubEntryIsLive, RoutedToTarget, IsOnline
<1>3. CorrelationInv
  BY DEF Init, CorrelationInv
<1>4. QED
  BY <1>1, <1>2, <1>3, InitTypeOK DEF IInv

LEMMA NextIInv == IInv /\ [Next]_vars => IInv'
<1> SUFFICES ASSUME IInv, [Next]_vars PROVE IInv'
  OBVIOUS
<1> USE DEF IInv
<1>1. ASSUME NEW c \in Conns, ServerStep(c)
      PROVE  IInv'
  BY <1>1, ServerTypeOK, ServerChannelInv, ServerRouteInv, ServerCorrelationInv
<1>2. ASSUME NEW r \in Requests, RequestStep(r)
      PROVE  IInv'
  BY <1>2, RequestTypeOK, RequestChannelInv, RequestRouteInv, RequestCorrelationInv
<1>3. CASE AgentStep
  BY <1>3, AgentTypeOK, AgentChannelInv, AgentRouteInv, AgentCorrelationInv
<1>4. CASE UNCHANGED vars
  <2>1. ChannelInv'
    BY <1>4 DEF ChannelInv, FreshChannels, PendingChannels, HeldChannels, PendingChannel,
                HeldChannel, Untouched, vars, hubVars, reqVars, chanVars
  <2>2. RouteInv'
    BY <1>4 DEF RouteInv, OwnersKnown, HubEntryIsLive, RoutedToTarget, IsOnline,
                vars, hubVars, reqVars
  <2>3. CorrelationInv'
    BY <1>4 DEF CorrelationInv, SameId, vars, hubVars, netVars, reqVars, chanVars
  <2>4. QED
    BY <1>4, <2>1, <2>2, <2>3, StutterTypeOK
<1>5. QED
  BY <1>1, <1>2, <1>3, <1>4 DEF Next, Finished

THEOREM Invariance == Spec => []IInv
BY InitIInv, NextIInv, PTL DEF Spec

(* No send on a response channel blocks readLoop or the drain (which holds *)
(* ac.mu) or hits a closed channel, whatever ids the callers choose and    *)
(* however many connections and requests interleave.                       *)
THEOREM SendsNeverBlock == Spec => []SendNeverBlocks
<1>1. IInv => SendNeverBlocks
  BY HandType DEF IInv, SendNeverBlocks, ChannelInv, PendingChannels, HeldChannels,
                  PendingChannel, HeldChannel, Untouched
<1>2. QED
  BY <1>1, Invariance, PTL

(* A finished request has left no entry in any pending map.                *)
THEOREM NoLeak == Spec => []NoPendingLeak
<1>1. IInv => NoPendingLeak
  BY DEF IInv, NoPendingLeak, ChannelInv, PendingChannels, PendingChannel
<1>2. QED
  BY <1>1, Invariance, PTL

(* The hub's entry of an agent is a connection of that agent that its own  *)
(* cleanup has not removed.                                                *)
THEOREM HubEntriesAreLive == Spec => []HubEntryIsLive
<1>1. IInv => HubEntryIsLive
  BY DEF IInv, RouteInv
<1>2. QED
  BY <1>1, Invariance, PTL

(* Clients that draw distinct ids get the answer to their own request,     *)
(* carried out by the agent they addressed, or an error.                   *)
THEOREM AnswersCorrelate ==
  ASSUME UniqueIdAssumption
  PROVE  Spec => []AnswersOwnRequest
<1>1. IInv => AnswersOwnRequest
  BY DEF UniqueIdAssumption, IInv, AnswersOwnRequest, CorrelationInv, SameId,
         RouteInv, RoutedToTarget
<1>2. QED
  BY <1>1, Invariance, PTL

-----------------------------------------------------------------------------
(* What OnlineWhileConnected lacks: that no agent is accepted again before *)
(* the cleanup of its old connection.                                      *)
Open(c) == phase[c] \in {"accepted", "reading", "failed"}

OneConnection == \A b, c \in Conns : Open(b) /\ Open(c) /\ owner[b] = owner[c] => b = c

Listed == \A c \in Conns : phase[c] \in {"reading", "failed"} => agents[owner[c]] = c

LEMMA NextListed ==
  ASSUME IInv, OneConnection, Listed, [Next]_vars
  PROVE  Listed'
<1> USE DEF IInv, RouteInv, OwnersKnown, Listed
<1>1. ASSUME NEW c \in Conns, Register(c) PROVE Listed'
  BY <1>1 DEF TypeOK, Register, OneConnection, Open
<1>2. ASSUME NEW c \in Conns, Unregister(c) PROVE Listed'
  BY <1>2 DEF TypeOK, Unregister, OneConnection, Open
<1>3. ASSUME NEW c \in Conns, Deliver(c) \/ ReadFail(c) \/ Drain(c) \/ \E r \in Requests : ReadResponse(c, r)
      PROVE  Listed'
  BY <1>3 DEF TypeOK, Deliver, ReadFail, Drain, ReadResponse
<1>4. ASSUME NEW a \in Agents, NEW c \in Conns, Accept(a, c) PROVE Listed'
  BY <1>4 DEF TypeOK, Accept
<1>5. CASE UNCHANGED <<agents, phase, owner>>
  BY <1>5
<1>6. \/ UNCHANGED <<agents, phase, owner>>
      \/ \E c \in Conns : ServerStep(c)
      \/ \E a \in Agents, c \in Conns : Accept(a, c)
  BY DEF Next, RequestStep, AgentStep, Finished, CheckOnline, LookupConn, AddPending,
     WriteRequest, WriteFail, Receive, Timeout, GiveUp, LoseLink, AgentHandle, AgentRespond,
     vars, hubVars
<1>7. QED BY <1>1, <1>2, <1>3, <1>4, <1>5, <1>6 DEF ServerStep

(* As long as each agent has one connection open at a time, IsOnline says  *)
(* what its comment promises: what breaks it in the code is only that the  *)
(* cleanup of an old connection deletes the entry of a newer one.          *)
THEOREM OnlineWhileConnectedOnce ==
  Spec /\ []OneConnection => []OnlineWhileConnected
<1>1. Init => Listed
  BY DEF Init, Listed
<1>2. IInv /\ OneConnection /\ Listed /\ [Next]_vars => Listed'
  BY NextListed
<1>3. IInv /\ Listed => OnlineWhileConnected
  BY DEF Listed, OnlineWhileConnected, IsOnline
<1>4. QED
  BY <1>1, <1>2, <1>3, Invariance, PTL DEF Spec

-----------------------------------------------------------------------------
(* With distinct ids an entry of a pending map is replaced or deleted only *)
(* on behalf of the request it belongs to.                                 *)

LEMMA ServerWaiterInv ==
  ASSUME IInv, WaiterInv, NEW c \in Conns, ServerStep(c)
  PROVE  WaiterInv'
<1> USE DEF IInv
<1>1. UNCHANGED <<pc, conn>>
  BY DEF ServerStep, Register, Deliver, ReadFail, Unregister, Drain, ReadResponse, reqVars
<1> SUFFICES ASSUME NEW s \in Requests, pc[s] \in {"registered", "waiting"}
             PROVE  Reachable(s)'
  BY <1>1 DEF WaiterInv
<1>2. Reachable(s) /\ conn[s] \in Conns
  BY DEF WaiterInv, RouteInv, RoutedToTarget, TypeOK
<1>3. CASE Register(c) \/ ReadFail(c) \/ Unregister(c)
  BY <1>2, <1>3 DEF Reachable, Register, ReadFail, Unregister, netVars, reqVars, chanVars
<1>4. CASE Deliver(c)
  <2>1. hand[c].ch \in Requests /\ hand[c].resp \in Requests
    BY <1>4, HandType DEF Deliver
  <2>2. buf'[s] = IF s = hand[c].ch THEN hand[c].resp ELSE buf[s]
    BY <1>4 DEF Deliver, TypeOK
  <2>3. \A d \in Conns : d # c => hand'[d] = hand[d]
    BY <1>4 DEF Deliver, TypeOK
  <2>4. pending' = pending
    BY <1>4 DEF Deliver
  <2>5. CASE pending[conn[s]][IdOf[s]] = s
    BY <1>1, <2>4, <2>5 DEF Reachable
  <2>6. CASE hand[conn[s]] # None /\ hand[conn[s]].ch = s
    <3>1. CASE conn[s] = c
      BY <2>1, <2>2, <2>6, <3>1 DEF Reachable
    <3>2. CASE conn[s] # c
      BY <1>1, <1>2, <2>3, <2>6, <3>2 DEF Reachable
    <3>3. QED BY <3>1, <3>2
  <2>7. CASE buf[s] # None
    BY <2>1, <2>2, <2>7 DEF Reachable
  <2>8. QED BY <1>2, <2>5, <2>6, <2>7 DEF Reachable
<1>5. CASE Drain(c)
  <2>1. buf'[s] = IF s \in PendingOn(c) THEN Disconnected ELSE buf[s]
    BY <1>5 DEF Drain
  <2>2. hand' = hand /\ \A d \in Conns : d # c => pending'[d] = pending[d]
    BY <1>5 DEF Drain, TypeOK
  <2>3. CASE conn[s] = c /\ pending[c][IdOf[s]] = s
    <3>1. IdOf[s] \in Ids /\ s # None
      OBVIOUS
    <3>2. s \in PendingOn(c)
      BY <2>3, <3>1 DEF PendingOn
    <3>3. QED BY <2>1, <3>2 DEF Reachable
  <2>4. CASE conn[s] # c /\ pending[conn[s]][IdOf[s]] = s
    BY <1>1, <1>2, <2>2, <2>4 DEF Reachable
  <2>5. CASE (hand[conn[s]] # None /\ hand[conn[s]].ch = s) \/ buf[s] # None
    BY <1>1, <2>1, <2>2, <2>5 DEF Reachable
  <2>6. QED BY <1>2, <2>3, <2>4, <2>5 DEF Reachable
<1>6. ASSUME NEW r \in Requests, ReadResponse(c, r)
      PROVE  Reachable(s)'
  <2>1. CASE pending[c][IdOf[r]] = None
    BY <1>2, <1>6, <2>1 DEF Reachable, ReadResponse, reqVars, chanVars
  <2>2. CASE pending[c][IdOf[r]] # None
    <3>1. hand[c] = None /\ buf' = buf
      BY <1>6 DEF ReadResponse, chanVars
    <3>2. hand'[c] = [ch |-> pending[c][IdOf[r]], resp |-> r]
          /\ \A d \in Conns : d # c => hand'[d] = hand[d]
      BY <1>6, <2>2 DEF ReadResponse, TypeOK
    <3>3. \A d \in Conns, i \in Ids : pending'[d][i] =
            IF d = c /\ i = IdOf[r] THEN None ELSE pending[d][i]
      BY <1>6, <2>2 DEF ReadResponse, TypeOK
    <3>4. pending[c][IdOf[r]] \in Requests
      BY <2>2 DEF TypeOK
    <3>5. hand'[c] # None /\ hand'[c].ch = pending[c][IdOf[r]]
      BY <3>2, <3>4
    <3>6. CASE pending[conn[s]][IdOf[s]] = s
      <4>1. CASE conn[s] = c /\ IdOf[s] = IdOf[r]
        BY <1>1, <3>5, <3>6, <4>1 DEF Reachable
      <4>2. CASE ~(conn[s] = c /\ IdOf[s] = IdOf[r])
        BY <1>1, <1>2, <3>3, <3>6, <4>2 DEF Reachable
      <4>3. QED BY <4>1, <4>2
    <3>7. CASE (hand[conn[s]] # None /\ hand[conn[s]].ch = s) \/ buf[s] # None
      BY <1>1, <1>2, <3>1, <3>2, <3>7 DEF Reachable
    <3>8. QED BY <1>2, <3>6, <3>7 DEF Reachable
  <2>3. QED BY <2>1, <2>2
<1>7. QED
  BY <1>3, <1>4, <1>5, <1>6 DEF ServerStep

LEMMA RequestWaiterInv ==
  ASSUME UniqueIdAssumption, IInv, IInv', WaiterInv, NEW r \in Requests, RequestStep(r)
  PROVE  WaiterInv'
<1> USE DEF IInv
<1> SUFFICES ASSUME NEW s \in Requests, pc'[s] \in {"registered", "waiting"}
             PROVE  Reachable(s)'
  BY DEF WaiterInv
<1>1. hand' = hand
  BY DEF RequestStep, CheckOnline, LookupConn, AddPending, WriteRequest, WriteFail,
         Receive, Timeout, GiveUp, hubVars
<1>2. CASE s # r
  <2>1. conn'[s] = conn[s] /\ pc'[s] = pc[s] /\ buf'[s] = buf[s]
    BY <1>2 DEF RequestStep, CheckOnline, LookupConn, AddPending, WriteRequest, WriteFail,
                Receive, Timeout, GiveUp, Goto, Finish, chanVars, TypeOK
  <2>2. pending'[conn[s]][IdOf[s]] = pending[conn[s]][IdOf[s]]
    <3>1. IdOf[s] # IdOf[r] /\ IdOf[s] \in Ids /\ conn[s] \in Conns
      BY <1>2, <2>1 DEF UniqueIdAssumption, RouteInv, RoutedToTarget, TypeOK
    <3>2. CASE pending' = pending
      BY <3>2
    <3>3. ASSUME NEW x, pending' = [pending EXCEPT ![conn[r]][IdOf[r]] = x]
          PROVE  pending'[conn[s]][IdOf[s]] = pending[conn[s]][IdOf[s]]
      BY <3>1, <3>3 DEF TypeOK
    <3>4. QED
      BY <3>2, <3>3 DEF RequestStep, CheckOnline, LookupConn, AddPending, WriteRequest,
                        WriteFail, Receive, Timeout, GiveUp, hubVars
  <2>3. QED BY <1>1, <2>1, <2>2 DEF WaiterInv, Reachable
<1>3. CASE s = r
  <2>1. CASE AddPending(r)
    <3>1. conn' = conn /\ conn[r] \in Conns
      BY <2>1 DEF AddPending, RouteInv, RoutedToTarget, TypeOK
    <3>2. pending' = [pending EXCEPT ![conn[r]][IdOf[r]] = r]
      BY <1>3, <2>1 DEF AddPending, Finish, TypeOK
    <3>3. QED BY <1>3, <3>1, <3>2 DEF Reachable, TypeOK
  <2>2. CASE WriteRequest(r)
    BY <1>1, <1>3, <2>2 DEF WriteRequest, hubVars, chanVars, WaiterInv, Reachable
  <2>3. QED
    BY <1>3, <2>1, <2>2
    DEF RequestStep, CheckOnline, LookupConn, WriteFail, Receive, Timeout, GiveUp,
        Goto, Finish, TypeOK
<1>4. QED BY <1>2, <1>3

LEMMA AgentWaiterInv ==
  ASSUME WaiterInv, AgentStep
  PROVE  WaiterInv'
<1>1. UNCHANGED <<pending, hand, conn, buf, pc>>
  BY DEF AgentStep, LoseLink, Accept, AgentHandle, AgentRespond, hubVars, reqVars, chanVars
<1>2. QED
  BY <1>1 DEF WaiterInv, Reachable

LEMMA WaiterInvariance ==
  ASSUME UniqueIdAssumption
  PROVE  Spec => []WaiterInv
<1>1. Init => WaiterInv
  BY DEF Init, WaiterInv
<1>2. IInv /\ IInv' /\ WaiterInv /\ [Next]_vars => WaiterInv'
  <2> SUFFICES ASSUME IInv, IInv', WaiterInv, [Next]_vars PROVE WaiterInv'
    OBVIOUS
  <2>1. CASE UNCHANGED vars
    BY <2>1 DEF WaiterInv, Reachable, vars, hubVars, reqVars, chanVars
  <2>2. QED
    BY <2>1, ServerWaiterInv, RequestWaiterInv, AgentWaiterInv DEF Next, Finished
<1>3. QED
  BY <1>1, <1>2, Invariance, PTL DEF Spec

(* With distinct ids a caller that waits can still be answered, or has     *)
(* been: a disconnect, a timeout of another caller or a late answer never  *)
(* takes its channel away without filling it.                              *)
THEOREM WaitersReachable ==
  ASSUME UniqueIdAssumption
  PROVE  Spec => []NoOrphanedWaiter
<1>1. IInv /\ WaiterInv => NoOrphanedWaiter
  <2> SUFFICES ASSUME IInv, WaiterInv, NEW r \in Requests, pc[r] = "waiting"
               PROVE  \/ phase[conn[r]] # "closed" /\ pending[conn[r]][IdOf[r]] = r
                      \/ hand[conn[r]] # None /\ hand[conn[r]].ch = r
                      \/ buf[r] # None
    BY DEF NoOrphanedWaiter
  <2>1. Reachable(r) /\ conn[r] \in Conns /\ IdOf[r] \in Ids /\ r # None
    BY DEF IInv, TypeOK, RouteInv, RoutedToTarget, WaiterInv
  <2>2. phase[conn[r]] = "closed" => pending[conn[r]][IdOf[r]] = None
    BY <2>1 DEF IInv, TypeOK
  <2>3. QED
    BY <2>1, <2>2 DEF Reachable
<1>2. QED
  BY <1>1, WaiterInvariance, Invariance, PTL

-----------------------------------------------------------------------------
(* A request is on the wire only after it was written, and is carried out  *)
(* at most once.                                                           *)

LEMMA NextWireInv ==
  ASSUME TypeOK, WireInv, [Next]_vars
  PROVE  WireInv'
<1> USE DEF WireInv
<1>1. ASSUME NEW c \in Conns, ServerStep(c)
      PROVE  WireInv'
  <2>1. pc' = pc /\ handled' = handled
        /\ \A s \in Requests : wire'[s] = wire[s] \/ (wire[s] = "fromAgent" /\ wire'[s] = "gone")
    BY <1>1 DEF ServerStep, Register, Deliver, ReadFail, Unregister, Drain, ReadResponse,
                netVars, reqVars, TypeOK
  <2>2. QED BY <2>1
<1>2. ASSUME NEW r \in Requests, RequestStep(r)
      PROVE  WireInv'
  <2>1. CASE WriteRequest(r) \/ WriteFail(r)
    BY <2>1 DEF WriteRequest, WriteFail, Goto, TypeOK
  <2>2. CASE wire' = wire /\ handled' = handled
    <3>1. \A s \in Requests : pc'[s] \in {"idle", "checked", "found", "registered"} =>
            pc[s] \in {"idle", "checked", "found", "registered"}
      BY <1>2 DEF RequestStep, CheckOnline, LookupConn, AddPending, WriteRequest, WriteFail,
                  Receive, Timeout, GiveUp, Goto, Finish, TypeOK
    <3>2. QED BY <2>2, <3>1
  <2>3. QED
    BY <1>2, <2>1, <2>2 DEF RequestStep, CheckOnline, LookupConn, AddPending,
                            Receive, Timeout, GiveUp, netVars
<1>3. CASE AgentStep
  BY <1>3 DEF AgentStep, LoseLink, Accept, AgentHandle, AgentRespond, reqVars, TypeOK
<1>4. CASE UNCHANGED vars
  BY <1>4 DEF vars, netVars, reqVars
<1>5. QED
  BY <1>1, <1>2, <1>3, <1>4 DEF Next, Finished

LEMMA WireInvariance == Spec => []WireInv
<1>1. Init => WireInv
  BY DEF Init, WireInv
<1>2. QED
  BY <1>1, NextWireInv, TypeCorrect, PTL DEF Spec

-----------------------------------------------------------------------------
(* Refinement.                                                             *)

Status == [r \in Requests |-> CallStatus(r)]

LEMMA StatusStutter ==
  ASSUME UNCHANGED <<pc, result>>
  PROVE  Status' = Status
BY DEF Status, CallStatus

(* A request step moves the status of that request only.                   *)
LEMMA StatusMove ==
  ASSUME TypeOK, NEW r \in Requests, NEW from, NEW to,
         \A s \in Requests \ {r} : pc'[s] = pc[s] /\ result'[s] = result[s],
         CallStatus(r) = from, CallStatus(r)' = to, handled' = handled
  PROVE  RPC!Move(r, from, to)
<1>1. Status[r] = from
  BY DEF Status
<1>2. Status' = [Status EXCEPT ![r] = to]
  <2>1. ASSUME NEW s \in Requests \ {r}
        PROVE  CallStatus(s)' = CallStatus(s)
    BY DEF CallStatus
  <2>2. QED BY <2>1 DEF Status
<1>3. QED
  BY <1>1, <1>2 DEF RPC!Move, Status

LEMMA RequestRefines ==
  ASSUME UniqueIdAssumption, IInv, NEW r \in Requests, RequestStep(r)
  PROVE  RPC!Next \/ UNCHANGED RPC!vars
<1> USE DEF IInv
<1>1. handled' = handled
  BY DEF RequestStep, CheckOnline, LookupConn, AddPending, WriteRequest, WriteFail,
         Receive, Timeout, GiveUp, netVars
<1>2. ASSUME NEW step, Goto(r, step), pc[r] \notin {"idle", "done"}, step \notin {"idle", "done"}
      PROVE  UNCHANGED RPC!vars
  <2>1. Status' = Status
    BY <1>2 DEF Goto, Status, CallStatus, TypeOK
  <2>2. QED BY <1>1, <2>1 DEF RPC!vars, Status
<1>3. ASSUME NEW from \in {"idle", "open"}, CallStatus(r) = from,
             NEW outcome \in {Failed, Disconnected}, Finish(r, outcome)
      PROVE  RPC!Next
  <2>1. CallStatus(r)' = "failed"
    BY <1>3 DEF CallStatus, Finish, TypeOK
  <2>2. RPC!Move(r, from, "failed")
    BY <1>1, <1>3, <2>1, StatusMove DEF Finish, TypeOK
  <2>3. QED BY <1>3, <2>2 DEF RPC!Next, RPC!Refuse, RPC!Fail
<1>4. CASE CheckOnline(r)
  <2>1. CASE Finish(r, Failed)
    BY <1>3, <1>4, <2>1 DEF CheckOnline, CallStatus
  <2>2. CASE Goto(r, "checked")
    <3>1. CallStatus(r) = "idle" /\ CallStatus(r)' = "open"
      BY <1>4, <2>2 DEF CheckOnline, Goto, CallStatus, TypeOK
    <3>2. RPC!Move(r, "idle", "open")
      BY <1>1, <2>2, <3>1, StatusMove DEF Goto, TypeOK
    <3>3. QED BY <3>2 DEF RPC!Next, RPC!Call
  <2>3. QED BY <1>4, <2>1, <2>2 DEF CheckOnline
<1>5. CASE LookupConn(r)
  <2>1. CallStatus(r) = "open" /\ pc[r] = "checked"
    BY <1>5 DEF LookupConn, CallStatus
  <2>2. Goto(r, "found") \/ Finish(r, Failed)
    BY <1>5 DEF LookupConn
  <2>3. QED BY <1>2, <1>3, <2>1, <2>2
<1>6. CASE AddPending(r)
  <2>1. CallStatus(r) = "open" /\ pc[r] = "found"
    BY <1>6 DEF AddPending, CallStatus
  <2>2. Goto(r, "registered") \/ Finish(r, Failed)
    BY <1>6 DEF AddPending
  <2>3. QED BY <1>2, <1>3, <2>1, <2>2
<1>7. CASE WriteRequest(r) \/ WriteFail(r) \/ Timeout(r)
  BY <1>2, <1>7 DEF WriteRequest, WriteFail, Timeout
<1>8. CASE GiveUp(r)
  BY <1>3, <1>8 DEF GiveUp, CallStatus
<1>9. CASE Receive(r)
  <2>1. CallStatus(r) = "open" /\ Finish(r, buf[r])
    BY <1>9 DEF Receive, CallStatus
  <2>2. CASE buf[r] = Disconnected
    BY <1>3, <2>1, <2>2
  <2>3. CASE buf[r] \in Requests
    <3>1. buf[r] = r /\ r \in handled
      BY <2>3 DEF CorrelationInv, SameId, UniqueIdAssumption
    <3>2. CallStatus(r)' = "answered"
      BY <2>1, <3>1 DEF CallStatus, Finish, TypeOK
    <3>3. RPC!Move(r, "open", "answered")
      BY <1>1, <2>1, <3>2, StatusMove DEF Finish, TypeOK
    <3>4. QED BY <3>1, <3>3 DEF RPC!Next, RPC!Answer
  <2>4. QED BY <1>9, <2>2, <2>3 DEF Receive, TypeOK
<1>10. QED
  BY <1>4, <1>5, <1>6, <1>7, <1>8, <1>9 DEF RequestStep

LEMMA AgentRefines ==
  ASSUME IInv, WireInv, AgentStep
  PROVE  RPC!Next \/ UNCHANGED RPC!vars
<1>1. Status' = Status
  BY StatusStutter DEF AgentStep, LoseLink, Accept, AgentHandle, AgentRespond, reqVars
<1>2. ASSUME NEW r \in Requests, AgentHandle(r)
      PROVE  RPC!Next
  <2>1. Status[r] # "idle" /\ r \notin handled
    BY <1>2 DEF AgentHandle, WireInv, Status, CallStatus
  <2>2. RPC!CarryOut(r)
    BY <1>1, <1>2, <2>1 DEF RPC!CarryOut, AgentHandle, Status
  <2>3. QED BY <2>2 DEF RPC!Next
<1>3. CASE handled' = handled
  BY <1>1, <1>3 DEF RPC!vars, Status
<1>4. QED
  BY <1>2, <1>3 DEF AgentStep, LoseLink, Accept, AgentRespond

LEMMA NextRefines ==
  ASSUME UniqueIdAssumption, IInv, WireInv, [Next]_vars
  PROVE  [RPC!Next]_(RPC!vars)
<1>1. ASSUME NEW c \in Conns, ServerStep(c)
      PROVE  UNCHANGED RPC!vars
  <2>1. UNCHANGED <<pc, result, handled>>
    BY <1>1 DEF ServerStep, Register, Deliver, ReadFail, Unregister, Drain, ReadResponse,
                netVars, reqVars
  <2>2. QED BY <2>1, StatusStutter DEF RPC!vars, Status
<1>2. CASE UNCHANGED vars
  <2>1. UNCHANGED <<pc, result, handled>>
    BY <1>2 DEF vars, netVars, reqVars
  <2>2. QED BY <2>1, StatusStutter DEF RPC!vars, Status
<1>3. QED
  BY <1>1, <1>2, RequestRefines, AgentRefines DEF Next, Finished

(* With distinct ids the hub implements the safety part of RelayRPC: an    *)
(* answered call was carried out by the agent, no call is carried out      *)
(* twice, and what a caller was told never changes.                        *)
THEOREM Refinement ==
  ASSUME UniqueIdAssumption
  PROVE  Spec => RPC!Spec
<1>1. Init => RPC!Init
  BY DEF Init, RPC!Init, CallStatus
<1>2. QED
  BY <1>1, NextRefines, Invariance, WireInvariance, PTL DEF Spec, RPC!Spec
=============================================================================
