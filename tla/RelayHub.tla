------------------------------ MODULE RelayHub ------------------------------
(***************************************************************************)
(* The relay hub of the API server: agents keep one WebSocket each, HTTP   *)
(* handlers forward requests over it and wait for the answer with the same *)
(* request ID (api/internal/relay/hub.go, api/internal/handlers/relay.go), *)
(* and the agent's end of the socket (agent/internal/relay/client.go).     *)
(*                                                                         *)
(* Every critical section of hub.mu or ac.mu is one action; everything the *)
(* code does outside a lock is an action of its own, so another goroutine  *)
(* can run between any two of them.  A connection and a request are used   *)
(* once: Conns and Requests bound how many of each a behaviour has.        *)
(*                                                                         *)
(* Hub.Notify (the SSE broker) and the agent's row in the database are     *)
(* called from HandleAgentWS outside both locks and change nothing here.   *)
(***************************************************************************)
EXTENDS Naturals, FiniteSets

CONSTANTS
  Agents,        \* agent UUIDs
  Conns,         \* AgentConn objects, one per accepted WebSocket
  Requests,      \* calls of POST /api/relay/{agent_id}, one goroutine each
  Ids,           \* values of the request's "id" field, chosen by the client
  IdOf,          \* the id a request carries
  TargetOf,      \* the agent a request is addressed to
  None,          \* no connection, no request, an empty channel
  Disconnected,  \* the 503 "agent disconnected" response of the drain
  Failed         \* an error answer: 503 agent offline, or 504

(* A reply is the agent's answer to some request, named by that request.   *)
Replies == Requests \cup {Disconnected}

ASSUME ConstAssumption ==
  /\ IdOf \in [Requests -> Ids]
  /\ TargetOf \in [Requests -> Agents]
  /\ None \notin Requests \cup Conns \cup {Disconnected, Failed}
  /\ None \notin [ch : Requests, resp : Requests]
  /\ Disconnected \notin Requests
  /\ Failed \notin Requests \cup {Disconnected}

VARIABLES
  agents,   \* Hub.agents: agent UUID -> registered connection
  phase,    \* where the goroutine of HandleAgentWS is, per connection
  owner,    \* AgentConn.agentUUID
  pending,  \* AgentConn.pending: id -> the request whose channel is stored
  hand,     \* what readLoop took out of pending and has not sent yet
  link,     \* is the WebSocket still open between the two processes
  client,   \* the connection the agent process is reading from
  pc,       \* where the goroutine of a relay request is
  conn,     \* the AgentConn that goroutine looked up
  buf,      \* the request's response channel, of capacity 1
  closed,   \* requests whose response channel was closed
  wire,     \* where the request or its answer is on the WebSocket
  handled,  \* requests the agent has carried out
  result    \* what the HTTP caller was told

hubVars  == <<agents, phase, owner, pending, hand>>
netVars  == <<link, client, wire, handled>>
reqVars  == <<pc, conn, result>>
chanVars == <<buf, closed>>
vars == <<hubVars, netVars, reqVars, chanVars>>

Phases == {"unused", "accepted", "reading", "failed", "unregistered", "closed"}
Steps  == {"idle", "checked", "found", "registered", "waiting", "giveup", "done"}
Places == {"none", "toAgent", "running", "fromAgent", "gone"}

Init ==
  /\ agents  = [a \in Agents |-> None]
  /\ phase   = [c \in Conns |-> "unused"]
  /\ owner   = [c \in Conns |-> None]
  /\ pending = [c \in Conns |-> [i \in Ids |-> None]]
  /\ hand    = [c \in Conns |-> None]
  /\ link    = [c \in Conns |-> FALSE]
  /\ client  = [a \in Agents |-> None]
  /\ pc      = [r \in Requests |-> "idle"]
  /\ conn    = [r \in Requests |-> None]
  /\ buf     = [r \in Requests |-> None]
  /\ closed  = {}
  /\ wire    = [r \in Requests |-> "none"]
  /\ handled = {}
  /\ result  = [r \in Requests |-> None]

IsOnline(a) == agents[a] # None

-----------------------------------------------------------------------------
(* The WebSocket's server end: the goroutine of HandleAgentWS.             *)

(* The agent dials while it has no connection of its own; the server       *)
(* accepts and builds the AgentConn, not yet in the hub.                   *)
Accept(a, c) ==
  /\ phase[c] = "unused"
  /\ client[a] = None
  /\ phase'  = [phase EXCEPT ![c] = "accepted"]
  /\ owner'  = [owner EXCEPT ![c] = a]
  /\ link'   = [link EXCEPT ![c] = TRUE]
  /\ client' = [client EXCEPT ![a] = c]
  /\ UNCHANGED <<agents, pending, hand, wire, handled, reqVars, chanVars>>

(* h.agents[agent.ID] = ac replaces whatever connection was there.         *)
Register(c) ==
  /\ phase[c] = "accepted"
  /\ phase'  = [phase EXCEPT ![c] = "reading"]
  /\ agents' = [agents EXCEPT ![owner[c]] = c]
  /\ UNCHANGED <<owner, pending, hand, netVars, reqVars, chanVars>>

(* Mutants: the entry stays in the map; the first entry gets the answer.   *)
ReadResponseKeepsEntry(c, r) ==
  /\ phase[c] = "reading" /\ hand[c] = None
  /\ conn[r] = c /\ wire[r] = "fromAgent"
  /\ wire' = [wire EXCEPT ![r] = "gone"]
  /\ IF pending[c][IdOf[r]] # None
       THEN hand' = [hand EXCEPT ![c] = [ch |-> pending[c][IdOf[r]], resp |-> r]]
       ELSE UNCHANGED hand
  /\ UNCHANGED <<agents, phase, owner, pending, link, client, handled, reqVars, chanVars>>

ReadResponseAnyEntry(c, r) ==
  /\ phase[c] = "reading" /\ hand[c] = None
  /\ conn[r] = c /\ wire[r] = "fromAgent"
  /\ wire' = [wire EXCEPT ![r] = "gone"]
  /\ \E i \in Ids :
       /\ pending[c][i] # None
       /\ hand' = [hand EXCEPT ![c] = [ch |-> pending[c][i], resp |-> r]]
       /\ pending' = [pending EXCEPT ![c][i] = None]
  /\ UNCHANGED <<agents, phase, owner, link, client, handled, reqVars, chanVars>>

(* readLoop reads the answer to r.  The pending entry under its id, if     *)
(* any, is deleted under ac.mu; the send happens after the unlock.         *)
ReadResponse(c, r) ==
  /\ phase[c] = "reading" /\ hand[c] = None
  /\ conn[r] = c /\ wire[r] = "fromAgent"
  /\ wire' = [wire EXCEPT ![r] = "gone"]
  /\ IF pending[c][IdOf[r]] # None
       THEN /\ hand' = [hand EXCEPT ![c] = [ch |-> pending[c][IdOf[r]], resp |-> r]]
            /\ pending' = [pending EXCEPT ![c][IdOf[r]] = None]
       ELSE UNCHANGED <<hand, pending>>
  /\ UNCHANGED <<agents, phase, owner, link, client, handled, reqVars, chanVars>>

(* ch <- resp, which blocks while the channel's only slot is taken.        *)
Deliver(c) ==
  /\ hand[c] # None
  /\ buf[hand[c].ch] = None
  /\ buf'  = [buf EXCEPT ![hand[c].ch] = hand[c].resp]
  /\ hand' = [hand EXCEPT ![c] = None]
  /\ UNCHANGED <<agents, phase, owner, pending, netVars, reqVars, closed>>

(* wsjson.Read fails: the peer is gone, or a frame is malformed or too     *)
(* long.  Either way the library closes the socket and readLoop returns.   *)
ReadFail(c) ==
  /\ phase[c] = "reading" /\ hand[c] = None
  /\ phase' = [phase EXCEPT ![c] = "failed"]
  /\ link'  = [link EXCEPT ![c] = FALSE]
  /\ UNCHANGED <<agents, owner, pending, hand, client, wire, handled, reqVars, chanVars>>

(* Mutant: the entry outlives the connection.                              *)
UnregisterNothing(c) ==
  /\ phase[c] = "failed"
  /\ phase' = [phase EXCEPT ![c] = "unregistered"]
  /\ UNCHANGED <<agents, owner, pending, hand, netVars, reqVars, chanVars>>

(* delete(h.agents, agent.ID), whichever connection is registered.         *)
Unregister(c) ==
  /\ phase[c] = "failed"
  /\ phase'  = [phase EXCEPT ![c] = "unregistered"]
  /\ agents' = [agents EXCEPT ![owner[c]] = None]
  /\ UNCHANGED <<owner, pending, hand, netVars, reqVars, chanVars>>

(* The requests whose channels are in the pending map of c.                *)
PendingOn(c) == {pending[c][i] : i \in Ids} \ {None}

(* Mutants: the drain forgets pending = nil; it forgets to send.           *)
DrainKeepsMap(c) ==
  /\ phase[c] = "unregistered"
  /\ phase'   = [phase EXCEPT ![c] = "closed"]
  /\ buf'     = [r \in Requests |-> IF r \in PendingOn(c) THEN Disconnected ELSE buf[r]]
  /\ closed'  = closed \cup PendingOn(c)
  /\ UNCHANGED <<agents, owner, pending, hand, netVars, reqVars>>

DrainSilently(c) ==
  /\ phase[c] = "unregistered"
  /\ phase'   = [phase EXCEPT ![c] = "closed"]
  /\ pending' = [pending EXCEPT ![c] = [i \in Ids |-> None]]
  /\ UNCHANGED <<agents, owner, hand, netVars, reqVars, chanVars>>

(* The drain sends a 503 to every pending channel and closes it, all under *)
(* ac.mu, and sets pending to nil: no entry can be added afterwards.  One  *)
(* full channel would block it with the lock held.                         *)
Drain(c) ==
  /\ phase[c] = "unregistered"
  /\ \A r \in PendingOn(c) : buf[r] = None
  /\ phase'   = [phase EXCEPT ![c] = "closed"]
  /\ buf'     = [r \in Requests |-> IF r \in PendingOn(c) THEN Disconnected ELSE buf[r]]
  /\ closed'  = closed \cup PendingOn(c)
  /\ pending' = [pending EXCEPT ![c] = [i \in Ids |-> None]]
  /\ UNCHANGED <<agents, owner, hand, netVars, reqVars>>

-----------------------------------------------------------------------------
(* The HTTP goroutine: RelayHandler.Relay, then Hub.SendRequest.           *)

Finish(r, outcome) ==
  /\ pc' = [pc EXCEPT ![r] = "done"]
  /\ result' = [result EXCEPT ![r] = outcome]

Goto(r, step) ==
  /\ pc' = [pc EXCEPT ![r] = step]
  /\ UNCHANGED result

(* Relay asks IsOnline and answers 503 when the agent is not registered.   *)
CheckOnline(r) ==
  /\ pc[r] = "idle"
  /\ IF IsOnline(TargetOf[r]) THEN Goto(r, "checked") ELSE Finish(r, Failed)
  /\ UNCHANGED <<hubVars, netVars, conn, chanVars>>

(* SendRequest looks the connection up again: it may be gone by now.       *)
LookupConn(r) ==
  /\ pc[r] = "checked"
  /\ IF IsOnline(TargetOf[r])
       THEN Goto(r, "found") /\ conn' = [conn EXCEPT ![r] = agents[TargetOf[r]]]
       ELSE Finish(r, Failed) /\ UNCHANGED conn
  /\ UNCHANGED <<hubVars, netVars, chanVars>>

(* Mutant: no check that the connection is still there.                    *)
AddPendingUnchecked(r) ==
  /\ pc[r] = "found"
  /\ Goto(r, "registered")
  /\ pending' = [pending EXCEPT ![conn[r]][IdOf[r]] = r]
  /\ UNCHANGED <<agents, phase, owner, hand, netVars, conn, chanVars>>

(* Under ac.mu: a nil map (drained connection) is an error, otherwise the  *)
(* new channel takes the id's entry, over an older one with the same id.   *)
AddPending(r) ==
  /\ pc[r] = "found"
  /\ IF phase[conn[r]] = "closed"
       THEN Finish(r, Failed) /\ UNCHANGED pending
       ELSE Goto(r, "registered") /\ pending' = [pending EXCEPT ![conn[r]][IdOf[r]] = r]
  /\ UNCHANGED <<agents, phase, owner, hand, netVars, conn, chanVars>>

(* The frame reaches the socket, which may already be dead at either end.  *)
WriteRequest(r) ==
  /\ pc[r] = "registered"
  /\ Goto(r, "waiting")
  /\ wire' = [wire EXCEPT ![r] = "toAgent"]
  /\ UNCHANGED <<hubVars, link, client, handled, conn, chanVars>>

(* The write fails, or takes 5s; the entry is deleted in GiveUp.  A frame  *)
(* that was flushed as the socket closed is reported as failed too.        *)
WriteFail(r) ==
  /\ pc[r] = "registered"
  /\ Goto(r, "giveup")
  /\ \E place \in {"none", "toAgent"} : wire' = [wire EXCEPT ![r] = place]
  /\ UNCHANGED <<hubVars, link, client, handled, conn, chanVars>>

(* The select takes the response: the caller gets the envelope.            *)
Receive(r) ==
  /\ pc[r] = "waiting"
  /\ buf[r] # None
  /\ Finish(r, buf[r])
  /\ buf' = [buf EXCEPT ![r] = None]
  /\ UNCHANGED <<hubVars, netVars, conn, closed>>

(* The select takes ctx.Done (5s, or the caller went away), even when a    *)
(* response is in the channel: select picks either ready case.             *)
Timeout(r) ==
  /\ pc[r] = "waiting"
  /\ Goto(r, "giveup")
  /\ UNCHANGED <<hubVars, netVars, conn, chanVars>>

(* Mutant: the entry of a request that gave up stays.                      *)
GiveUpKeepsEntry(r) ==
  /\ pc[r] = "giveup"
  /\ Finish(r, Failed)
  /\ UNCHANGED <<hubVars, netVars, conn, chanVars>>

(* delete(ac.pending, req.ID), whoever's entry that is, and 504.           *)
GiveUp(r) ==
  /\ pc[r] = "giveup"
  /\ Finish(r, Failed)
  /\ pending' = [pending EXCEPT ![conn[r]][IdOf[r]] = None]
  /\ UNCHANGED <<agents, phase, owner, hand, netVars, conn, chanVars>>

-----------------------------------------------------------------------------
(* The agent process.                                                      *)

(* The agent loses its connection (network, restart, crash) and may dial   *)
(* again; the server has not noticed yet.                                  *)
LoseLink(a) ==
  /\ client[a] # None
  /\ link'   = [link EXCEPT ![client[a]] = FALSE]
  /\ client' = [client EXCEPT ![a] = None]
  /\ UNCHANGED <<hubVars, wire, handled, reqVars, chanVars>>

(* The agent reads a request and starts a goroutine that carries it out;   *)
(* it reads what has arrived even when the server has closed already.      *)
AgentHandle(r) ==
  /\ wire[r] = "toAgent"
  /\ client[owner[conn[r]]] = conn[r]
  /\ wire' = [wire EXCEPT ![r] = "running"]
  /\ handled' = handled \cup {r}
  /\ UNCHANGED <<hubVars, link, client, reqVars, chanVars>>

(* That goroutine answers on the connection the request came from, in no   *)
(* order among its siblings; on a dead connection the answer is lost.      *)
AgentRespond(r) ==
  /\ wire[r] = "running"
  /\ wire' = [wire EXCEPT ![r] = IF link[conn[r]] THEN "fromAgent" ELSE "gone"]
  /\ UNCHANGED <<hubVars, link, client, handled, reqVars, chanVars>>

-----------------------------------------------------------------------------
(* Every request is answered and every connection of the bound is closed.  *)
Finished ==
  /\ \A r \in Requests : pc[r] = "done"
  /\ \A c \in Conns : phase[c] = "closed"
  /\ UNCHANGED vars

ServerStep(c) ==
  \/ Register(c)
  \/ Deliver(c)
  \/ ReadFail(c)
  \/ Unregister(c)
  \/ Drain(c)
  \/ \E r \in Requests : ReadResponse(c, r)

RequestStep(r) ==
  \/ CheckOnline(r)
  \/ LookupConn(r)
  \/ AddPending(r)
  \/ WriteRequest(r)
  \/ WriteFail(r)
  \/ Receive(r)
  \/ Timeout(r)
  \/ GiveUp(r)

AgentStep ==
  \/ \E a \in Agents : LoseLink(a)
  \/ \E a \in Agents, c \in Conns : Accept(a, c)
  \/ \E r \in Requests : AgentHandle(r) \/ AgentRespond(r)

Next ==
  \/ \E c \in Conns : ServerStep(c)
  \/ \E r \in Requests : RequestStep(r)
  \/ AgentStep
  \/ Finished

Spec == Init /\ [][Next]_vars

(* Goroutines that can run do run, and a read on a dead socket fails in    *)
(* the end (TCP resets or gives up).  Nothing is assumed of the agent, and *)
(* a timer is not assumed to fire: see TimersFire.                         *)
Fairness ==
  /\ \A c \in Conns :
       /\ WF_vars(Register(c)) /\ WF_vars(Deliver(c))
       /\ WF_vars(Unregister(c)) /\ WF_vars(Drain(c))
       /\ WF_vars(~link[c] /\ ReadFail(c))
  /\ \A r \in Requests :
       /\ WF_vars(LookupConn(r)) /\ WF_vars(AddPending(r))
       /\ WF_vars(WriteRequest(r) \/ WriteFail(r))
       /\ WF_vars(Receive(r))
       /\ WF_vars(GiveUp(r))

(* context.WithTimeout: a request that is still waiting after 5s gives up. *)
TimersFire == \A r \in Requests : WF_vars(Timeout(r))

FairSpec == Spec /\ Fairness

-----------------------------------------------------------------------------
(* Types, with the nil map of a drained connection as one without entries. *)
TypeOK ==
  /\ agents  \in [Agents -> Conns \cup {None}]
  /\ phase   \in [Conns -> Phases]
  /\ owner   \in [Conns -> Agents \cup {None}]
  /\ pending \in [Conns -> [Ids -> Requests \cup {None}]]
  /\ hand    \in [Conns -> [ch : Requests, resp : Requests] \cup {None}]
  /\ link    \in [Conns -> BOOLEAN]
  /\ client  \in [Agents -> Conns \cup {None}]
  /\ pc      \in [Requests -> Steps]
  /\ conn    \in [Requests -> Conns \cup {None}]
  /\ buf     \in [Requests -> Replies \cup {None}]
  /\ closed  \subseteq Requests
  /\ wire    \in [Requests -> Places]
  /\ handled \subseteq Requests
  /\ result  \in [Requests -> Replies \cup {None, Failed}]
  /\ \A c \in Conns, i \in Ids : phase[c] = "closed" => pending[c][i] = None

(* A channel somebody may still send on is open and empty: neither         *)
(* readLoop nor the drain (which holds ac.mu) ever blocks on it, and no    *)
(* send hits a closed channel (a panic), however timeouts, disconnects and *)
(* late answers interleave and whatever ids the clients chose.             *)
SendNeverBlocks ==
  /\ \A c \in Conns, i \in Ids :
       pending[c][i] # None => buf[pending[c][i]] = None /\ pending[c][i] \notin closed
  /\ \A c \in Conns :
       hand[c] # None => buf[hand[c].ch] = None /\ hand[c].ch \notin closed

(* A caller that is told the agent's answer is told the answer to its own  *)
(* request, carried out by the agent it addressed; clients draw ids that   *)
(* do not collide (crypto.randomUUID, uuid.New).                           *)
AnswersOwnRequest ==
  \A r \in Requests :
    result[r] \in Requests =>
      result[r] = r /\ r \in handled /\ owner[conn[r]] = TargetOf[r]

(* No caller waits for a reply nobody can send: as long as it waits, its   *)
(* channel is in the pending map of a connection that is yet to be drained,*)
(* in readLoop's hand or already filled.                                   *)
NoOrphanedWaiter ==
  \A r \in Requests :
    pc[r] = "waiting" =>
      \/ phase[conn[r]] # "closed" /\ pending[conn[r]][IdOf[r]] = r
      \/ hand[conn[r]] # None /\ hand[conn[r]].ch = r
      \/ buf[r] # None

(* The pending maps do not leak: a request that is over has no entry left. *)
NoPendingLeak ==
  \A c \in Conns, i \in Ids : pending[c][i] # None => pc[pending[c][i]] # "done"

(* The hub never hands out a connection whose cleanup has removed it: the  *)
(* entry of an agent is one of its own connections, not yet unregistered.  *)
HubEntryIsLive ==
  \A a \in Agents :
    IsOnline(a) => owner[agents[a]] = a /\ phase[agents[a]] \in {"reading", "failed"}

(* "IsOnline checks if an agent is connected via WebSocket": an agent with *)
(* an open connection in its read loop is reported online.                 *)
OnlineWhileConnected ==
  \A c \in Conns :
    phase[c] = "reading" /\ link[c] => IsOnline(owner[c])

(* A disconnect wakes the callers: once the read loop of a connection has  *)
(* failed, each caller waiting on it gets its reply without any timer.     *)
DisconnectWakesCallers ==
  \A r \in Requests :
    (pc[r] = "waiting" /\ phase[conn[r]] \in {"failed", "unregistered", "closed"})
      ~> pc[r] = "done"

(* The status of a call as its client sees it; an answer to another call   *)
(* has no counterpart among the promised ones.                             *)
CallStatus(r) ==
  CASE pc[r] = "idle" -> "idle"
    [] pc[r] = "done" /\ result[r] = r -> "answered"
    [] pc[r] = "done" /\ result[r] \in {Failed, Disconnected} -> "failed"
    [] pc[r] = "done" /\ result[r] \notin {r, Failed, Disconnected} -> "crossed"
    [] OTHER -> "open"

RPC == INSTANCE RelayRPC WITH status <- [r \in Requests |-> CallStatus(r)]

(* The hub implements the promise to its callers: an answer means that the *)
(* agent carried out this request, before, and where the timers fire every *)
(* call ends.                                                              *)
ImplementsRPC == RPC!Spec /\ (TimersFire => RPC!Fairness)

-----------------------------------------------------------------------------
(* The inductive invariant behind SendNeverBlocks and NoPendingLeak: the   *)
(* channel of a request is in one place at a time (not yet created, in the *)
(* one pending entry of its connection and id, in that reader's hand, or   *)
(* filled), and only the first three leave somebody who can send on it.    *)
Untouched(r) == buf[r] = None /\ r \notin closed

FreshChannels ==
  \A r \in Requests : pc[r] \in {"idle", "checked", "found"} => Untouched(r)

PendingChannel(c, i, r) ==
  /\ conn[r] = c /\ IdOf[r] = i
  /\ pc[r] \in {"registered", "waiting", "giveup"}
  /\ Untouched(r)

PendingChannels ==
  \A c \in Conns, i \in Ids :
    pending[c][i] # None => PendingChannel(c, i, pending[c][i])

HeldChannel(c, r) ==
  /\ phase[c] = "reading"
  /\ conn[r] = c /\ pending[c][IdOf[r]] # r
  /\ pc[r] \in {"registered", "waiting", "giveup", "done"}
  /\ Untouched(r)

HeldChannels ==
  \A c \in Conns : hand[c] # None => HeldChannel(c, hand[c].ch)

ChannelInv == FreshChannels /\ PendingChannels /\ HeldChannels

(* A connection's owner is fixed when it is accepted, the hub's entries    *)
(* are live connections of that owner, and a request that holds a          *)
(* connection holds one of the agent it is addressed to.                   *)
OwnersKnown == \A c \in Conns : phase[c] # "unused" => owner[c] \in Agents

RoutedToTarget ==
  \A r \in Requests :
    /\ pc[r] \in {"found", "registered", "waiting", "giveup"} => conn[r] # None
    /\ conn[r] # None => phase[conn[r]] # "unused" /\ owner[conn[r]] = TargetOf[r]

RouteInv == OwnersKnown /\ HubEntryIsLive /\ RoutedToTarget

(* Whatever travels towards a caller carries the caller's id and answers a *)
(* request the agent carried out.                                          *)
SameId(r, reply) == IdOf[reply] = IdOf[r] /\ reply \in handled

CorrelationInv ==
  /\ \A r \in Requests : wire[r] \in {"running", "fromAgent", "gone"} => r \in handled
  /\ \A c \in Conns : hand[c] # None => SameId(hand[c].ch, hand[c].resp)
  /\ \A r \in Requests : buf[r] \in Requests => SameId(r, buf[r])
  /\ \A r \in Requests :
       result[r] \in Requests => SameId(r, result[r]) /\ conn[r] # None

IInv == TypeOK /\ ChannelInv /\ RouteInv /\ CorrelationInv

(* With distinct ids: where the channel of a request in flight is, and how *)
(* far the request got on the wire.                                        *)
Reachable(r) ==
  \/ pending[conn[r]][IdOf[r]] = r
  \/ hand[conn[r]] # None /\ hand[conn[r]].ch = r
  \/ buf[r] # None

WaiterInv == \A r \in Requests : pc[r] \in {"registered", "waiting"} => Reachable(r)

WireInv ==
  \A r \in Requests :
    /\ pc[r] \in {"idle", "checked", "found", "registered"} => wire[r] = "none"
    /\ wire[r] \in {"none", "toAgent"} => r \notin handled

(* The assumption on the clients under which ids correlate.                *)
UniqueIdAssumption ==
  \A r, s \in Requests : IdOf[r] = IdOf[s] => r = s
=============================================================================
