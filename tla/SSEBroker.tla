----------------------------- MODULE SSEBroker -----------------------------
(***************************************************************************)
(* The dashboard's agent stream of one user: goroutines take a snapshot of *)
(* the user's agents and the hub's online flags, without a lock, and put   *)
(* it into the channel of every open stream (api/internal/handlers/sse.go).*)
(* The hub is seen through the agents it reports online and its calls of   *)
(* Notify (api/internal/relay/hub.go); users do not share any of this.     *)
(***************************************************************************)
EXTENDS Naturals, FiniteSets, Sequences

CONSTANTS
  Agents,     \* the user's agents
  Notifiers,  \* HandleAgentWS goroutines of these agents
  Streams,    \* GET /api/agents/stream requests, each used once
  Checker,    \* the goroutine of StartStaleChecker
  Cap,        \* 4: capacity of a stream's channel
  Unseen      \* a browser to which nothing was written yet

Senders == Notifiers \cup Streams \cup {Checker}

(* What a send puts into a channel: agents with their online flags.        *)
Snapshots == UNION {[shown -> BOOLEAN] : shown \in SUBSET Agents}

ASSUME BrokerAssumption ==
  /\ Cap \in Nat \ {0}
  /\ Notifiers \cap Streams = {}
  /\ Checker \notin Notifiers \cup Streams
  /\ Unseen \notin Snapshots

VARIABLES
  rows,     \* agents of the user in the database
  online,   \* agents the hub reports online
  subs,     \* SSEBroker.clients of the user
  last,     \* SSEBroker.lastState of the user, empty when absent
  stage,    \* where a goroutine is
  listed,   \* the agents its ListAgents returned
  snap,     \* the online flags it has read so far
  queue,    \* a stream's channel
  closed,   \* streams whose channel is closed
  screen,   \* the last snapshot written to the browser, Unseen before
  missed,   \* history: streams whose full channel made a send skip them
  muddled   \* history: the last send overlapped another, or failed

worldVars  == <<rows, online>>
streamVars == <<subs, closed, queue, screen, missed>>
sendVars   == <<stage, listed, snap>>
vars == <<worldVars, streamVars, sendVars, last, muddled>>

NoState == [a \in {} |-> FALSE]

(* A goroutine is in NotifyUser, sendAgents or checkAndNotifyIfChanged.    *)
Busy(g) == stage[g] \in {"notify", "list", "status", "check", "compare"}

(* A stream's goroutine serves the stream after its own send.              *)
Rest(g) == IF g \in Streams THEN "serving" ELSE "idle"

Goto(g, to) == stage' = [stage EXCEPT ![g] = to]

(* A function returns, and its locals are gone.                            *)
Return(g, to) ==
  /\ Goto(g, to)
  /\ listed' = [listed EXCEPT ![g] = {}]
  /\ snap' = [snap EXCEPT ![g] = NoState]

Init ==
  /\ rows \in SUBSET Agents
  /\ online = {}
  /\ subs = {} /\ closed = {} /\ missed = {}
  /\ last = NoState
  /\ stage  = [g \in Senders |-> "idle"]
  /\ listed = [g \in Senders |-> {}]
  /\ snap   = [g \in Senders |-> NoState]
  /\ queue  = [s \in Streams |-> <<>>]
  /\ screen = [s \in Streams |-> Unseen]
  /\ muddled = FALSE

-----------------------------------------------------------------------------
(* What the broker reports on.                                             *)

(* POST /api/agents, or the first lines of HandleAgentWS: no Notify yet.   *)
CreateAgent(a) ==
  /\ rows' = rows \cup {a}
  /\ UNCHANGED <<online, streamVars, sendVars, last, muddled>>

(* AgentsHandler.Delete removes the row; nobody is notified.               *)
DeleteAgent(a) ==
  /\ rows' = rows \ {a}
  /\ UNCHANGED <<online, streamVars, sendVars, last, muddled>>

(* Mutant: only the connection is notified, not its loss.                  *)
HubChangeSilentLoss(g, a) ==
  /\ stage[g] = "idle"
  /\ \/ a \in rows \ online /\ online' = online \cup {a} /\ Goto(g, "notify")
     \/ a \in online /\ online' = online \ {a} /\ UNCHANGED stage
  /\ muddled' = \E h \in Senders : Busy(h)
  /\ UNCHANGED <<rows, streamVars, listed, snap, last>>

(* HandleAgentWS registers or unregisters its agent, then calls Notify.    *)
HubChange(g, a) ==
  /\ stage[g] = "idle"
  /\ \/ a \in rows \ online /\ online' = online \cup {a}
     \/ a \in online /\ online' = online \ {a}
  /\ Goto(g, "notify")
  /\ muddled' = \E h \in Senders : Busy(h)
  /\ UNCHANGED <<rows, streamVars, listed, snap, last>>

-----------------------------------------------------------------------------
(* NotifyUser and sendAgents.                                              *)

NotifyUser(g) ==
  /\ stage[g] = "notify"
  /\ Goto(g, IF subs = {} THEN Rest(g) ELSE "list")
  /\ UNCHANGED <<worldVars, streamVars, listed, snap, last, muddled>>

ListAgents(g) ==
  /\ stage[g] = "list"
  /\ Goto(g, "status")
  /\ listed' = [listed EXCEPT ![g] = rows]
  /\ UNCHANGED <<worldVars, streamVars, snap, last, muddled>>

(* The query of sendAgents or of the checker fails, or takes 5s.           *)
ListFails(g) ==
  /\ stage[g] \in {"list", "check"}
  /\ Return(g, Rest(g))
  /\ muddled' = TRUE
  /\ UNCHANGED <<worldVars, streamVars, last>>

(* Hub.IsOnline, one agent after the other.                                *)
ReadStatus(g, a) ==
  /\ stage[g] = "status"
  /\ a \in listed[g] \ DOMAIN snap[g]
  /\ snap' = [snap EXCEPT ![g] =
                [b \in DOMAIN @ \cup {a} |-> IF b = a THEN a \in online ELSE @[b]]]
  /\ UNCHANGED <<worldVars, streamVars, stage, listed, last, muddled>>

(* Mutant: the capacity of a channel does not count.                       *)
PublishUnbounded(g) ==
  /\ stage[g] = "status"
  /\ DOMAIN snap[g] = listed[g]
  /\ Return(g, Rest(g))
  /\ last' = [a \in listed[g] |-> FALSE]
  /\ queue' = [s \in Streams |-> IF s \in subs THEN Append(queue[s], snap[g]) ELSE queue[s]]
  /\ UNCHANGED <<worldVars, subs, closed, screen, missed, muddled>>

(* Under b.mu: lastState takes the flags of the rows, where the database   *)
(* knows none (the hub's were written to copies), and every stream with    *)
(* room gets the snapshot.                                                 *)
Publish(g) ==
  /\ stage[g] = "status"
  /\ DOMAIN snap[g] = listed[g]
  /\ Return(g, Rest(g))
  /\ last' = [a \in listed[g] |-> FALSE]
  /\ LET room == {s \in subs : Len(queue[s]) < Cap}
     IN  /\ queue' = [s \in Streams |-> IF s \in room THEN Append(queue[s], snap[g]) ELSE queue[s]]
         /\ missed' = missed \cup (subs \ room)
  /\ UNCHANGED <<worldVars, subs, closed, screen, muddled>>

-----------------------------------------------------------------------------
(* StartStaleChecker and checkAndNotifyIfChanged.                          *)

CheckerTick ==
  /\ stage[Checker] = "idle"
  /\ subs # {}
  /\ Goto(Checker, "check")
  /\ muddled' = (muddled \/ \E h \in Senders : Busy(h))
  /\ UNCHANGED <<worldVars, streamVars, listed, snap, last>>

CheckerList ==
  /\ stage[Checker] = "check"
  /\ Goto(Checker, "compare")
  /\ listed' = [listed EXCEPT ![Checker] = rows]
  /\ UNCHANGED <<worldVars, streamVars, snap, last, muddled>>

(* Mutant: agents that were removed are not looked for.                    *)
CompareWithoutLength ==
  /\ stage[Checker] = "compare"
  /\ IF \E a \in listed[Checker] : a \notin DOMAIN last \/ last[a]
       THEN Return(Checker, "list")
       ELSE Return(Checker, "idle")
  /\ UNCHANGED <<worldVars, streamVars, last, muddled>>

(* Under b.mu: a row's flag (always false) differs from lastState, or the  *)
(* numbers of agents do.                                                   *)
Compare ==
  /\ stage[Checker] = "compare"
  /\ IF \/ \E a \in listed[Checker] : a \notin DOMAIN last \/ last[a]
        \/ Cardinality(listed[Checker]) # Cardinality(DOMAIN last)
       THEN Return(Checker, "list")
       ELSE Return(Checker, "idle")
  /\ UNCHANGED <<worldVars, streamVars, last, muddled>>

-----------------------------------------------------------------------------
(* ServeHTTP: subscribe, send the current state, forward, unsubscribe.     *)

Subscribe(s) ==
  /\ stage[s] = "idle"
  /\ subs' = subs \cup {s}
  /\ Goto(s, "list")
  /\ muddled' = \E h \in Senders : Busy(h)
  /\ UNCHANGED <<worldVars, closed, queue, screen, missed, listed, snap, last>>

Forward(s) ==
  /\ stage[s] = "serving"
  /\ queue[s] # <<>>
  /\ screen' = [screen EXCEPT ![s] = Head(queue[s])]
  /\ queue'  = [queue EXCEPT ![s] = Tail(@)]
  /\ UNCHANGED <<worldVars, subs, closed, missed, sendVars, last, muddled>>

(* Mutant: the channel is closed while it is still subscribed.             *)
UnsubscribeClosing(s) ==
  /\ stage[s] = "serving"
  /\ closed' = closed \cup {s}
  /\ Goto(s, "leaving")
  /\ UNCHANGED <<worldVars, subs, queue, screen, missed, listed, snap, last, muddled>>

(* The browser has gone.  The last stream takes lastState with it.         *)
Unsubscribe(s) ==
  /\ stage[s] = "serving"
  /\ subs' = subs \ {s}
  /\ last' = IF subs = {s} THEN NoState ELSE last
  /\ Goto(s, "leaving")
  /\ UNCHANGED <<worldVars, closed, queue, screen, missed, listed, snap, muddled>>

(* close(ch), after the unlock.                                            *)
Close(s) ==
  /\ stage[s] = "leaving"
  /\ closed' = closed \cup {s}
  /\ Goto(s, "left")
  /\ UNCHANGED <<worldVars, subs, queue, screen, missed, listed, snap, last, muddled>>

-----------------------------------------------------------------------------
WorldStep ==
  \/ \E a \in Agents : CreateAgent(a) \/ DeleteAgent(a)
  \/ \E g \in Notifiers, a \in Agents : HubChange(g, a)

SendStep(g) ==
  \/ NotifyUser(g)
  \/ ListAgents(g)
  \/ ListFails(g)
  \/ \E a \in Agents : ReadStatus(g, a)
  \/ Publish(g)

CheckerStep == CheckerTick \/ CheckerList \/ Compare

StreamStep(s) == Subscribe(s) \/ Forward(s) \/ Unsubscribe(s) \/ Close(s)

Next ==
  \/ WorldStep
  \/ \E g \in Senders : SendStep(g)
  \/ CheckerStep
  \/ \E s \in Streams : StreamStep(s)

Spec == Init /\ [][Next]_vars

(* A goroutine that started goes on, an open stream is read, the checker   *)
(* ticks, and a query that is repeated for ever succeeds in the end.       *)
Fairness ==
  /\ \A g \in Senders :
       /\ WF_vars(SendStep(g))
       /\ SF_vars(ListAgents(g))
  /\ WF_vars(CheckerStep) /\ SF_vars(CheckerList)
  /\ \A s \in Streams : WF_vars(Forward(s)) /\ WF_vars(Close(s))

FairSpec == Spec /\ Fairness

-----------------------------------------------------------------------------
Stages == {"idle", "notify", "list", "status", "check", "compare", "serving", "leaving", "left"}

TypeOK ==
  /\ rows \subseteq Agents /\ online \subseteq Agents
  /\ subs \subseteq Streams /\ closed \subseteq Streams /\ missed \subseteq Streams
  /\ last \in Snapshots
  /\ stage \in [Senders -> Stages]
  /\ listed \in [Senders -> SUBSET Agents]
  /\ snap \in [Senders -> Snapshots]
  /\ \A s \in Streams : Len(queue[s]) <= Cap /\ \A i \in 1 .. Len(queue[s]) : queue[s][i] \in Snapshots
  /\ screen \in [Streams -> Snapshots \cup {Unseen}]
  /\ muddled \in BOOLEAN

(* A channel that a send can still find in clients is open: no snapshot is *)
(* sent on a closed channel (a panic), however a browser's leaving and the *)
(* hub's notifications interleave.                                         *)
NoSendOnClosed == subs \cap closed = {}

(* What a stream's browser will show once it has read its channel.         *)
Newest(s) == IF queue[s] = <<>> THEN screen[s] ELSE queue[s][Len(queue[s])]

(* When the last send ran alone and succeeded, every stream is about to    *)
(* show the hub's present flags: no change goes without its notification.  *)
QuietStreamsAreAccurate ==
  (~muddled /\ \A g \in Senders : ~Busy(g)) =>
    \A s \in subs \ missed :
      /\ Newest(s) # Unseen
      /\ \A a \in DOMAIN Newest(s) : Newest(s)[a] = (a \in online)

(* A removed agent disappears: sends that overlap may leave it in a stream *)
(* for a while, but the checker compares with what was sent last, and a    *)
(* stream that missed no snapshot ends up without the agent.               *)
RemovedAgentDisappears ==
  \A a \in Agents, s \in Streams :
    <>[](a \notin rows /\ stage[s] = "serving" /\ s \notin missed)
      => <>[](screen[s] = Unseen \/ a \notin DOMAIN screen[s])

(* "Detects agents that just went offline and notifies": an agent that is  *)
(* offline for good is not shown online for good.                          *)
OfflineIsShown ==
  \A a \in Agents, s \in Streams :
    <>[](a \in rows \ online /\ stage[s] = "serving" /\ s \notin missed)
      => []<>(screen[s] = Unseen \/ a \notin DOMAIN screen[s] \/ ~screen[s][a])
=============================================================================
