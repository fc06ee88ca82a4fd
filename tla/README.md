# yourbro: formal models

TLA+ models of yourbro, the checks TLC runs on small instances of them, and
theorems about them that TLAPS proves for every value of the constants.
`PROJECT.json` lists the components, the runs, the source lines each definition
stands for, one plausible bug ("mutant") per property that the property must
catch, the hazards, the findings and the theorems.

    tlc -config RelayHub_disconnect.cfg MCRelayHub.tla     # one run
    tlapm RelayHubProofs.tla                           # one proof module

## 1. The system

yourbro publishes web pages that live on the user's own machine. Four programs
take part:

- the **API server** (`src/api`): accounts and sessions, the registry of agents,
  the relay to them, the agent stream of the dashboard, custom domains, page
  analytics;
- the **agent** (`src/agent`): runs at the user's, keeps one WebSocket to the
  API server, serves pages, answers encrypted requests, pairs with browsers;
- the **dashboard** and the **page shell** (`src/web`, `src/api`'s shell HTML):
  browser code that pairs with an agent, encrypts requests and shows pages;
- the **crowdgent** protocol library and SDK: encodings and cryptographic calls.

They interact by

- WebSocket frames between API server and agent: a request envelope with an
  `id`, an answer with the same `id`, in no fixed order;
- HTTP from browsers to the API server, which relays to the agent and waits;
- server-sent events from the API server to the dashboard;
- shared state under mutexes inside each process: `Hub.agents`,
  `AgentConn.pending`, `SSEBroker.clients` and `lastState`, `DB.authKeys`,
  `PairHandler`'s code;
- SQLite (agent) and Postgres (API), by single statements: nothing in the code
  uses a transaction across two of them for the state modelled here.

### Inventory

| Component | State | Operations | Hard behaviours | Correct when | Module |
|---|---|---|---|---|---|
| Relay hub (`api/internal/relay/hub.go`, `handlers/relay.go`) | `agents`, per connection `pending`, one channel per request | accept, register, read loop, drain, unregister; `SendRequest` with 5s timeout | lookups and map accesses under different locks, send after unlock, reconnects before the loss is noticed, late answers | no send blocks or panics, no entry leaks, answers reach their own callers, every call ends | `RelayHub`, `RelayRPC` |
| Agent relay client (`agent/internal/relay/client.go`) | one connection, a goroutine per request | dial, read, answer, backoff | answers in any order, on a dead connection | answers go to the request they belong to | `RelayHub`; not the backoff |
| Authorised keys (`agent/internal/storage/sqlite.go`) | table and in-memory map | add, delete, reload | three steps per call, only the last under the lock; failures half way | map follows the table; a revoked key is out | `AuthorizedKeys` |
| Agent pairing (`agent/internal/handlers/pair.go`, ticker in `cmd/server/main.go`) | code, expiry, attempts, used | Pair, RevokeKey, Regenerate | revocation without the mutex; ticker period equal to the code's lifetime | guesses are limited, a successful call keeps map and table together, always pairable again | `AgentPairing` |
| Agent stream (`api/internal/handlers/sse.go`) | subscriptions, `lastState`, one channel per stream | NotifyUser, sendAgents, stale checker, ServeHTTP | snapshots taken without a lock, bounded channels, failed queries | streams show the hub's state; no send on a closed channel | `SSEBroker` |
| Page view recorder and shutdown (`analytics/recorder.go`, `cmd/server/main.go`) | buffered channel, workers | Record, worker, Shutdown | requests that outlast the shutdown; main returns first | accepted views are written | `PageViewRecorder` |
| Agent registry (`hub.go` upsert, `handlers/agents.go`) | agent rows | lookup by UUID or name, create, change UUID or name, store key, delete | five statements without a transaction, two handlers at once, delete while connecting, errors that are dropped | no row holds another user's key; a connected agent is known and discoverable | `AgentRegistry` |
| Agent router and cipher cache (`agent/internal/relay/router.go`) | ciphers by key | decrypt by key id, allow-list, handler, encrypt | the key is checked after decryption, by each handler | only authorised keys are served | `AgentPages` |
| Agent pages (`agent/internal/handlers/pages.go`) | pages on disk, access code in page.json | three access tiers, bundle, list | page.json read twice and written back by readers | nothing is served without a right; the owner's edit lasts | `AgentPages` |
| Agent page storage (`handlers/page_storage.go`) | rows by page and key | get, set, list, delete | check, then statement | only for paired browsers | `AgentPages` |
| API sessions (`auth`, `middleware`, `storage`, routes in `cmd/server/main.go`) | JWT, revocation list, cookies | login, logout, bridge to custom domains, cleanup, API tokens | a revocation list that fails open and is cleaned up; a bridge that does not ask it and trades its own sessions again | a logged-out session stays out; a lapsed one comes back only by a sign-in | `Sessions` |
| Identity tokens (`auth/identity.go`, agent `identity/verifier.go`) | server's signing key, agent's copy of it | issue, publish, fetch, daily refresh | a new signing key between fetch and use | the agent comes back to accepting tokens | `Sessions` |
| Custom domains (`handlers/custom_domains.go`) | rows, Cloudflare hostnames | create, verify, update, delete | two stores without a transaction, limits checked in statements of their own | limits hold, only proven domains are served, the stores agree | `CustomDomains` |
| Dashboard (`web`), page viewer shell (`shell.html`) | keys in IndexedDB; none | chains of requests to the parts above | status polled while the agent changes | — | not modelled, see §7 |
| API keys and user keys, Google OAuth | rows; none | single statements, one exchange | — | — | tokens and callback in `Sessions` |
| crowdgent library, agent identity, deployment | none; one row; none | encodings, scripts | — | — | not modelled, see §7 |

## 2. Plan

Done, in this order: the relay (the one path every page and every dashboard
action takes), the agent's keys and pairing (the authority behind every
encrypted request), the agent stream, the recorder and the shutdown; then the
registry (which row a connection speaks for), the agent's pages with router and
storage (who is served what), sessions with identity tokens, custom domains.

How the modules fit together: a connection of `AgentRegistry` is, between its
`Register` and its `Cleanup`, a connection of `RelayHub`. A request that
`RelayHub!AgentHandle` carries out is a request of `AgentPages`. `AgentPages`
takes the map of authorised keys as its table; `AuthorizedKeys` says when the two
differ. `AgentPages` leaves open whether an identity token verifies; `Sessions` says
when it does. `AgentPairing` EXTENDS `AuthorizedKeys`.

Left, most useful first:

1. What finding 4 lacks (see the end of §6): that streams follow the hub if
   `lastState` held the flags.
2. Action properties of the registry and the domains: what no statement does to a
   row that is not its caller's.
3. A promise to visitors that `AgentPages` and `RelayHub` implement together, as
   `RelayRPC` is to callers of the relay.

No module declares a recursive operator, so every module can be proved about.

## 3. The modules and the code

Common conventions. One action is one critical section or one step between
which another goroutine can run; a lookup, a send after an unlock, a query and
the store of its result are therefore separate actions. Definitions below a
comment "Mutant" are the seeded bugs; no specification uses them. Variables
marked "history" record what a property speaks about and never enable a step.

**`RelayHub`** models both ends of the agent WebSocket and the HTTP goroutine.
`Accept`, `Register`, `ReadResponse`/`Deliver`, `ReadFail`, `Unregister`,
`Drain` are `HandleAgentWS` and `readLoop`, in the code's order;
`CheckOnline`, `LookupConn`, `AddPending`, `WriteRequest`/`WriteFail`,
`Receive`/`Timeout`, `GiveUp` are `RelayHandler.Relay` and `Hub.SendRequest`
(two lookups, as in the code); `LoseLink`, `AgentHandle`, `AgentRespond` are the
agent's client. `buf` and `closed` are the response channel of capacity one;
`wire` is where a request is between the processes. A lost agent is noticed by
the server only when its read fails, at any later time. Public page requests and
dashboard requests use the same `SendRequest` and are both `Requests`.

**`RelayRPC`** is what callers may rely on: a call ends, and an answered call was
carried out. A failed call may have been carried out as well, and may still be. `RelayHub!ImplementsRPC` maps the
program counters and results to its `status`.

**`AuthorizedKeys`** is the key table and the map in `DB`: `Exec`, `Query`,
`Store` are the three steps of a call, of which only `Store` is under
`authKeysMu`. `Query` may return part of the table, because SQLite steps inside
`rows.Next` and `rows.Err` is never read. `Fail` and `RestartKeys` may come at
any step.

**`AgentPairing`** EXTENDS it: `PairAccepted`/`PairDone` hold
`PairHandler.mu` around an Add, `RevokeKey` does not take it, `Regenerate` is
one tick, `Tick` is time. A rejected guess may or may not have been compared
with the code (a body that does not parse is not).

**`SSEBroker`** is one user's part of the broker: users share neither
subscriptions nor state. `ListAgents`, `ReadStatus` (one agent at a time, no
lock) and `Publish` (under `b.mu`) are `sendAgents`; `CheckerTick`,
`CheckerList`, `Compare` the stale checker; `Subscribe`, `Forward`,
`Unsubscribe`, `Close` are `ServeHTTP`. `Publish` stores `FALSE` flags in
`last`, as the code does: `is_online` is set on copies.

**`PageViewRecorder`** has the channel as a set (no property depends on order),
the workers, and `main` with its shutdown goroutine. A record on the closed
channel panics and is recovered: the view is dropped.

**`AgentRegistry`** has one action per statement of `HandleAgentWS`: `FindByUuid`,
`FindByName`, `Create`, `SetUuid`, `Rename`, `StoreKey`, then `Register` or
`AcceptFail`, and `Cleanup`; `Post` and `Delete` are the dashboard's endpoints.
Every statement may fail, and what the code makes of the error (a 500, nothing,
or "no such row") is part of the action. `Admissible` is the two unique indexes,
`Known` and `Discoverable` what the relay and the page endpoint look up. A
`dial` is what an agent connects with: its token's user, its name and its UUID;
it stands for the agent's X25519 key as well. Histories: `orphaned` (the row was
deleted under the connection), `alone` (nothing overlapped or failed).

**`AgentPages`** takes a request through `HandleRequest` (decrypt, identity token,
allow-list, mux), `ReadMeta`, `Access`, `BuildBundle`, `List`, the check of the
storage handlers and their one statement. `ReadMeta` writes page.json back when
a code is due (`Truncate`, `WriteMeta`: `os.WriteFile` is not atomic), to `Get` or
to the bundle, whichever called it. `Edit`, `Pair`, `Revoke` and `Restart` go on
meanwhile. Histories: `entitled` (the request had a right at some instant since it
arrived; a public page is open to all, and whether a shared one of them is, §8,
is left open), `word` (the owner's last edit, if no write-back was under way).

**`Sessions`** takes a session token as its user and its age, which is all that is
in it. `StartLogin`, `Callback`, `Bridge`/`Trade`/`Mint`, `SetSession`,
`Logout`/`Revoke` are the routes. `cookie` is the browser's session on the
server's own host; `abroad` is every session that the bridge has put into a
redirect URL, or `/auth/session` into a cookie, and whoever has seen one may
present it to any route, as often as it likes (`Presentable`): to the API, to
the logout, and to the bridge, which trades it for another. Sessions in `abroad`
that have expired are dropped, since every route refuses them. `Validate` and `Lookup` are
`RequireAuth` (the signature and expiry, then the revocation list, whose failed
query lets the caller pass); `Handle` is a handler behind it; `Clean`,
`CookiesExpire`, `ApiTokenExpires` and `Tick` are time. `Deploy`, `Refresh`,
`AgentStart` and `ProofExpires` are the identity tokens. Histories: `ended` (the
table has taken the revocation), `left` (how long anything is still valid that
goes back to the user's last sign-in: a life from the sign-in, and a life again
from each trade that was asked for before it was up), and in a request `barred`
(its credential had been withdrawn, or for a trade nothing was left, when it was
sent) and `doubt` (the revocation list did not answer).

**`CustomDomains`** has the table (`rows`), the TXT records (`txt`) and Cloudflare
(`hosts`), and calls that go from one to the other step by step: `CreateBegins`,
`Count`, `Create`; `VerifyBegins`, `Lookup`, `Register`, `Verify`; `DeleteBegins`,
`Unregister`, `Delete`; `Update` and `Crash`. A call to Cloudflare that fails may
have taken effect. Histories: `unlisted` and `uncounted` (a limit was looked at
beside another create, or its query failed), `disturbed` (a call failed between
the stores, or two overlapped); `Settle` and `SettleLimits` end them when nothing
is left of what went wrong.

## 4. The runs

| Run | Expect | What it shows |
|---|---|---|
| `relay_disconnect` | pass | two requests, two successive or overlapping connections and a second agent that may take one of them: channels, ids and hub entries stay consistent in every interleaving; without timers a lost connection still wakes every caller that waits on it; `RelayHub` implements `RelayRPC`, its liveness included where the timers fire |
| `relay_reconnect` | violation | finding 1 |
| `registry_connect` | pass | a row never holds another user's key; an agent whose names are its own stays known while it is connected, whatever fails or overlaps; a connection that nothing disturbed is discoverable with its own key |
| `registry_names` | violation | finding 2 |
| `pairing_limits` | pass | never more than `MaxAttempts` guesses compared with one code; a successful call that ran alone leaves no key authorised that is not in the table; the agent always gets back to accepting guesses |
| `keys_stale` | violation | finding 3 |
| `pages_access` | pass | a page, a list or the storage is served only to a request that had a right to it at some instant while it ran; requests change nothing in page.json but the code it lacks, unless the owner's edit fell into a write-back |
| `sessions_access` | pass | what had been logged out or deleted does not pass, unless the query failed; whichever sessions are traded at the bridge, and however often, a user of whose sign-in nothing valid is left is accepted again only after another; after a change of the signing key the agent accepts identity tokens again |
| `sse_streams` | pass | no send on a closed channel; after a send that ran alone the stream has the hub's flags; a deleted agent disappears from a stream that missed no snapshot |
| `sse_offline` | violation | finding 4 |
| `domains_stores` | pass | the limits hold unless creates ran side by side or a limit's query failed; a served domain's token stood in its DNS; table and Cloudflare agree where no call failed between them and no two overlapped |
| `views_drain` | pass | when `Recorder.Shutdown` returns, every accepted view was tried; every accepted view is tried unless the process exits |

The exceptions in the properties of `AgentPages`, `Sessions` and `CustomDomains`
are the code's own limits, found while stating them: without any one of them TLC
shows a counterexample. They are named as histories so that the property still
says everything outside them.

### Bounds, and why they are enough

- Relay: 2 connections (a reconnect needs an old and a new one), 2 requests (a
  late answer against a second request's entry), and a second agent that may take
  one of the connections.
  A third request or connection adds no new pair of conflicting steps: entries
  conflict by id, connections by their agent. The proofs remove these bounds
  for the safety properties, and for request ids that are not distinct as well.
- Keys: 1 or 2 keys, 2 goroutines: an add races a delete of the same key, which
  is where two calls conflict. Attempts: a limit of 2 in place of 5 (the limit is only
  compared with).
- Time: a code's life and the ticker's period are 2 units and the ticker is at
  most 1 late (`MaxDelay < Life`), which gives ticks before, at and after an
  expiry.
- SSE: channel capacity 2 in place of 4, so that the stream's channel fills up;
  1 agent, 1 connection goroutine, 1 stream and the checker are three concurrent
  senders. Streams share only `lastState`; that no send meets a closed channel
  is proved for any number of them.
- Registry: 2 handlers and 4 rows for 5 dials, so that a free row is never what
  stops a create: two agents of one name, one of them also run with another
  user's token, and an agent with two names. Handlers and row ids are reused, so
  behaviours are not bounded in length.
- Pages: one page and one storage entry (pages and entries share nothing), 2
  requests, one of everything a browser asks and one of the page alone; 2 keys of
  which one is paired, 2 e-mails of which one is invited, an access code the
  owner chose, one that happens to be generated and two that nobody asks with.
- Sessions: 2 accounts of one username, 1 browser and all sessions the bridge
  hands out, 1 API token, 1 request in flight, 2 signing keys, a lifetime of 2
  ticks: a session and the one traded for it are then of different ages, and time
  passes between the steps of a trade. Trades are not bounded, nor is the time
  since a sign-in. Proved for any number of each but the browser.
- Domains: 2 of each, `MaxDomains` 1 in place of 95, so that the limit on all
  domains is met before the limit per account and beside it.
- Recorder: capacity 2 in place of 256 and 4 views, so that the channel
  overflows with both workers busy.

Deadlock is checked in every run: the terminating models have an explicit final
step (`Finished`, `Exited`), the others never stop.

## 5. Fairness

- `RelayHub!Fairness`: goroutines that can run do; a read on a dead socket fails
  in the end. Nothing is assumed of the agent, not even that it answers.
  `TimersFire`, the 5s of `context.WithTimeout`, is a separate formula:
  `DisconnectWakesCallers` does without it, the liveness half of `ImplementsRPC`
  has it as its hypothesis.
- `AgentPairing!Fairness`: time passes, the ticker's goroutine gets the mutex, a
  call that started goes on (SQLite gives up after its busy timeout). Nobody is
  assumed to pair or to revoke.
- `SSEBroker!Fairness`: started goroutines go on, an open stream is read, the
  checker ticks every 30s; strong fairness of the query says that a query
  repeated for ever does not fail for ever. It is justified only for the claim
  made with it: a list that never loads cannot show anything.
- `PageViewRecorder!Fairness`: workers and the shutdown goroutine run. Requests,
  signals and `main` are free.

- `Sessions!Fairness`: the agent's 24-hour ticker never stops and a fetch succeeds
  some time; an identity token expires after five minutes. Nobody is assumed to
  sign in, to call or to fetch a token.

`AgentRegistry`, `AgentPages` and `CustomDomains` state safety only and no fairness.
Weak fairness suffices elsewhere because each of these steps stays enabled until
it is taken.

## 6. What is proved

The proof modules hold for any finite or infinite sets of agents, connections,
requests, ids, keys, goroutines, streams, views, dials, rows, accounts, codes,
domains and hostnames,
under the assumptions named in the modules (`ConstAssumption`, `KeysAssumption`,
`PairingAssumption`, `BrokerAssumption`, `RecorderAssumption`,
`RegistryAssumption`, `PagesAssumption`, `SessionsAssumption`,
`DomainsAssumption`): the special values are distinct from all others, among them
the screen of a stream that has shown nothing (`Unseen`), and capacities and
limits are natural numbers. Every safety property of a passing run is proved.

- `RelayHubProofs` (`TypeCorrect`, `Invariance`, `SendsNeverBlock`, `NoLeak`,
  `HubEntriesAreLive`; `AnswersCorrelate` with `UniqueIdAssumption`).
  `SendNeverBlocks` is not inductive: that the slot of a pending channel is free
  depends on the channel being in only one place. The invariant `IInv` says
  where each channel is (`ChannelInv`: not yet created, in the one pending entry
  of its connection and id, in that reader's hand, or filled), whom connections
  belong to (`RouteInv`), and that what travels to a caller carries its id
  (`CorrelationInv`).
- Also there, with distinct ids (`WaitersReachable`, `Refinement`): `WaiterInv` (a request in flight is reachable by somebody who can answer) and
  `WireInv` (a frame not yet read was not carried out) make each step of the hub
  a step of `RelayRPC` or a stutter. Without distinct ids `Refinement` does not
  hold: a caller may be given the answer to the other request of the same id.
- `AgentPairingProofs`: `LoneCallsPurge` by an invariant that follows `alone`
  through the three steps of a call; `AttemptsLimitGuesses` from
  `guesses <= attempts`, which needs that only the holder of `mu` is in an Add
  and that `Regenerate` resets both or neither.
- `SSEBrokerProofs`: `NeverSendsOnClosed`, because a stream is subscribed only
  before its `leaving` stage and closed only after it; `TypeCorrect`. For
  `QuietIsAccurate` the invariant `QuietInv` follows the only sender there is
  while nothing is `muddled`: what it has read so far is true (`ReadIsTrue`), and
  when nobody owes a send the streams show the hub (`StreamsShowHub`).
- `PageViewRecorderProofs` (`DrainIsComplete`, `TypeCorrect`): an accepted view is
  in the channel, with a worker or tried, and a worker has ended only when the
  channel is closed and empty; needs at least one worker.
- `AgentRegistryProofs` (`Invariance`, `TypeCorrect`, `KeysAreTheOwners`,
  `ExclusiveAgentsReachable`): `KeysStayWithOwner` needs that the row a handler
  holds is its user's or gone (`HeldRows`), because the key is stored statements
  after the row was checked. `ExclusiveAgentsAreKnown` needs in addition that rows
  keep to the agents whose UUID or name they have (`ExclusiveRows`), that a
  takeover by name never meets such a row (`TakeoversSpareExclusive`), and that a
  handler past its lookup is known (`HandlersKnown`). For
  `TheUndisturbedAreDiscoverable`, `AloneInv` says that nobody else is between two
  statements while a connection is alone, and what each statement has achieved so
  far (`Prepared`, then `Published`).
- `AgentPagesProofs` (`Invariance`, `TypeCorrect`, `OnlyEntitledServed`): the
  rights are only ever read at other instants than the answer, so the invariant
  says that a right is noted at once (`Noted`), that what a request has read
  grants it only what a right was noted for (`ReadWithRight`), and that past the
  check there was one (`PassedWithRight`). That a request which names a key was
  encrypted with it (`Decrypted`) carries the check of the name over to the
  sender. For `TheOwnersWordLasts` page.json is not enough: what a request in the
  middle of writing it back has in hand agrees with the owner too
  (`WriteBacksAgree`).
- `SessionsProofs` (`Invariance`, `TypeCorrect`, `RevokedStaysOut`,
  `LapsedNeedSignIn`): what has been revoked stays in the table while it is valid
  (`RevocationsStand`), also under `Clean`; a barred call gets past a check only by
  doubt or by running out, and a barred trade not at all (`StaysBarred`); no
  session, kept or in a request, is valid for longer than is `left` to its user
  (`SessionsBacked`, `CallBacked`). So a trade that `Trade` accepts was not barred
  when it was sent, and what `Mint` makes is backed in turn.
- `CustomDomainsProofs` (`Invariance`, `TypeCorrect`, `TheLimitsHold`,
  `WhatIsServedIsProven`, `TheStoresAgree`): none of its properties is inductive.
  A domain is one row's (`UniqueDomains`), a call works on its own domain's row
  (`CallsOwnDomain`), and an id of Cloudflare's that a row or a call knows is
  registered for that domain or gone (`HostnamesOwned`), so that steps for one
  domain leave the others alone (`WorkElsewhere`). For the limits, one Create at
  a time counts and what it counted still holds when it inserts (`CountHolds`,
  `ListHolds`). For the stores, `Tidy` has a clause per step of a call: what
  Verify and Delete may rely on between Cloudflare and the row (`InHand`). For
  `ServedIsProven`, past `Lookup` the token has been seen (`TokensSeen`).

What the findings lack. Two theorems state what would make a refuted property
hold, which shows that the finding names the whole reason:
`OnlineWhileConnectedOnce` (finding 1) if no agent is accepted before its old
connection is cleaned up, and `RevokedStaysOutAlone` (finding 3) if calls did not
overlap, whatever fails or dies in the middle of one. Their hypotheses are about
the behaviour (`[]OneConnection`, `[]OneCall`), not about constants, and the code
does not guarantee them. `ExclusiveAgentsReachable` does the same for finding 2.

Only model-checked: liveness and everything under fairness
(`DisconnectWakesCallers`, `AlwaysPairableAgain`, `RemovedAgentDisappears`,
`EveryViewIsAttempted`, `TokensAcceptedAgain`, the liveness half of
`ImplementsRPC`), which the prover does not handle.

## 7. What is not modelled

- Cryptography (X25519, AES-GCM, HMAC, JWT signatures) is taken as ideal:
  nobody has a key or token that was not given to them.
- Wording, HTML, logging and layout; the keepalive pings of the WebSocket (their
  effect, a failed read, is `ReadFail`).
- The dashboard and the page viewer shell: chains of requests to parts that are
  modelled, each in one browser page that keeps nothing but the key store. The
  hazard that matters most there, an unread answer to a revocation, is listed
  with a note.
- The agent's reconnect backoff: it only decides when the next dial happens.
- Public keys of users: single statements on keyed rows, which nothing but their
  list reads. Google's side of OAuth: a choice between success and refusal.
- crowdgent and its SDK: stateless encodings. Agent identity: one row, written at
  the first start. Deployment: scripts.
- In `Sessions`: which custom domain a session was handed to; the bridge's own
  look-up of it is a choice. A single browser signs in with Google; its login
  cookies are its own.
- In `CustomDomains`: the server without Cloudflare configured, and the CNAME
  record beyond the refusal it may cause.
- Behaviours the models have and no property forbids: the auth-check probe
  answers "paired" to whatever decrypts; a used pairing code is revived when the
  last key is revoked before its expiry; a tick that follows a late one keeps a
  code about to expire; `main` returns when the shutdown has begun, and views
  still in the channel are lost. Each is a hazard with a note.
- In `RelayHub`: a WebSocket loses or keeps whole frames, and several agents of
  one UUID at once are not modelled (the same agent process never dials twice at
  a time; a second process with the same UUID is a reconnect to the hub).

## 8. Findings

Each is a run that TLC ends with a counterexample to what a comment, a doc or a
test says.

1. `relay_reconnect`: an agent that reconnects before the server noticed the
   loss of its old connection is removed from the hub by the old connection's
   cleanup (`hub.go:137`) and stays offline while connected.
2. `registry_names`: a second agent of the same user and name takes over the
   first one's row and gives it its own UUID (`hub.go:82`), also while the first is
   connected; the first stays connected and no row has its UUID.
3. `keys_stale`: overlapping reloads (`sqlite.go:165`) can store the older rows
   last; a key stays authorised after its revocation was confirmed.
4. `sse_offline`: `lastState` never holds an online flag (`sse.go:109`), so the
   stale checker cannot see an agent that went offline.

### Disagreements without a run

In these the code does other than a text of the repository says. The models do as
the code does, and the properties are stated so that neither is called wrong.

- A page that is `public: true` and shared. `Get` (`pages.go:202-229`) answers
  from the shared tier alone: who has no identity token, no matching e-mail or no
  code is refused. `SHARED_PAGES.md:93` says "Missing token or code → fall through
  to paired/public tiers", its matrix (lines 97-104) has "Yes" for every viewer of
  a public page, as does the code it plans (lines 342-357), and the comment on
  `Get` (`pages.go:189`) says "public:true -> anyone". `ServedWhenEntitled` counts a
  public page as everybody's, and so leaves such a page open; that a page which is
  shared and not public needs e-mail and code is what it checks.
- The bridge's code. `main.go:726-728` and `main.go:764` call it one-time and
  short-lived. It is a session token of seven days, which `/auth/session`
  (`main.go:203-226`) takes as often as it is presented, and which the bridge
  (`main.go:751-765`) takes as a session and trades for another. `Bridge`, `Trade`,
  `Mint` and `SetSession` do so, and `LapsedStayOut` says what does hold: the chain
  ends by a lapse.
- The logout. `main.go:780` revokes the token "so it's invalid on all domains". The
  session on a custom domain is another token and stays valid, and the bridge does
  not ask the revocation list, so that even the revoked one is traded there.
  `RevokedNeverPasses` is about the token that was revoked.
