# A TLA+ model of the Hermes A2A gateway

The gateway (`src/src/hermes_a2a/`) is one asyncio process. It speaks the A2A
protocol to its clients, runs every message as a turn of a conversation in a
Hermes API server, keeps tasks and sessions in one SQLite file, relays messages
to other gateways, and serves an administration API. This directory holds TLA+
modules of its protocols, the TLC runs that check them, and proofs for TLAPS.

`tlc -config <cfg> <module>` repeats a run and `tlapm <module>.tla` a proof;
`PROJECT.json` lists the runs, the mutants that show each property has teeth,
the lines each definition models, the findings, the hazards and the theorems.

## 1. Inventory

Paths are relative to `src/src/hermes_a2a/`.

| component | state it keeps | operations | interacts with | model |
|---|---|---|---|---|
| request handler, `a2a_handler.py` | locals of every suspended request; `_sessions`; counters | send, stream, get, list, cancel, push configuration | both stores, Hermes client, push notifier | `Gateway`, `StreamRelay`, `PushNotifier` |
| task store, `task_store.py` | table `tasks`, one shared connection | save, get, list, delete | handler, admin API, metrics | `Gateway`, `SqliteLocks` |
| session store, `session_store.py` | table `sessions` in the same file, a second connection | save, get, load_all, cleanup | handler, start-up | `Gateway`, `SqliteLocks` |
| state machine, `task_state_machine.py` | none (tables) | is_terminal, can_cancel, validate_transition | cancel uses the first | `TaskStates` |
| Hermes client, `hermes_client.py` | retry counters of one call | send_message, send_message_stream | Hermes over HTTP | `HermesRetry`, `StreamRelay`, `HermesClient` |
| push notifier, `push_notifier.py` | webhooks in memory | create, get, list, delete, deliver | handler awaits deliver | `PushNotifier` |
| rate limiter, `rate_limiter.py` | a token bucket per address | dispatch / consume | behind the authentication, in front of all routes | `RateLimiter`, `FrontDoor` |
| peer manager, `peer_manager.py`, `a2a_client.py` | peer configuration, circuit breaker, discovered cards | relay, discover, status | the admin API shares its dictionaries | `PeerManager` |
| admin API, `admin_api.py` | none of its own | add/remove/check peers, list/delete tasks, metrics | peer manager, task store | `PeerManager`, `Gateway` |
| server, `server.py` | wiring, lifespan | start-up, shutdown, middlewares | everything | `Gateway` (lifespan), `FrontDoor` (middlewares), `WsBroadcaster` (endpoint) |
| orchestrator, `orchestrator.py`, `result_aggregator.py` | subtasks and results of one run | execute, retry, vote | its caller's executor; no module imports it yet | `Orchestrator`, `FanOut` |
| broadcaster, `ws_broadcaster.py` | WebSocket connections, a lock, the metrics task | connect, disconnect, broadcast, stop | dashboards, lifespan | `WsBroadcaster` |
| authentication, `auth.py`, `server.py` | none; tokens are the clients' | issue, validate, refresh, admit | in front of everything | `FrontDoor` |
| skill router, `skill_router.py` | none | score, route | imported by none | not modelled (section 8) |
| audit logger, message parser, TLS, configuration, dashboard, scripts | - | - | - | not modelled (section 8) |

What makes this code hard:

* **Suspension.** A request runs without interruption from one `await` to the
  next and nothing holds a lock across awaits, so whatever a handler read
  before an await may be stale after it.
* **Two connections to one file.** The stores share their connections between
  all coroutines and SQLite's file lock between each other, commit in separate
  transactions, and never roll back.
* **Cancellation and crashes.** A client that leaves a stream cancels its
  handler at whichever await it is at; the process may stop at any of them.
* **Retries.** Three budgets in the Hermes client, one more in the stream, one
  in the notifier: they must add up, end, and repeat no more than they may.
* **Clocks.** Lazy refill in the limiter, a cooldown in the breaker, tokens
  stamped in whole seconds and compared with the exact time.
* **A lock held across awaits.** A broadcast keeps the broadcaster's lock while
  it sends, so one client that stops reading stops everybody that needs it.

What must hold: a client is told of a result only when it is in the file;
sessions precede the tasks that belong to them; no lock is left behind, and if
one is, no request waits for ever; retries are bounded and end in one verdict;
heartbeats lose no chunk; a window of time admits a burst plus the rate, and
a refusal loses no part of a token; a peer is down exactly from its threshold
on, and comes back; an orchestration returns one result for each subtask;
whoever stays connected hears every broadcast.

## 2. Modules

| module | models | abstracts |
|---|---|---|
| `TaskStates` | the tables of `task_state_machine.py`, and how GetTask reports a stored state | a state is a string |
| `SqliteLocks` | **external**: locks of one SQLite file as two `sqlite3` connections in legacy transaction mode see them | five states per connection |
| `TaskLedger` | *abstract*: the file as its clients know it, one table whose rows are added, canceled and removed, and the rows they were promised | |
| `Gateway` | handler, stores, task deletion, lifespan, crashes, abandoned streams; implements `TaskLedger` | a message is its id; Hermes' answer is that there was one |
| `GatewayProofs` | theorems about `Gateway` | |
| `BoundedRetry` | *abstract*: at most `MaxAttempts` attempts, one final verdict | |
| `HermesRetry`, `HermesRetryProofs` | `_request_with_retry` and `send_message`; implements `BoundedRetry` | an answer is its class; time in seconds |
| `StreamRelay`, `StreamRelayProofs` | `send_message_stream` and the heartbeat loop around it, concurrently; implements `BoundedRetry` | a chunk is its POST and position |
| `HermesClient` | a call of either kind: `HermesRetry` and `StreamRelay` side by side | |
| `RateLimiter` | `_TokenBucket`, `_get_bucket`, `dispatch` | floats are exact; a token is `TokenCost` units |
| `FrontDoor` | the limiter behind the authentication middlewares; issue and refresh of tokens | a JWT is its times; a credential is what the comparison tells apart |
| `RateLimiterProofs` | theorems about `RateLimiter` and `FrontDoor` | |
| `PeerManager`, `PeerManagerProofs` | breaker, relays, discovery, the peer admin routes | a card is "available" or "unreachable"; time in ticks |
| `PushNotifier`, `PushNotifierProofs` | webhook store, delivery, and when handlers call it | a webhook is an id and a URL |
| `FanOut` | *abstract*: each subtask gets one verdict, and the verdict on the whole follows | |
| `Orchestrator`, `OrchestratorProofs` | `execute` by either strategy, retries, `_finalize_status`, `_vote`; implements `FanOut` | an answer is a value; a subtask is its position |
| `WsBroadcaster`, `WsBroadcasterProofs` | the broadcaster, its clients and the metrics loop, under asyncio's fair lock | a message is its number |
| `MCGateway`, `MCHermesClient`, `MCPushNotifier`, `MCOrchestrator` | the small workloads, and the schedules of the code | |

`Gateway` EXTENDS `TaskStates` and `SqliteLocks`. The Hermes call is one await
in `Gateway` that may succeed or fail; what happens inside it is `HermesRetry`
for a send and `StreamRelay` for a stream, and both are shown to end with one
verdict, which is what `Gateway` assumes of them. `HermesClient` EXTENDS both: a
call is of either kind, they share the schedules and no state. In the same way its `push`
await stands for `PushNotifier`, which shows that a delivery ends. `FrontDoor`
EXTENDS `RateLimiter` and composes the two middlewares that decide whether a
request gets to a handler at all; every step of it is a step or a stutter of the
limiter, which is a theorem.

### Gateway

`pc[r]` names the await that request `r` is suspended at; an action completes
what was awaited and runs the handler up to its next await.

| `pc` | code |
|---|---|
| `lookup` -> `hermes` | `_get_session`, then the Hermes call |
| `saveSession`, `commitSession` | `SessionStore.save`: execute, commit |
| `getTask` | the row that cancel, delete and get read first |
| `saveTask`, `commitTask` | `SQLiteTaskStore.save` or `delete`: execute, commit |
| `push` | `deliver()`, then the answer |
| `count` | a stream's COMPLETED event is out; the counter moves if the client reads on |
| `answered`, `error`, `gone`, `lost` | the ends: answered, an exception, client left, process stopped |

`tasks` and `sessions` are the tables as the writing connection sees them,
`tasksDisk` and `sessionsDisk` what a restart finds, `txn` each connection's
transaction. A commit makes durable whatever *any* coroutine executed on the
connection. Two facts of the libraries matter, and both were tried out on
Python's own `sqlite3`: a cancelled aiosqlite call still executes its statement
in the connection's thread, and a write that fails on a lock leaves the
implicit BEGIN open. Assumptions: Hermes runs a turn in the session it is
given; any set of contexts may have expired by a restart (the length of the
downtime is not modelled); short read locks of a statement outside a
transaction are ignored; a statement may give up on a lock at any moment, and
`late`, a history variable, remembers that one gave up although the lock's owner
was about to commit, which takes a commit slower than the 5 s busy timeout;
`Seeds` are rows an earlier process or version left, in
states `SQLiteTaskStore.save` accepts.

### StreamRelay, HermesRetry, PushNotifier

In `StreamRelay` the generator runs only while a `__anext__` is pending
(`pulling`), concurrently with the loop, which waits at most 15 s for
`chunk_task`, then emits a heartbeat and waits for the *same* task. In
`HermesRetry` one action is one outcome of a POST. In `PushNotifier` a delivery
lists the webhooks once and goes through them one at a time, while clients
change the store between its awaits; a client can only name a task whose id it
can have seen. A stream tells its id first; a send's row, and with it the id, is
in the listings of the shared connection while `save` awaits its commit
(`SaveTask`).

### RateLimiter, FrontDoor, PeerManager

`Level(c)` is what `consume` would find; `OpenWindow` starts an observation at
any time and changes nothing in the program. `left[p]` is the time to
`down_until`, so that time may go on for ever in a finite model; an open relay,
check or sweep is a slot that holds what its coroutine remembers. In
`FrontDoor`, `Ask` is one request through both middlewares, neither of which
awaits anything before it passes the request on; `minted` holds the issued JWTs
and `turnedAway` counts, as history, the requests answered 401 since the
observation started.
`_make_auth_middleware` and `AuthMiddleware` are alternatives, chosen by `scheme`.

### Orchestrator

An action is one event of one `_run_subtask` (`Answered`, `Fails`, `Retry`,
`CallCancelled`) or of `execute` (`Refuse`, `Begin`, `Gather`, `Abandon`). The
sequential loop has no step of its own: a subtask's return lists its result and
starts the next one, as the code does between two awaits. `outcome[i]` is what
coroutine `i` returned, or ended in; under `gather` it reaches `results` only
with the last one. `runs`, a history variable, counts how often the peer did the
work, which a call that timed out may have done as well.

### WsBroadcaster

`pc` tells where a handler or a broadcaster is, `link` what the network does to
a client, `holder` and `queue` are asyncio's lock. What runs between two awaits
is one action: registering and removing hold the lock for no time, so only
broadcasters are ever `holder`. `Cancelled` is the CancelledError that
`stop_metrics_loop` sends to whatever the metrics loop awaits. The histories
`log`, `heard`, `joined` and `cut` number the broadcasts and say who got them.

## 3. Runs

States are distinct states. All runs check for deadlock, and the modules say
when the system may rest, except `ws_broadcaster`: once every client has left
and the metrics loop was stopped nothing need ever happen again, and its
liveness properties say more about who may wait.

| run | what it asks | bounds | states |
|---|---|---|---|
| `gateway` | Is what clients were told in the file, and do sessions, deletes and counters stay right, and is the file one table of rows as `TaskLedger` has it, whatever requests, lock time-outs, leaving clients and a crash do? Do later turns send the id their context was given? Is an abandoned stream the only way to lose a lock or an error count, and does every request end even so? | any 3 of: 1 send, 2 streams, 2 cancels and 2 deletes (of a stored task and of the send's), 1 get; 1 context, 1 restart | 908,188 |
| `hermes_client` | How often does one message run, how long does the client pause, is there one verdict? Does the client of a stream get what Hermes sent, and does every stream end? | the code's schedules; Retry-After 0, 1 or 60; 2 chunks | 32,417 |
| `front_door` | Does any window admit more than burst and rate; is a client served once the rate made up a token; how long does a JWT serve? | 2 clients, every path and credential, all 3 schemes; a token of 3 units, burst of 2, refill 2; 4 ticks of half a second, 2 JWTs, expiry 2, grace 1; 1 request turned away | 936,228 |
| `peer_manager` | Is a peer down exactly from the threshold, by how much do failures overshoot, does it come back, who may end a cooldown, how may a removed peer's card return? | 1 peer, 3 relays, 1 check, 1 sweep, threshold 3, cooldown 3 | 7,416 |
| `push_notifier` | Is every listed webhook settled, and the waiting request answered? | 1 send, 1 stream, 1 cancel, 2 webhook ids, 4 changes, 3 attempts | 194,840 |
| `orchestrator` | One result for each subtask, telling the same story; how often does a peer run it; does the majority win; does every plan end, and keep the contract of `FanOut`? | up to 3 subtasks, 0 to 2 peers, 2 retries, 2 answers, both strategies | 168,546 |
| `ws_broadcaster` | Is the lock never lost, the list right, does everybody who stays hear everything in order; is everybody served once clients read; does stopping wait for nobody? | 2 clients, 1 event, 2 rounds of metrics, 1 shutdown | 192,903 |

Why the bounds suffice. The hazards of `Gateway` take two parties on one
context, row or connection and a third in between, which is what `MaxRequests`
is; the two connections are all there are. Contexts share nothing but the lock, so one is enough. A second
crash finds nothing that the first did not. Rates that do not divide the token's
cost (2 and 3) exercise partial tokens. Three relays can all be open when the
threshold of three is reached, which is the largest overshoot; peers share no
breaker state, so one peer is enough. Deliveries share only the webhook store,
so one is enough, with more changes than it has webhooks. Three subtasks
are the fewest with a first, a middle and a last, and the fewest among which a
majority can stand against another answer; two retries are the code's default.
In `WsBroadcaster` two clients make a list with a first and a last; an event and
the metrics loop are two broadcasters that may queue behind each other, and the
second round lets the loop meet what its first one left behind.

The other runs each end in a counterexample to something the repository says
(design.md is `src/docs/superpowers/specs/2026-05-24-a2a-v1-gateway-design.md`,
plan `src/docs/plans/2026-05-25-next-development-plan.md`, phase-5 plan
`src/docs/superpowers/plans/2026-05-26-phase-5-advanced-features-plan.md`):

| run | the code | what is said |
|---|---|---|
| `gateway_shared_session` | `a2a_handler.py:149` looks the session up, awaits Hermes, then saves: overlapping first turns of a context run in sessions of their own | design.md:142, all tasks of a context share a session |
| `gateway_streamed_session` | `a2a_handler.py:220` leaves `new_session_id` None, so a first streamed turn saves a uuid4 of the gateway's (300-302) that Hermes never saw: the next turn does not run in the session of the first, though the two never overlap | design.md:142, the same |
| `gateway_orphaned_lock` | a stream abandoned between execute and commit leaves its connection's transaction open; writes of the other store fail, and sends that Hermes answered end in an error | README:132, send a message and get a task |
| `stream_repeats` | a read timeout in the middle of a body is retried from its start | `hermes_client.py:272`, mid-stream failures are not retried |
| `front_door_order` | the authentication, added last, runs first: what it answers 401 never reaches the limiter, so a client without credentials gets more answers than burst and rate | `server.py:258`, "before auth so unauthenticated requests are also limited" |

Disagreements that need no interleaving, or no model, to see, and have no run
(phase-6 plan is `src/docs/superpowers/plans/2026-05-27-phase-6-plan.md`):

* a message whose Hermes call fails leaves no task (design.md:299: `FAILED`);
* a running task has no row yet, so a cancel of it finds nothing (README:135);
* two overlapping cancels are both granted, and a cancel that read a row before
  a DELETE writes it back (`DeletesAreDurable` states this exception);
* cancel checks `is_terminal`, not `can_cancel` (comment, `a2a_handler.py:373`);
* GetTask reports a state it does not know, such as `input_required`, as
  completed;
* `/metrics` counts the sessions of the last start, not the active ones;
* no deadline spans the client's retries (plan:65 and design.md:300: 300 s), and
  a Retry-After is slept for however long it is (`PausesAreBounded` counts the
  longest that Hermes sends); `deliver` has no deadline either, and what the run
  bounds of it are the pauses, not the 10 s that each phase of a POST may take;
* a stream raises at the first 5xx (`exceptions.py:31`: after all retries);
* a 429 of the limiter always says "1s", whatever the rate;
* `deliver` is called "fire-and-forget" and awaited; webhooks are in memory
  (phase-5 plan:72: in SQLite);
* a stream never calls `deliver`, and a send draws its task id right before it
  saves the row and delivers: a webhook can be registered for it only by a
  client that reads the id from a listing while `save` awaits its commit
  (phase-5 plan:73: POST webhook on task completion);
* a check or sweep stores its result after the peer was removed
  (`admin_api.py:94`: clear cached discovery info); `UnaskedIsUnknown` states
  that this is the only way a removed peer's card comes back;
* `/admin/ws` is mounted as an HTTP `Route` (`server.py:393`), which never
  matches a WebSocket (phase-6 plan:34); `create_ws_routes` mounts it rightly,
  and is what `WsBroadcaster` models;
* no handler calls `broadcast_task_created` and its like;
* subtasks are dealt to peers round-robin (phase-6 plan:43: by skills);
* `_vote` reports any relative majority, ties included, as "Majority"
  (`MajorityWins` states what does hold);
* a plan without peers ends as failed with its subtasks still pending, and a
  cancelled call leaves a result without an id (`ResultsAgree`);
* metrics are sent "every interval seconds" unless a client stops reading.

## 4. Fairness

* `Gateway`: weak fairness of every request's `Step`. The event loop runs each
  coroutine whose await is over; the Hermes client, the notifier and SQLite's
  busy timeout bound every await. Nothing makes a client arrive or leave, or the
  process restart.
* `HermesRetry`, `PushNotifier`: httpx's timeouts end every POST, and sleeps end.
  Nothing makes anybody call the client.
* `StreamRelay`: the generator and the loop each go on while they can; a client
  that stays reads on. A heartbeat is not fair: it need never happen.
* `Orchestrator`: `wait_for` ends every call and `sleep` returns, so each
  subtask's coroutine goes on; `execute` resumes when `gather` is done. No call
  need succeed, and nobody need cancel.
* `WsBroadcaster`: the event loop runs every coroutine that can go on, and
  delivers a cancellation. No client need come, read or leave, and a send to a
  stalled client need not end: `WaitersAreServed` therefore assumes `Flowing`,
  that clients stop stalling from some time on, in its own statement, and
  `StopEnds` assumes nothing.
* `FrontDoor`: none; all its properties are about safety.
* `PeerManager`: only time passes. No relay need end or be made, so a peer comes
  back without anybody's help.

## 5. What is proved

All theorems hold for every value of the constants that satisfies the named
assumptions: any workload, any number of restarts, clients, relays and retries.

* **`GatewayProofs`** (from `RequestsAssumption`, `WorkloadAssumption`,
  `BoundsAssumption`, `FiniteAssumption`). `AnswersDurable` and `DurableSessions`. Neither is
  inductive. `IInv == TypeOK /\ TaskInv /\ SessionsAreSaved` adds which request
  waits where (`WaitsByKind`), that a connection without uncommitted changes
  agrees with the file (`CleanConnections`), that message rows are only ever
  "completed" so that no cancel gets past them (`MessageRows`,
  `CancelsNameSeeds`), and that between execute and commit the row is in the
  connection's view, afterwards in the file, or somebody deleted it
  (`RowsAreSaved`). The critical steps are a *foreign* commit, which must carry
  the row along, a delete between a save and its commit, and the restart, where
  view and file become one. Each lemma has one step per action.
  Every other safety property of `Gateway` follows
  from `IInv` and one more inductive fact: `LaterTurns` (`ToldSessions`: the
  session of an answered turn is in the file, unless it expired; `SidsHold`:
  every session id in a table or a local was given by a first turn of its
  context, and nobody that has begun a context changes the id),
  `TransitionsLegal` (`SeedRows`: while a cancel is writing, the row it writes
  is one that may be canceled, in the view and in the file), `DeletesDurable`
  (`DeletesHold`: a row that is there to be deleted has a message that is done
  writing it, so only a cancel that had read the row can bring it back),
  `CountsBacked` (`CountsHold`: the counter never exceeds the messages past
  their commit, an argument about cardinalities), `TransactionsOwned` (`Owned`: an open
  transaction has one committer) and `ErrorsCounted` (`FailuresHold`).
  `ImplementsLedger` is the refinement of `TaskLedger` by
  the file of tasks: `LedgerRows` says that where the connection's view differs
  from the file, the difference is an addition, a cancellation or a removal that
  the table allows, so a commit, whoever makes it and whoever's rows it carries,
  is one step of the table, and a crash is a stutter; `TellsLast` that nothing is
  told to a client after its result, so what was promised stays so.
  `TransitionsLegal` needs `SeedsAreTabled`, that the rows an earlier version
  left are in states the tables know; its statement says so. `TransactionsOwned`
  and `ErrorsCounted` speak of the runs that are not `late`; `StoresWork` is why:
  while every lock has an owner that is about to commit, giving up on one is late.
* **`HermesRetryProofs`** (`DelaysAssumption`). `PostsAccounted`: every POST but
  the one in flight is charged to exactly one counter, hence at most
  `1 + C + T + H` POSTs (9 with the code's schedules) and `1 + T + H` turns (6).
  `RefinesBoundedRetry`: initial states map to initial states of `BoundedRetry`,
  and steps to steps or stutters. `PausesBounded`: from `PausesAreSpent`, by which a
  pause is slept once, by the failure that asked for it; the code sleeps whatever
  a Retry-After says, so the bound has the longest one in it. That a sum
  grows with each pause is an induction (below).
* **`StreamRelayProofs`** (`BudgetsAssumption`, `SchedulesAssumption`). `IInv` adds to the types that
  every POST is charged to one budget (`Charged`), that a chunk read is relayed
  or held by `chunk_task` (`HandedOver`), and that the end of what was yielded
  is what this POST has carried so far (`EndOfWire`). From it `NothingIsLost`,
  `NoOrphanedRead`, `EndsWhole` and the safety half of the refinement.
  `OneCallAtATime`: `ClientSpec` is `Spec` of `HermesRetry` and `RelaySpec` side
  by side, so that the theorems about them hold of the client.
* **`RateLimiterProofs`** (`UnitsAssumption`, `TokensAssumption`).
  `WindowsBounded` is inductive with the types, because it charges what is left
  in the bucket against the bound; products are kept opaque and distributed by
  lemma. `ServedAgain` needs `Refilled`, that a bucket holds at least what the
  rate gave it since its client was last served. `DoorImplementsLimiter` carries
  both over to `FrontDoor`, where from `Stamped` (a token expires its lifetime
  after its birth, or less than a second earlier) `TokensLive` is proved.
* **`OrchestratorProofs`** (`EngineAssumption`). `IInv` says for every subtask
  how place, status and outcome agree (`Consistent`) and for every phase of
  `execute` what has been listed (`Phases`); the sequential loop is at the
  subtask after its results (`InSequence`), gather lists everything at once
  (`Delivered`). `Agreement`, `RunsAccounted`, `Sequenced`, and the whole
  refinement `RefinesFanOut`, since `FanOut` has no fairness. `MajorityPrevails`
  needs no more than the types of the results: `Vote` is the first of the
  `Leading` answers, and two answers cannot both have more than half.
* **`PushNotifierProofs`** (`RequestsAssumption`, `RetryAssumption`).
  `WebhooksAreTried`: `Underway` ties the position of a delivery to the outcomes
  it has, whatever happens to the store, so the end of the list and the last
  outcome come together. `PausesBounded`: `Paused` charges what was slept to the
  webhooks before the present one and to the failures of that one.
* **`PeerManagerProofs`** (`PeersAssumption`). `IInv` joins
  `DownAtThreshold` and `FailuresAreBounded`, which need each other: a relay only
  starts below the threshold, so the failures it may still add are bounded; and
  `UnaskedIsUnknown`, which says where a card may come from. `CooldownsServed`
  is an action property of the same invariant.
* **`WsBroadcasterProofs`** (`PartiesAssumption`). `LockOwned`, `NoGhostsEver` and
  `AllHear` are three parts of one inductive `IInv`; none stands alone. A
  broadcaster may remove a client only because `StaleAreGone` (it has seen it
  gone, and who has gone stays gone), and a message may be appended to what a
  client heard only because `NewsIsNew` (the lock orders the broadcasts, so all
  that came before is older). The critical steps are the end of a broadcast, with
  others waiting or not, and `Cancelled`, which gives up the lock or a place in
  the middle of the queue; there what was due becomes `cut`. `Omitted` says what
  `list.remove` and the dropped waiter leave of any list. `IterationIsSafe` is an
  action property of the same invariant.

Two of these rest on an induction over the naturals (what a recursive function
computes for every sequence: `Omitted`, `SumsExist`). The library's induction
theorems take an operator as parameter, which the provers cannot instantiate;
`SetInduction` is proved in its place from the well-foundedness of `<`, about a
*set* that has 0 and each successor, and is used with the set of the numbers for
which the claim holds.

## 6. What is only model-checked

* Every liveness property (`EveryRequestEnds`, `EveryStreamEnds`,
  `EveryRequestAnswers`, `EveryPlanEnds`, `DownPeersComeBack`, `WaitersAreServed`,
  `StopEnds`) and the fairness half of the two refinements of `BoundedRetry`: they
  are beyond the prover.
* That the violated claims of section 3 are violated: a counterexample needs no
  proof.

Every invariant and every action property that a passing run checks is also the
statement of a theorem. `TransitionsAreLegal` is proved and no run checks it any
more: which rows may change to which is what `IsTaskLedger` checks.

## 7. Plan

Written in this order, the most important behaviour first: `Gateway` with its
stores, `HermesRetry`, `StreamRelay`, `RateLimiter`, `PeerManager`,
`PushNotifier`, `Orchestrator` with `FanOut`, `FrontDoor`, `WsBroadcaster`;
proofs of each after its runs; then `TaskLedger` over `Gateway`. What would come
next is `Orchestrator` on top of `PeerManager`, once the code connects them.

## 8. Not modelled, and why

* ListTasks, task listing and `/metrics` read and change nothing; `Gateway` has
  the translation of states they share with GetTask.
* A body of a stream that ends without `[DONE]` counts as complete
  (`hermes_client.py:309`): the code cannot tell, and so neither can the model.
* Buckets are never evicted; the set of clients is a constant of the model.
* A dashboard's handler may also end by another exception than a disconnect (a
  binary frame) while its link is up: `Notice` has the disconnect only. The
  handler's `finally` is the same, and so is what the list and the lock see.
* Message parsing, prompt text, the agent card, logging: formatting.
* Signing and decoding of JWTs, RS256: a token that is forged or broken is no
  token. `server.py` does not install the JWT middleware; `FrontDoor` has it in
  the place of the static one, as its documentation proposes.
* `decompose` splits text, the simulated executor is for demonstrations, and
  `concatenate` and `summarize` format; `Orchestrator` has the rest.
* The broadcasts' contents; `_collect_metrics` reads.
* `config.py`, `models.py`, `tls_config.py`: records and ssl contexts built once
  at start-up. `audit_logger.py` and `skill_router.py` are imported by no other
  module; the first writes synchronously through Python's rotating handler, the
  second is a pure scoring function.
* The dashboard, scripts and deployment files: presentation and packaging.
