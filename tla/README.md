# Sleipnir in TLA+

A model of the execution gateway in `src/`: it consumes order intents from Kafka,
checks them, submits them to Binance, tracks them in memory and in SQLite, and
publishes the resulting fills to Kafka. Beside it the same process follows Muninn's
feature stream. TLC checks the modules on small
instances; TLAPS proves the theorems listed below for every value of the
constants. `PROJECT.json` lists the runs, the mutants, the source lines behind
every definition, the findings, the hazards and the theorems.

## 1. Inventory

| Component (source) | State | Operations | What is hard about it | What makes it correct |
|---|---|---|---|---|
| Gateway coordinator (`internal/gateway/gateway.go`) | the message in hand of each worker, contexts | intents worker, fills worker, `publishFillWithRetry`, `checkRiskLimits`, `Drain` | two goroutines on one tracker; cumulative offsets; failing publishes; cancellation between any two steps | stored before submitted, submitted once, fill published before the commit, bounded shutdown |
| Order tracker (`tracker.go`) | `orders`, `states` maps under one lock | `WithStore`, `AddOrder`, `UpdateOrderState`, `UpdateOrderStateAndQty`, reads | the store statement runs after the lock is released; errors are dropped | every active row is known in memory; memory and store agree |
| SQLite store (`store.go`) | the `orders` table | `SaveOrder`, `UpdateOrderState`, `RecordFillCosts`, `GetActiveOrders`, counts | fails once the context is cancelled, or on its own | rows survive a crash and are only updated, never brought about by an UPDATE |
| Boot reconciliation (`cmd/sleipnir/main.go`) | work list, the venue's answer | query, backfill, sync | failing query or publish, a crash in the middle | everything the store calls filled has been published |
| Binance connector (`internal/exchange`) | WebSocket connection | `SubmitOrder`, `GetOrderState`, user stream | answers lost after the order was accepted; reports lost while disconnected; one execution reported twice | identities of executions |
| Kafka wrappers (`internal/kafka`) | reader position | fetch, commit, publish | at-least-once, an error although the broker has the message | nothing acknowledged without a trace |
| Kill switch (`risk.go`) | `Halt.active` | set, clear, check | races with the worker | at most one order slips through |
| Risk policy, ID rule (`risk.go`) | limits per instrument, loaded at boot | `LoadRiskPolicy`, `NewLegacyRiskPolicy`, `CheckIntent`, `ValidateOrderID` | letter case, zero limits, missing prices | what reaches the venue is within what the operator wrote |
| Token bucket (`tracker.go`) | tokens, last refill | `Wait` | fractional refill, callers that wake early or late | the rate holds over every stretch of time; every waiter is served |
| Algo executor (`internal/algo`) | slice index, fills so far | `Execute` | deadline, shutdown or crash between two slices; some slices fail | what is reported is what was executed, never more than ordered |
| Exchange simulator (`internal/exchange/simulator.go`) | the orders it has seen | `SubmitOrder`, `GetOrderState` | it forgets everything at a restart | as the venue it replaces |
| Drain and teardown (`main.go`, `gateway.go`) | phase of the process | SIGTERM, drain, cancel, exit | drain looks at states set before publishing | ends; a clean drain leaves nothing |
| Feature feed (`internal/feed`) | backoff, decoder, latest value per feature | `Run`, `streamOnce`, `push`, `Record` | connections that break inside a frame; silent servers; cancellation anywhere | the latest value is one the server sent whole; waits grow and reset; it stops |
| HTTP API, config, telemetry, tracing, version, mocks | - | - | - | outside the trading path |

Interaction: `main` builds the store, preloads the tracker, reconciles it against
the venue and then starts the two workers and the stream goroutine. The intents
worker and the fills worker share the tracker, the store and the fills topic. The
stream goroutine feeds the fills worker through `fillChan`. The operator's HTTP
handler and the signal goroutine act on the switch and on the contexts. With
`ALGO_TYPE` set, the intents worker hands an order to the algo executor instead of the
connector, and gets one merged result back. The feed shares only the root context with
the rest.

## 2. Modules

| Module | Contents |
|---|---|
| `OrderStore` | order states, `mapBinanceStatus`, and the statements of the store as operators on a table |
| `Gateway` | the system: boot, intents worker, fills worker, stream, venue, operator, shutdown, crash and restart; its properties |
| `IntentLedger` | abstract specification of what the gateway promises to the producer of intents |
| `RiskPolicy` | the policy, its loading and `CheckIntent`, and the ID rule, as operators |
| `SizeLimits` | composes `Gateway` with `RiskPolicy`: which orders the worker refuses is what the policy computes |
| `GatewayClaims` | statements of the repository that the code does not keep |
| `TokenBucket` | the rate limiter, for any number of callers |
| `Submission` | composes limiter, algo executor, connector and the worker's handling of the result |
| `FeatureFeed` | the client of the feature stream |
| `MCGateway`, `MCSubmission` | instances for TLC |
| `GatewayTypeProofs` | theorems: types, control and offsets of the gateway |
| `GatewaySafetyProofs` | theorems: once per life, the switch, write-ahead, the tracker, the risk check |
| `GatewayFillsProofs` | theorems: the fills topic |
| `GatewayLedgerProofs` | theorems: daily caps, recorded intents, the refinement of `IntentLedger` |
| `SizeLimitsProofs` | theorem: the policy holds at the venue |
| `TokenBucketProofs`, `SubmissionProofs` | theorems: the limiter, and the submission loop with its slices |
| `FeatureFeedProofs` | theorems: backoff and decoder of the feed |

### How `Gateway` corresponds to the code

*Granularity.* A step is one access to the tracker's maps (atomic under
`OrderTracker.mu`), one store statement, one REST call, one publish attempt or one
offset commit. `AddOrder` and `UpdateOrderState` are two steps each, memory and
then store, as in the code. `ipc` and `fpc` are the places in the two worker loops:

| `ipc` | action | code |
|---|---|---|
| `fetch` | `FetchIntent`, `StopIntents` | `gateway.go:345-389` |
| `halt` | `CheckHalt` | `391-407` |
| `validate` | `ValidateIntent` | `409-446` |
| `risk`, `saveRejected` | `CheckRisk`, `SaveRejected` | `448-470`, `604-649` |
| `limit`, `savePending` | `LimiterWait`, `SavePending` | `472-485` |
| `submit`, `await` | `SubmitAccepted`, `SubmitRefused`, `SubmitReturns`, `SubmitTimesOut` | `487-518`, `binance.go:97-206` |
| `failed`, `storeFailed` | `MarkFailed`, `StoreFailed` | `519-533` |
| `accepted`, `storeAccepted` | `MarkSubmitted`, `StoreSubmitted` | `535-540` |
| `filled`, `storeFilled`, `costs`, `publish` | `MarkFilled` ... `PublishRestFill` | `542-583` |
| `commit` | `CommitOffset` | `585-591` and the commits of the refusals |

The fills worker goes `recv`, `store`, `costs`, `publish` (`262-337`). `phase` is the
process: `boot`, `reconcile` (`main.go:134-203`), `running`, `draining` (intake
context cancelled), `cancelled` (root context cancelled), `down`.

*Contexts.* `CtxAlive` is the root context. Once it is cancelled store statements
fail, no request is sent, and publishes and commits may fail or succeed. A fetch that
returns a message although the intake has just been cancelled is the same as one
that returned just before, because nothing else reads the position.

*Venue (external).* An order ID has a status, an executed quantity and the number of
orders accepted under it. `ReuseClosedIds` says whether the ID of a closed order may
be used again, as Binance allows; all runs use `TRUE`, the harder case. The venue may
refuse any request, execute any part at once or later, and cancel. A trade is
reported on the stream only while it is connected; `chan` is the socket and
`fillChan` as one FIFO. A report that is lost in a breaking socket is the same as a
trade after the break, because nobody sees the break before the goroutine does.

*Kafka (external).* Committing a message acknowledges all before it. A restart
resumes at the group offset. A failed publish may have reached the broker. The topic
is a set: repeating a publish changes nothing.

*Data.* Quantities are small naturals and the commission is one unit per unit
executed. A fill is identified by `<<order, path, key>>`, the three parts of its
`ExecutionID`; `upto` is not in the message and says which execution it stands for.
One trading day: every row counts for the daily caps. The venue's closing statuses include
ones `mapBinanceStatus` has no case for; they take its default branch. With "noTradeId" in `Env` a
report may come without a trade ID, and its key is then the quantity: the transaction time in
the ID is one millisecond that all trades share, the case that matters. Only `v_shared_id`
has the event, since it doubles the reports; the theorems hold with it too.

*History variables* `sent`, `haltSent`, `reported` are read by properties only. `reported` is
kept over restarts and says in which life of the process the answer came.

*Left out.* The algo branch of the submission (it is `Submission`); metrics and spans; a signal
that arrives before `gw.Start`; a closed `fillChan` (the Binance connector never closes it);
`CancelOrder`, which nothing calls; slippage; schema migrations.

### `TokenBucket` and `Submission`

*Units and time.* The bucket holds units, `Token` of them a token; a tick adds `Rate`, and
a second is `Second` ticks, so that `Rate * Second / Token` is `RATE_LIMIT_RPS` and
fractions of a token are whole numbers. There is no clock: `age` is the time since
`lastRefill` and `rest` what is left of a caller's `time.After`. Ticks do not wait for
goroutines, so every caller may be arbitrarily late; and the division in `WaitTime`
truncates as `time.Duration` does, so it may also be early. `debt` is a history variable:
of all windows that end now, the greatest excess of what was taken over what was refilled.
It is kept in one number, as for any maximum over suffixes: a take adds to all windows, a
tick takes its refill from all of them, and the empty window has excess 0.

| `spc` | action | code |
|---|---|---|
| `boot` | `Boot` | `main.go:134-203` with `simulator.go:168-184` |
| `fetch` | `FetchIntent`, `Stop` | `gateway.go:345-389`, `433-446` |
| `limit` | `TakeToken`, `AwaitToken`, `WaitCancelled` | `472-481`, `tracker.go:180-220` |
| `pending` | `AddPending` | `483-500`, `algo.go:66-84` |
| `slice` | `SkipSlice`, `SimulatorFills`, `SliceNotSent`, `SendSlice` | `algo.go:160-174`, the connectors' `SubmitOrder` |
| `call` | `SliceReturns`, `SliceUnanswered` | `algo.go:174-198` |
| `pause` | `PauseEnds`, `PauseCut` | `algo.go:150-158` |
| `failed` | `MarkRejected` | `gateway.go:519-533` |
| `done` | `MarkSubmitted` | `algo.go:200-221`, `gateway.go:502-518`, `535-563` |
| `publish`, `commit` | `PublishFill`, `CommitOffset` | `565-591` |
| any but `boot` | `StreamFill`, the fills worker | `262-337`, `binance.go:514-545` |

*Granularity.* The fills worker only ever touches the children, which have IDs of their own and
no row in the store, so it does not meet the intents worker on any order. Memory and store are
therefore one step, as are the tries of a publish and the handling of a report; `Gateway` has
the finer steps and the order of reports. The checks before the limiter other than the duplicate
check do not depend on the algo and are in `Gateway`.

*The venue.* `SendSlice` accepts a child and executes any part of it at once; the rest expires
or rests in `open` and trades later (`RestingTrade`), also while the process is down. Every
trade is reported to `chan` while there is a process, and from there published under the
child's ID, in addition to the merged fill of the intents worker. The simulator executes at
once and reports nothing, as `main.go` configures it.

*Quantities.* `Share` is what `algo.go` computes for a child, in units small enough for the
quotient to be exact (`SharesAreWhole`); the rounding errors of float64 are left out. What goes
to Binance is the nearest multiple of `Lot`, the 8th decimal (`ChildSizes`): a share may be
rounded up, or to nothing, which the venue refuses. `Weight` is `defaultVWAPProfile` times
`2 (n - 1)`, which the normalisation cancels. An ID is `<<p, 0>>` for the intent's and `<<p, i>>`
for the `i`-th child.

*Store faults.* With "store" in `Env` a statement may fail under a live context, as in
`Gateway`: the insert, the updates, and at boot the preload, the listing and single updates.

*History.* `placed` is what the venue has accepted of an order, `executed` what of it the
answers report, `published` what the merged fills have reported. `cut` and `lost` name the
orders to which an event has happened that the code takes no precaution against, `forgotten`
those whose row the store failed to save or to give back; the properties say what holds without
them.

*External.* The venue (any answer, or none), Kafka, time, the crash.

### `RiskPolicy` and `SizeLimits`

`Gateway` has the sets `Refused` and `BadIds`; its theorems hold for any. `SizeLimits`
defines them by the code of `risk.go` (`PolicyAssumption`, which TLC evaluates). An
instrument is a name and whether it is in upper case, which is all `strings.ToUpper` is
about. 0 stands for "no cap" as in the code, and an order without a price has no notional.
`LoadRiskPolicy` yields a set: of two keys that become equal, Go's map order decides.
An ID is its length and the classes of its characters. One policy is loaded per instance;
the file does not change between restarts. Go's map order may differ from boot to boot
(`main.go:208`), so with two keys that become equal a later life may hold the other one's
limits; `VenueOrdersWithinPolicy` allows the limits of either key, so it does not depend on which.

### `FeatureFeed`

A frame is a sequence of lines; the connection may break after any of them. A last line
that is cut off short is left out: the decoder is thrown away with the connection, so it
is no different from a line that did not arrive. Data that comes in several parts is well
formed if the parts of one event are complete and in order, which is what joining the
lines amounts to. Frames may be whole, split around their `event:` line, nameless, of
another event, malformed, empty, or a comment. `Lasts` may happen at any moment of an
attempt: the code measures from before the connection (`sse.go:125`). `streak` and `due` are
history variables: the attempts since the last one that lasted, and what the server got
through. One connection is alive at a time.

## 3. Runs

`Env` names the environment events of an instance, `MaxFaults`, `MaxRestarts` and
`MaxHalts` bound them, `PublishRetries` is the code's retry count (3 by default, 1 or 2
here).

| Run | Instance | Checks |
|---|---|---|
| `crash_restart` | orders o1, o2; topic o1 o2 o1; one crash; one failed publish, commit, query, submission or stream | `TypeOK`, `WriteAhead`, `SubmittedOncePerLife`, `ActiveOrdersKnown`, `CommittedIntentRecorded`, refinement `LedgerSpec` |
| `partial_fills` | o1 of two units, delivered twice; one crash; two faults of any kind, store statements included; two retries; cancellations | `AckedFillPublished`, `FillsAreBacked`, `StreamOrderKept` |
| `limits` | malformed, o1, invalid ID, o2, o3, o4 (two buys, two sells); daily cap three, one buy; switch set and cleared twice, a lost commit, two crashes | `HaltLetsAtMostOneThrough`, `DailyCapsHold` |
| `progress` | topic o1 o2 o1 with o2 refused by a risk.yaml in lower case; SIGTERM, a crash, one failed publish, submission or stream; fair | `WriteAhead`, `VenueOrdersWithinPolicy`, `EveryIntentCommitted`, `ShutdownCompletes`, `StreamFillsPublished` |
| `submission` | an empty order and one of 15 units in three slices; TWAP, VWAP and an unknown algorithm, on Binance and the simulator; deadline, shutdown, one lost answer, publish or commit; fair | `TypeOK`, `RateBound`, `EveryIntentHandled` |
| `sliced_order` | one order of 15 units in three slices, lots of 6; TWAP and VWAP, on Binance and the simulator; deadline, a crash, one failed store statement, answer or publish | `ReportedIsExecuted`, `NeverOverExecuted` |
| `feature_feed` | two features, four frames; delays from 10 to 75; fair | `TypeOK`, `LatestIsDelivered`, `BackoffIsExponential`, `StopsOnCancel` |

*Why the bounds are enough to be interesting.* Two orders and a repeated message give a
duplicate in the same life and after a restart, and a commit that passes an earlier message.
Two units give partial executions, so REST, stream and reconciliation can each report a part.
One crash can fall between any two steps and gives a second life in which an ID can be
reconciled, refused as a duplicate or, if it is closed, submitted again; `limits` has three
lives. There the buy cap refuses the second order and the total the fourth, as refused orders
count too, and two orders go out in all, enough to break the switch's promise. The retry bounds
are met exactly: `AckedFillPublished` is checked with as many faults as retries, and is
violated with one more (below); it is about the life that got the answer. `partial_fills` is
the passing run in which a store statement fails on its own; the write-ahead property does not
survive that (below). In `sliced_order` one does as well. `progress` is the run with a
cancelled root context, under which every store statement fails: `WriteAhead` is checked there
as well. `CommittedIntentRecorded` is checked without SIGTERM: under a cancelled context the
store statement fails while the commit may still succeed. In `EveryIntentCommitted` a process
that is down with no restart left is excused, which is the bound and not the code.

In `submission` the rate is 1.5 per second (`Rate` 1, `Second` 3, `Token` 2), so the
bucket holds one token and a half, the second order has to wait, and fractions are left
over. Three slices are the least for which VWAP's differ (6, 3, 6 of 15) and for which an
event can fall between two of them twice. `Duration` and `SubmitTimeout` are equal, so the
deadline may fall before, between or after the slices, depending on how late the worker is.
The lot of 8 rounds TWAP's 5 up and VWAP's 3 down to nothing. `sliced_order` leaves the limiter
out of the way (a token per tick) and has lots of 6, so that TWAP places 18 of 15 units, a slice
of 3 may go either way, and a child is executed in full or rests. The excuses of its
properties are all needed: without the half lot per slice, or without `forgotten`, TLC finds a
counterexample.

In `feature_feed`, 10, 20, 40, 75 is a doubling series that meets its cap at `MaxStreak`,
where the history counter may stop; four frames let a broken one be followed by any other
and by a whole one.

*Fairness.* `Gateway`'s `FairSpec` assumes weak fairness of boot, of each worker and of the
shutdown sequence: the Go runtime runs every goroutine that can run, and every call
returns (`reconcileCtx`, the HTTP client's and Kafka's timeouts, the drain deadline).
Nothing is assumed of the venue, the operator, faults or crashes; their number is
bounded. `Submission` assumes the same of its worker, and that time passes. `FeedSpec`
assumes it of `Run`'s goroutine and that a cancelled context ends its request; nothing is
assumed of the server, which may be silent for ever (the HTTP client has no timeout).

*Deadlock* is checked in all runs; `Idle` and `Quiet` mark the states in which the gateway
and the feed rightly have nothing to do. `Submission` always has a tick.

### Abstract specification

`IntentLedger` knows only which IDs are durably recorded, what was sent in this life,
and the offset. It records, submits what is recorded and not yet sent, acknowledges
only recorded intents, and starts new lives. `LedgerSpec` maps `recorded` to the rows
of the store and `offset` to the group offset; the crash run checks that every step of
the gateway is a step of the ledger or a stutter.

## 4. Findings

Statements of the repository that the code does not keep, each with a run that ends
in a counterexample. `PROJECT.json` quotes the statement.

| Run | What happens |
|---|---|
| `v_publish_given_up` | a publish is given up; the next intent's commit acknowledges this one, so it is not redelivered |
| `v_crash_before_publish` | crash after a stream fill is stored and before it is published: never published |
| `v_order_never_sent` | crash between PENDING and the submission: the redelivered intent is a duplicate |
| `v_lost_update` | the workers' memory and store writes interleave: tracker and store disagree for good |
| `v_shared_id` | two executions have one ID: two boots each find one more unit executed, or two equal trades in one millisecond come without a trade ID |

The model also shows the following, read off its definitions or found by TLC while it
was written; they have no run of their own.

- A partial execution in the REST answer makes the order FILLED (`gateway.go:554`);
  ADR-0004 (lines 45-47): "a `PARTIALLY_FILLED` event keeps the order active instead of
  collapsing into a single terminal `FILLED`".
- A crash after the REST answer has made the order FILLED and before its fill is published
  (`gateway.go:554-571`): the row is terminal, so it is neither preloaded nor reconciled; the
  redelivered intent is submitted again and, accepted or refused, committed. `gateway.go:565-566`
  wants "the fill is on the broker BEFORE we commit the intent offset"; that holds within a life
  (`AckedFillPublished`) and not over a crash.
- One execution that both the REST answer and the stream report is published under
  two IDs (`binance.go:197`, `binance.go:524`); ADR-0004 (lines 18-19) wants "a per-fill
  identity that is identical no matter which path produced it", and `gateway.go:543` counts on
  it: "Fills received via WebSocket will be deduplicated downstream".
- `CheckIntent` takes a zero default for "no cap" (`risk.go:121`), so an instrument that
  risk.yaml does not list is submitted unchecked; ADR-0005 (line 29): "In the YAML path, a zero
  `default_max_qty` means **deny unknown instruments**".
- A backfill whose publish fails is synced all the same (`main.go:199`), so no later boot
  sees it; it refutes `RestartsSelfHeal` as well.
- In the interleaving of `v_lost_update` the SUBMITTED transition also writes a
  quantity it looked up before the fill was stored (`tracker.go:88`), against
  `tracker.go:77-78`, "don't blow away the old".
- While halted, an intent with an invalid ID is added to the tracker (`gateway.go:400`),
  which `gateway.go:424-425` rules out.
- `Drain` can return 0 with a fill in a worker's hands (`gateway.go:206`), because states
  are set before fills are published; `gateway.go:185-189` calls 0 "a fully clean drain".
- The second partial fill's commission replaces the first one's (`store.go:257`);
  `gateway.go:312-313` wants "realized transaction costs per order".
- If the store fails between the daily count and `SaveOrder` (`tracker.go:51`), the order
  goes out unrecorded; ADR-0003 (lines 64-65): "an unreachable store stops trading rather
  than trading blind".

With an algorithm configured (README.md:46 and ROADMAP.md:63 say there is none):

- The merged fill has the last slice's order ID (`gateway.go:507`); CONTRACTS.md:61 on the
  `order_id` of a fill: "Echoes the inbound intent's `order_id`."
- The FILLED transition and the costs go to the last slice's ID (`gateway.go:554`), which
  has no row, and the commission is the last slice's alone. The parent stays SUBMITTED for
  good, is reconciled at every boot, and `Drain` never counts it as done.
- A deadline or a shutdown between two slices makes `Execute` return an error
  (`algo.go:155`); the order is REJECTED and its executed slices are not reported. This is
  `cut` in `ReportedIsExecuted`. As a REJECTED row is not preloaded, an intent that is
  delivered again after a restart is executed from the first slice: hence `cut` in
  `NeverOverExecuted`.
- If the store fails to save the order (`tracker.go:51`) or to list it at boot, a crash and a
  redelivery execute it again in the same way: `forgotten` in `NeverOverExecuted`.
- Each slice is rounded on its own (`binance.go:115`): 0.2 in three slices is 0.20000001.
- With Binance the stream's reports of the slices are published too, so that a consumer gets the
  sum and the parts, under different order IDs and execution IDs.
- A crash between two slices leaves the executed ones unreported, since reconciliation asks
  for the parent's ID, which the venue has never seen.
- If every slice fails, or the order is empty, `Execute` returns no error: the order is
  SUBMITTED and committed though the venue has nothing (`algo.go:221`).
- Slices do not pass the limiter (`gateway.go:474` is once per parent); ADR-0002 (lines
  17-18): "One token equals one permitted submission." `RateBound` is about tokens.
- VWAP with one slice divides zero by zero (`algo.go:230`), and NaN passes `childQty <= 0`.

Elsewhere:

- A rate below one per second caps the bucket below one token (`tracker.go:198-203`): `Wait`
  never returns. `EveryIntentHandled` needs `Capacity >= Token`.
- A restart comes with a full bucket: `RateBound` is about one life of the process.
- The feed's backoff is reset by an attempt that lasted 30 s without ever connecting
  (`sse.go:125`); the comment at `sse.go:104-105` speaks of "a connection that stayed up".

## 5. Proofs

Every invariant and every action property that a passing run checks is also a theorem, for
every topic, set of orders, cap, retry count, set of environment events and bound that
satisfy the assumptions of `Gateway` (`OrdersAssumption`, `LogAssumption`,
`BoundsAssumption`), for every policy, rate, token size, number of slices, configuration
and fault bound that satisfies those of `SizeLimits`, `TokenBucket` and `Submission`, and
for all delays that satisfy that of `FeatureFeed`.

Two hypotheses on the constant `Env` occur. `StoreReliable`: no store statement fails on its
own; all still fail under a cancelled context. `NoShutdown`: no SIGTERM, so the context is
never cancelled; crashes remain. A theorem without them holds with any faults.

| Theorem | Statement | Hypotheses |
|---|---|---|
| `TypeCorrect` | `Spec => []TypeOK` in `Gateway` | |
| `AtMostOneSubmission` | `Spec => []SubmittedOncePerLife` | |
| `HaltHolds` | `Spec => []HaltLetsAtMostOneThrough` | |
| `StoredBeforeSubmitted` | `Spec => []WriteAhead` | `StoreReliable` |
| `ActiveOrdersAreKnown` | `Spec => []ActiveOrdersKnown` | `StoreReliable` |
| `PublishedFillsAreBacked` | `Spec => []FillsAreBacked` | |
| `StreamOrderIsKept` | `Spec => StreamOrderKept`, an action property | |
| `AckedFillsArePublished` | `Spec => [](faults <= PublishRetries => AckedFillPublished)` | |
| `CapsHold` | `Spec => []DailyCapsHold` | `StoreReliable` |
| `CommittedIntentsAreRecorded` | `Spec => []CommittedIntentRecorded` | both |
| `GatewayImplementsLedger` | `Spec => LedgerSpec`, a refinement | both |
| `VenueOrdersAreWithinPolicy` | `Spec => []VenueOrdersWithinPolicy` | |
| `LimiterKeepsRate` | `BucketSpec => []RateBound`, for any set of callers | |
| `SubmissionUsesBucket` | `Spec => BucketSpec`: the loop implements the token bucket | |
| `SubmissionKeepsRate` | `Spec => []RateBound` in `Submission` | |
| `SubmissionTypeCorrect` | `Spec => []TypeOK` in `Submission` | |
| `ReportsAreExact` | `Spec => []ReportedIsExecuted` | |
| `OrdersAreNotOverExecuted` | `Spec => []NeverOverExecuted` | |
| `FeedTypeCorrect` | `FeedSpec => []TypeOK` in `FeatureFeed` | |
| `StoreHasWhatWasDelivered` | `FeedSpec => []LatestIsDelivered` | |
| `WaitsAreExponential` | `FeedSpec => []BackoffIsExponential` | |

The hypotheses are those under which the statements are true. A `SaveOrder` that fails on its
own leaves an order at the venue without a row: write-ahead, the tracker's knowledge after a
restart, the count behind the caps and the ledger all fall with it. Under a cancelled context
the store statement fails while the commit may still succeed, which is why the ledger needs
`NoShutdown` as well. `AckedFillsArePublished` has the code's retry count as its bound, and
`v_publish_given_up` is the counterexample with one failure more. What was reported in an earlier
life is outside it: losing it takes a crash and no failed call at all (section 4). The two
theorems about slices have no hypothesis on `Env`; the orders they except are named in the
properties.

### The gateway's inductive invariants

*Types* (`TypeInv`) need `Control`: a busy intents worker has the order of the message
it fetched last, a backfill's delta is positive, and the states on their way into the
tracker are real ones. Without it, `rec.exec - rec.prev` need not be a natural number
and an entry of `states` need not be a state. `OffsetInv` says that the offset is not ahead
of the position, and behind it while a message is in hand.

*At most one submission* is not inductive: a second submission is excluded by the
tracker, not by the counter. `OnceInv` adds that a submitted ID has an entry until
memory is lost, and that the order between the duplicate check and the submission has
not been submitted. The fills worker and reconciliation only ever set entries to real
states. For the switch, an order past the halt check still has the one submission
that the switch may let through.

*Write-ahead* (`RowInv`) adds that at `submit` under a live context the order in hand
has its row, and that rows are never removed. *Active orders are known* needs that
whoever is about to write a row has made the tracker's entry first; that is what the
order memory-then-store in `AddOrder` is worth.

*The policy* (`PassInv`): the order in hand past the risk check is one the check has not
refused, and the venue has no other orders. `LoadedLimitsAreWritten` is about the operators:
under whichever policy `LoadRiskPolicy` yields, the limits of an instrument are limits of
some key of the file that becomes equal to it in upper case, or the defaults.

*The daily caps* (`CapInv`) are about two sets that only meet through a count: the rows that
`checkRiskLimits` counts and the orders the venue has. Every order at the venue has a row, so
the rows are at least as many, and an order that passes the check adds at most one to what the
venue has. Until it is sent it is counted as admitted, since no other order can pass meanwhile.
The lemmas on cardinality come from `FiniteSetTheorems`.

*The fills topic.* `FillsAreBacked` says something of the topic, but what gets there was in
somebody's hands for several steps. `SoundInv` says it of the whole way: of the channel, the
fill in the fills worker's hands, the answer in the intents worker's and the one in the
reconciliation's, that each stands for units the venue has executed by now. As the venue
never takes an execution back (`Grows`), a sound fill stays sound. `OrderInv` does the same
for the order of the stream: topic, then fill in hand, then channel, front to back; a retried
publish is the one fill that may be in hand and on the topic. `StreamOrderKept` is an
action property; it follows from `OrderInv`, since a fill that gets to the topic was in hand.

*Acknowledged means published* (`AckInv`): a fill the venue has reported in this life is on
the topic, or in hand on its way to the publish, or its publish was cut short by the
cancelled context, and then the offset stays behind it for the rest of this life. The retry
counter never exceeds the number of faults, so that the worker has not given up as long as
`faults <= PublishRetries`.

*Recorded* (`RecordInv`): an intent may be acknowledged because it is a duplicate, so the
property hangs on what makes the tracker know an ID: preload, reconciliation, the stream, or
the worker itself. All four are about orders with a row, or the row is the worker's next write;
for the stream this goes back to what is in the channel and what the venue has.

*The refinement.* `recorded` is `Rows(db)` and `offset` is `committed`. The two inserts map to
`Record`, `SubmitAccepted` and `SubmitRefused` to `Submit` (enabled by `RowInv` and `OnceInv`),
`CommitOffset` to `Acknowledge` (enabled by `RecordInv`), `Crash` and `Exit` to a new life,
everything else to a stutter.

### The submission loop

*The rate* needs `Conserved`: `debt + Refilled <= Capacity`. What was taken beyond the
refill of any window, and what could be taken now, make up at most one full bucket; the cap
on the refill is what keeps a long idle time from adding to it. The sum is in linear
arithmetic, with `Rate * age` as its only product. The loop inherits the bound through the
refinement: each of its steps is a step of the bucket or leaves it alone, so the proof does
not look at slices, deadlines or crashes beyond that.

*Reports are exact* (`Accounts`): what the merged fills have reported of an order and what the
worker has in hand of it, the answer on its way included, is at most what was executed at once,
and equal to it unless the order is `cut` or `lost`. A result that is dropped belongs to an
order that is `cut`, or is empty.

*Never over-executed* has two parts. That an order is placed in one pass only: `Begun` says
an order of which anything is placed, and which is not `Excused` (cut or forgotten), is active in
the store and in the tracker, so that neither a redelivery nor a restart starts it again. And
that a pass stays within the order: `InProportion` says that after the slices so far what is placed
is within the share of their weights and half a lot for each of them. A slice is its exact
share (`ExactQuotient`) rounded to the nearest lot (`SizeWithinHalfALot`); at the last slice the
shares are the order. `WeightUpTo`, the sum of the weights, is a recursive function, and there
is no induction rule to be had from the prover; its equations for every index are derived from a
least counterexample instead (`Least`). The stream does not enter the argument: its steps leave
the worker's state and the parents' rows alone.

### The feed

*Backoff*: the current delay is the base doubled once per attempt since one that lasted, or
the cap. The closed form uses the recursive function `TwoTo` in place of `2^n`, of which the
prover knows nothing for a variable `n`; that it grows and doubles is proved as for
`WeightUpTo`.

*Decoder* (`Decoding`): between two lines the decoder is in one of the states that belong to
what is left of the frame (`Within`, 18 points in all, one for each place in each kind of
frame), and between two frames it is new; a disconnected feed has no lines to come. So the
blank line of a well-formed feature frame always meets a decoder with exactly that
frame's data, and no other line ever delivers anything.

The inductive invariants were checked with TLC on the runs' instances before they were proved.

### Only model-checked

The liveness properties `EveryIntentCommitted`, `ShutdownCompletes`, `StreamFillsPublished`,
`EveryIntentHandled` and `StopsOnCancel`: fairness and `ENABLED` are out of the prover's
reach. The counterexamples of section 4 are TLC's.

## 6. Plan

1. Done: the core; the rate limiter, the algo path, the simulator, the risk policy and the
   feed, composed with the workers that use them.
2. Done: theorems for every invariant, every action property and both refinements.
3. Next: an abstract specification of the fills topic (each execution named once) and the part
   of it that the stream alone refines; a theorem that the submission loop with one slice and
   no algorithm takes the steps of `Gateway`'s submission; the safety half of the liveness
   properties (what a step towards the goal never undoes).

### Not modelled

Configuration (read once; its values are the constants), telemetry, tracing and version
(nothing reads them back), the mock producers and consumers, request signing and JSON
parsing of the Binance connector, schema migrations, authentication of the HTTP API, the
simulator's latency and stream knobs (`main.go` leaves them off), the active-orders
gauge, and a second trading day.
