# A TLA+ model of mm-ibkr-mcp

mm-ibkr-mcp is an MCP server through which a language model trades at
Interactive Brokers.  A human stands in between: he approves orders on Telegram,
and a file, `control.json`, says whether orders are real at all.  This directory
models the parts whose job is to make that safe, checks the models with TLC on
small instances and proves their central properties with TLAPS.

## 1. The system

| Component | State | Operations | Correct when |
|---|---|---|---|
| Approval store, `mcp_server/telegram/approval.py` | table `approvals`: status, request, two time stamps | create, read (with a sweep of stale rows), resolve, consume | an approval is used once, by what was approved, before it runs out, and not after a denial |
| Telegram bot, `telegram/bot.py` | messages with buttons; presses not yet handled | send a request, handle a press | a verdict reaches the record it is about, once |
| Approval tools, `mcp_server/main.py` | the call's own variables across awaits | request, poll, check; validate and consume; switch environment | no action without an approval in telegram mode; the safety lock is on before the environment changes |
| Trade intents, `trade_core/` | tables `trade_intent`, `intent_order`, `execution_state` | create, request approval, submit, reconcile, cancel | one order per row at most; rows and intent tell what the broker knows |
| Orders, `ibkr_core/orders.py` | registry of trades and client order ids, in memory | validate, preview, place, cancel, status, brackets, sets | a retry returns the order there is; a bracket is placed whole |
| Broker session, `mcp_server/services.py`, `ibkr_core/client.py` | the client behind an asyncio lock; one worker thread | connect, run with a timeout, invalidate, shut down | every call comes to an end; the connection is the configured one |
| Trading control, `ibkr_core/control.py` | `control.json`, `control.log` | load, write, ensure | disabled trading stays disabled |
| Configuration, `ibkr_core/config.py`, `runtime_config.py` | `config.json`; cached `_config` and its signature | get, reset, update | the cache is what the files say |
| Control tools, `mcp_server/main.py` | none of their own | `emergency_stop`, `admin_update_trading_control`, `execute_environment_change` | once they have returned, no order goes out |
| Market data, account, contracts, `ibkr_core/` | subscriptions, a cache of contracts, the timeout of `IB` | quotes, bars, streams, summary, P&L, resolve | subscriptions and timeouts are given back |
| Order rules: validation, profiles, risk, run window | none | pure functions | they agree with their definition |
| Audit database, notifications, schema, logging, scripts | append-only tables; none | | nothing above depends on them |

The components meet in four places.  Tools are coroutines of one event loop and
share it with the bot's callback: between two awaits nothing else runs, at every
await anything may.  Their broker calls run on one worker thread, one at a time,
in front of which they queue on the lock of `get_client`.  Loop and worker share
the cached configuration and the files without a lock.  And what outlives a
process (the SQLite database, the two JSON files and the orders at the broker) is
shared with the process that comes after it and, as every client of the stdio
transport starts a server of its own, with others beside it.

What is hard about it: the operator may press a button at any time and more than
once; an approval is checked in one place and spent in another; a broker call
that was given up is executed all the same; a row is written after the order was
placed; the registry keeps trades that no connection brings up to date any more;
`control.json` is replaced by an unlink and a rename; the signature of the cached
configuration is taken after the load it describes; the process may die anywhere.
`PROJECT.json` lists these hazards, each at its line, with the properties that
watch it.

## 2. The modules

| Module | What it is |
|---|---|
| `ApprovalLedger` | the promise of the approval store: grants put a token on the table, uses take it away |
| `Approval` | store, bot and approval tools, on any number of servers; refines `ApprovalLedger` |
| `OrderLedger` | the promise of `place_order` to whoever retries it: one order for a client order id |
| `TradeIntent` | one intent, the tools that work on it, the worker thread, the registry and the orders at the broker; refines `OrderLedger` |
| `TradingControl` | `control.json`, the cached configuration and the tools that write, by single file operations, on two threads of each process |
| `Session` | the client, its lock, the worker thread and its jobs, and the connections to the gateways |
| `Orders` | the order functions as the worker runs them: brackets leg by leg, retries, order sets, the registry, and IB between any two calls; refines `OrderLedger` |
| `EmergencyStop` | the tool `emergency_stop`, composed with the worker and the orders of `Orders` |
| `MarketData` | quotes, bars, streams, options, positions and P&L: calls inside calls, and what each takes and gives back |
| `PreTrade` | validation, building, preview, profile, impact and run window, as operators |
| `MC*` | instances for TLC |
| `*Proofs` | theorems and their proofs, for each of the modules but the two ledgers and the instances |

### Approval

A coroutine between two awaits is a *section*: `pc[c]` tells that call `c` is in
one (`fetching`, `validated`, `locking`, `switching`), and `Free(s)` keeps the other
coroutines of server `s` out.  The SQLite transactions inside a section are still
separate steps, because another server or a crash may come between them.

| Action | Code |
|---|---|
| `RequestApproval`, `SendDone`, `WaitPoll` | the three request tools: insert, await the message, `_wait_for_approval_resolution` |
| `ClientCancels` | the MCP client cancels a request tool at one of its awaits |
| `RequestAutoApproval`, `FetchResolved` | the same tools in yolo mode (`create_resolved_approval`) |
| `CheckApprovalStatus` | `check_approval_status`, and a validation that fails: both sweep |
| `Tap`, `DropTap`, `HandleTap` | a press; `_on_callback` when `query.answer()` fails and when it does not |
| `ValidateApproval`, `MarkUsed`, `ExecuteDone`, `ExecuteUngated` | `_validate_approval` with its three ways to find a record, `mark_used`, the broker call of `place_order` and `submit_trade_intent` |
| `EnvBegin`, `EnvSwitch`, `EnvConsume`, `EnvDone` | `execute_environment_change`: control.json, config.json, the approval, the client |
| `AdminUnlock` | `admin_update_trading_control` enables orders |
| `Tick`, `Restart` | time; the death of a server at any step |

Times are kept as ages, which the code only compares with limits: they saturate
one past the limit.  `grants`, `uses` and `verdict` are history.

### TradeIntent

`row`, `orderId`, `approval` and `intent` are the tables; `queue` and `op` the calls
that wait for the client and the one the worker runs; `registry[r]` the status in
the registry's `Trade`; `broker[r]` the order at IB.  `Submit`, `Reconcile` and
`Cancel` run a tool up to its first await, `Continue` hands in the call for the
next row of the snapshot the tool took, the `Place*`, `Status*` and `Cancel*`
actions are the paths through `place_order`, `get_order_status` and
`cancel_order`, and `Answer` writes the row from the result, as the tool that
awaits it does.  `Timeout` is `asyncio.wait_for` giving up: the tool records a
failure and goes on, the worker does not notice.  `ClientCancels` is the MCP client
cancelling the tool: it records nothing more, and its call is withdrawn or goes on
for nobody.  `Restart` clears the loop, the worker and the registry, and nothing else.

Three things of the code shape this module.  `_client_matches_config` compares
the fields of the configuration in a different order from the one they come in,
so every call reconnects and a registered `Trade` is brought up to date only while
the call that placed it runs.  `_normalize_order_status` knows no
`PENDING_CANCEL` and makes it `FAILED`.  And `_create_client` adds the process id to
the client id, so whether IB shows a process the orders of its predecessor is not
certain: `KeepsClientId` is that assumption.

Left out: quantities and statistics, the account summary and position snapshot
at the end of `reconcile_trade_intent` (two more calls, whose results are not read
back), the status `SUBMITTING`, which `update_trade_intent_status` replaces by the
aggregate at once, and brackets, MOC and OPG orders, which `Orders` has.  IB's `Inactive` counts as cancelled, as in
`_map_ibkr_status_to_model` and `cancel_order`.

### TradingControl

Each process has a `loop` and a `worker` thread.  `CheckExists`, `Unlink` and `Rename`
are `write_control`; `Sign`, `Compare`, `Ensure`, `Load`, `Store`, `Resign` and
`Result` are `get_config`; `Read`, `Decide`, `DecideNothing`, `AuditFails`, `Reset` and
`Switch` are the tools.  Of the settings only whether orders are real is kept:
`orders_enabled` and not `dry_run`.  A file that is replaced gets a time stamp
that no signature in memory holds; since only that matters, four stamps stand
for all.  `SeesControl` says that `config.json` names the directory of
`control.json`, which `MM_IBKR_CONTROL_DIR` may override for the load and not for
the signature.

### Session

`pc[c]` says where call `c` of the service is, `kind[c]` which function it runs:
`run_with_client` (`operate`), `get_client` alone (`get`, the first half of
`ibkr_health`) or `invalidate_client` (`drop`).  `owner` and `waiters` are the
asyncio lock, `client` the field `_client`, `running` and `waiting` the executor,
`open` the clients that have a connection.

| Action | Code |
|---|---|
| `Begin`, `Acquire`, `DropNothing` | a call asks for the lock; it gets the lock and submits a disconnect if there is a client and a connect if not |
| `Disconnected`, `Connected` | the disconnect has ended: connect, or return; the connect has ended: return the client, or submit the operation in the same step |
| `ConnectFails`, `OperationEnds`, `ConfigFails` | an exception of the job or `wait_for` giving up; `get_config` raises |
| `Cancel` | the MCP client cancels the request, at any await |
| `TakeJob`, `Disconnect`, `Operate` | the worker takes a job and ends it |
| `Connect`, `Handshake`, `HandshakeFails`, `AskTime` | `IBKRClient.connect`: reads the field, connects, then asks for the time, which may fail with the connection open |
| `ChangeEnvironment` | `config.json` names another gateway, by a tool or by hand |

A job that is given up is withdrawn while it waits and goes on for nobody once it
runs (`Withdraw`).  The branch of `get_client` that keeps a connected client is
not modelled, because `_client_matches_config` never finds a match: a client that
is there is disconnected first.  A connection that the gateway drops is not
modelled either, because with that branch dead nothing looks at it: disconnect
skips what is closed, and an operation that meets it connects the same client again within
its job (`ensure_connected`, client.py:216), which is part of what `Operate` stands for.
`Clients` are objects; one that is neither the field's, nor a job's, nor connected
stands for a new one.  `OperationsDoNotWait` is why `TradeIntent` can do with one
operation in the worker.

### Orders

`job` is what the worker does and how far it is; `book` the orders at IB, one for
each request, role (entry, take profit, stop loss) and attempt; `shown` those that
IB shows to this client id; `key`, `seen` and `latest` the `OrderRegistry`.  Between
any two steps of a job IB may fill, cancel or reject an order (`Fill`, `End`), and
discard the untransmitted ones of a connection that is gone (`Discard`).

| Action | Code |
|---|---|
| `PlaceBegins` | `place_order` up to the first order: the checks have passed and nothing by this clientOrderId was found |
| `PlaceSimple`, `PlaceDone` | the placement of a single order, its registration, the answer |
| `PlaceEntry`, `PlaceTakeProfit`, `PlaceStopLoss`, `BracketDone` | `_place_bracket_order`, one leg at a time |
| `CancelBegins`, `CancelMissing`, `CancelNothing`, `CancelRequest`, `CancelOutcome`, `CancelDone` | `cancel_order_set` and the `cancel_order` of each of its orders |
| `JobFails`, `LoseClient` | the job breaks off; the service drops its client under it |
| `RestartOrders`, `SetControl` | a new process; control.json |

Every job begins with a connection of its own, so a registered `Trade` tells what was
known when its job ended.  Three things follow, none of which the properties
contradict.  Cancelling a registered order of an earlier job ends with REJECTED even
when IB cancels it, because the stale `Trade` does not change.  A retry of a bracket
answers with the id of its stop loss, which was registered last under the common
orderRef, though models.py:452 says that orderId is the entry's; and when the first
attempt broke off after the entry, it answers ACCEPTED for that entry, which will never
be transmitted.  MOC and OPG orders carry no orderRef: a retry after a restart
duplicates them, and `HasRef` excepts them from `NoDuplicateOrder`.

### EmergencyStop

It extends `Orders`.  `pc` is where the tool is, `ahead` the number of calls that the
worker takes before it, `listed` and `errors` its variables, `quiet` history.

| Action | Code |
|---|---|
| `StopCalled`, `List`, `AskFails` | the tool is called; `get_open_orders`, and its failure |
| `BeginCancel`, `Cancelled`, `GiveUp` | `core_cancel_order_set` as a job of the worker, its end, and `wait_for` giving up |
| `Disable`, `DisableFails`, `DisabledAlready` | control.json, control.log and `reset_config` in one section |
| `Drop` | `invalidate_client`, behind the job that runs, unless the service has no client |
| `ClientCancels`, `Restart` | the tool is left at an await; the process dies |
| `TakeCall`, `WorkerStep`, `LoseClient`, `ControlChanges` | the other tools and the worker |

Left out: the account summary and the alert at the end, which change nothing.  An order
without a permId is listed as `ord_<orderId>`, a name the registry does not know, and is
not found; in the model every listed order has its permId.  In `Orders`, likewise,
`BracketDone` registers all legs by one kind of id where each may have its own.  Neither
makes a difference to the properties checked.

### MarketData

`stack` holds the calls, each a frame that says where it is and what it has asked for:
`get_pnl` calls `get_positions` and `get_account_summary`, `get_option_chain` and
`get_option_snapshot` call `get_quote`.  Each begins with `ensure_connected`
(`EnsureConnected`, `ConnectFails`), which connects the same client again when its
connection is lost (`Lose`); `NewClient` is the next tool call, with a client of its own.
An exception is put in `raised` and handed
down frame by frame (`Catch`, `Unwind`), through the `finally` of each.  `handlers`,
`lines`, `positions`, `pnl` and `limited` (the client's `RequestTimeout`) are what has
to be given back.  `Call` starts a function; `Resolve`, `Quote`, `AddHandler`,
`RequestLine`, `Data`, `TimeOut`, `Answered`, `PollErrors`, `RequestFails`, `PollFails`
and `ResolveFails` are its way; `Subscribe`, `PnlStep`, `AccountDone` and
`AccountFails` those of account.py; `Start`, `Started`, `StartFails`, `StartBreaks` and
`Stop` a `StreamingQuote`.  `Roll` lets a month pass: the contract cache keeps the front
month it found first.

A client that is connected again has its streams and their handlers, but no lines: a
stream that was active stays so, without a line and without noticing, until it is stopped.
`asked` is history and tells which streams have asked for theirs on this connection.

A line is cancelled by its contract and IB knows it by its request: with two streams,
or a stream and a quote, of one instrument one takes away the other's (`Shared`).  A
start of a stream that an exception breaks off (`StartBreaks`) leaves its handler and
its line behind, which nothing but a `stop` gives back; such a stream (`broken`) is not
started again before that.  `get_quotes` keeps its tickers by symbol: two instruments of
one call with the same symbol get one answer.

### PreTrade

It is without state: a step asks one question, and `answer` keeps it with what the code
answers.  `Valid`, `Built`, `Preview` are `validate_order_spec`, `_build_ib_order` with
`_build_bracket_orders`, and `preview_order`; `Violations` is
`validate_order_against_profile`, with one list of allowed values for its four; `Impact`,
`After` and `Value` are of `assess_order_impact`; `Within`, `NextTime` and `Status` of the
run window.  Profile and impact value an order differently: the one at its limit price, the
other at `ImpactPrice`, the preview's estimate or else the middle of the quote or else the
limit.  `Status` has the three reads of the clock that `get_window_status` makes, each up
to `MaxDelay` after the one before.

What the properties except is what the code does.  A `stopLossLimitPrice` of zero passes
validation and previews as another leg than is built.  Positions of futures are named
SYMBOL_EXPIRY, so profile and impact do not find them, and an option is named like its
underlying.  An empty list of positions skips the check against short selling.  A
window past midnight is never open, and one without days has no next start: the status
tool fails.  When the window closes after the status has found it open and before it asks for
the end, the status says that it is open until the end of the next active day; so too with
its opening.  `totalNotional` of a bracket is its entry's, though it is called a worst
case.  models.py:273 calls the limit offset of TRAIL_LIMIT required; validation does not.

## 3. What TLC checks

| Run | Bounds | Shows |
|---|---|---|
| `approval` | 1 server, 2 calls, 2 approvals, 2 presses, timeout 1, window 2 | the five properties below |
| `approval_binding` | 2 kinds of orders | an order is placed on the approval of another |
| `intents` | 2 rows, 2 calls, 2 approvals, both modes | the four properties below |
| `intents_cancel` | 1 approval | an open order that `cancel_trade_intent` will not cancel |
| `control` | 1 process of 2 threads, 4 stamps | the three properties below |
| `session` | 2 calls, 4 client objects, 2 gateways | the four properties below |
| `session_reconnect` | the same | a connection left behind that holds the client id |
| `orders` | a bracket and a simple order, 2 attempts each | the five properties below |
| `stop` | a simple and an auction order, 1 attempt, at most 1 call in front | the two properties below |
| `stop_reports` | a simple order | a stop that reports success and leaves an order working |
| `feeds` | 4 instruments of one symbol, 3 of them quoted, 1 stream, 1 month, the connection lost and made again at any time | the four properties below |
| `rules` | about 2000 order specs with 8 quotes, 81 holdings, previews and quotes that may be missing, a day of 4 ticks in a week of 7 days, up to 3 ticks between two reads of the clock | the six properties below |

Two calls are enough for every conflict between calls, because they meet in one
record, one row or one file and each acts on it alone; two presses are one that
counts and one that comes too late; two rows make every mixture that
`_aggregate_intent_status` distinguishes except those of three statuses, which the
proof covers.  Each time limit is small, and passed in both orders.  The instance
of `control` is the largest of its kind a server has: there are two threads that
come near the configuration.  In `session` one call connects or operates while the
other waits, disconnects or is given up; a connection left behind keeps its
gateway's client id, so there are at most two of them, and with the field's client
and that of a job still running four objects do.  (With too few, a call would wait
for one for ever, and `CallsEnd` would fail.)

In `orders` a bracket meets every way to break off and one retry of each kind: a third
attempt finds what a second would, since at most one attempt has orders that are not
cancelled, which the proof confirms for any number.  The simple order is what a set mixes
with a bracket, and takes the branches that a bracket does not.  `stop` needs no bracket,
as the proof has `Orders`'s properties in the composition, and an auction order is
there because it is looked up in another way.  One call in front of the stop is a
placement, a cancellation, or nothing, with more behind it.  `feeds` has a stock, an
option on it, a future without an expiry and the same future with one: the four that one
symbol can name.  In `rules` prices run over three values around the market and zero and
missing, so that every order of two of them occurs; times of a day over four, so that
there is one before, in and after a window and one more.  `Estimates` has the limit price of
the orders and another, so that impact and profile may agree and may not; `MaxDelay` is
nearly a day, so that every window can open, close or do both between two reads.

*Approval.*  `UsesBackedByGrants`: every use is paid for by a grant of its own.
`DenyIsRespected`: nothing is done on an approval once a denial is recorded.
`ValidatedWithinWindow`: no consumer accepts a stale record although expiry is lazy.
`SwitchOnlyWhileLocked`: the environment changes under the safety lock.
`ImplementsLedger`: the store refines the ledger, with "approved" as the token.

*TradeIntent.*  `NoDuplicateOrder`: one order per row, whatever is retried, given
up, submitted twice or restarted.  `FinalClaimsAreTrue`: a row says FILLED or
CANCELLED only of an order that is.  `IntentClaimsAreTrue`: the intent says so only if
all of its orders are, and PARTIALLY_FILLED only if there was a fill, though its rows are
written at different times and one may have failed.  `ImplementsLedger`: what happens to the
orders of a row is what `OrderLedger` lets happen under one client order id: one is
placed while none is open or filled, and an open one ends, with a fill or without.

*TradingControl.*  `CacheIsCurrent`: a cache with an up-to-date signature holds
what the file says, unless the file changed between a load and the signature
that follows it.  `StopHolds`: trading a tool has disabled stays disabled on disk
until an update that finds it disabled asks otherwise.  `StopIsEffective`: a
placement that starts after the stop does not pass the settings.

*Orders.*  `BracketGoesOutWhole`: no entry of a bracket works without its exits at IB,
wherever its placement breaks off.  `ExitsMatchEntry`: an exit is filled only after its
entry, and never both.  `NoDuplicateOrder`: whatever is retried, given up and restarted,
a clientOrderId has one order, or bracket, that is alive.  `CancelledSetIsDone`: a set that
is reported cancelled has no open order.  `ImplementsLedger`: leg by leg, broken off,
retried, cancelled and restarted, the orders and brackets of a clientOrderId refine
`OrderLedger`.  An attempt counts as open there from the moment its entry is at IB until
none of its legs is open any more, and as filled once it is over with its entry filled; a
bracket that IB rejects at its entry was never placed.

The two modules have the same promise in common because `TradeIntent` has `place_order`
in few steps and `Orders` has it call by call: the ledger is what the one relies on and
the other delivers.  In `Orders` it adds to `NoDuplicateOrder`, which compares the orders
of one state, that an attempt is made at a time when every other is over, and that what
is over does not come back.

*EmergencyStop.*  `QuietAfterStop`: once a stop that disabled trading has returned, no
order is sent until somebody enables it; a placement whose client the service had lost
before is the exception.  `StopReturns`: the stop returns, if the worker's jobs end.

*MarketData.*  `NothingLeftOpen`: after a call, however it ended, no handler, line,
subscription or timeout of it is left.  `StreamsStayOpen`: as long as the connection lasts
on which an active stream asked for its line, nobody takes it away.  `RightInstrument`: a quote has the data of the instrument it names.
`CallsEnd`: every call ends.

*PreTrade.*  `AcceptedIsComplete`: a valid order is built with all its prices.
`BracketIsProtective`: its exits close the entry with a gain and with a loss, on either
side.  `PreviewShowsWhatIsBuilt`: what the user sees is what is placed.
`EstimateIsUsable`: the preview has a price if the market has one.
`HoldingsAreCounted`: profile and impact count the account's position: the profile refuses
just what the true holding makes too much at the limit price, and the impact shows the
same wherever its price is that one.
`WindowPromiseIsKept`: the time that the status names is the first, after the last look at
the clock, at which the window ceases to be what the status says it is; and if it has not
turned while the status was made, it stays until then.

*Session.*  `OperatesOnOpenClient`: whatever is disconnected meanwhile, no
operation meets a client that the service has closed.
`OperatesInConfiguredEnvironment`: an operation runs in an environment that was
configured after its call began ("the next IBKR operation will use the new
connection", main.py:1556).  `OperationsDoNotWait`: no operation waits behind
another job, so its time limit is its own.  `CallsEnd`: every call ends and the lock
is given back, if the worker's jobs end.

Each module but the stateless `PreTrade` has one type invariant, and each property of a passing run has a
mutant of the code, defined beside the original, that TLC finds to violate it.

### What the code does not keep

The four runs that expect a violation are disagreements with the code's own
words; `PROJECT.json` quotes them.  `PerformedWasApproved` (README.md:44):
`_validate_approval` does not compare what was approved with what is submitted.
`OpenOrdersAreActive` (main.py:1255): a row that was recorded as rejected or failed is
never cancelled, though its order may be open.  `ReconnectFindsIdFree` (main.py:1494,
services.py:108): a connect that was given up leaves its connection behind.
`StopLeavesNoOrder` (main.py:1937): the emergency stop does not look at what became of
its cancellations.

Two more are seen in the models without a run.  `_on_callback` writes the verdict
whatever the status is: a late press makes a record that is expired, denied or used
approved again, where approval.py:4-8 draws a life cycle without that arrow;
`UsesBackedByGrants` holds because each such press is a grant of its own.  And
`get_config` takes the signature that it stores after the load (config.py:180-190): a
change in between leaves a stale configuration with an up-to-date signature, which is
the `overtaken` that `CacheIsCurrent` and `StopIsEffective` except.

### Fairness

`Session` states weak fairness of each call's steps, because the
loop runs what is ready and its timers go off, and of `TakeJob`, because an idle
worker takes the next job.  That a job ends is not assumed: it is up to
`ib_insync` and the gateway.  It is the hypothesis of `CallsEnd`, and without it the
property is false, since `_disconnect_locked` waits for the worker without a limit
and with the lock in its hand (services.py:118).

`EmergencyStop` states weak fairness of `WorkerStep`, where a job is a few calls with
time limits of their own, and of `StopStep`, the resumption of a coroutine whose future
is done.  What `Session` shows to be needed, that jobs end, is thus an assumption here.

`MarketData` states weak fairness of `Step`: what the code does by itself, its own
waits (`TimeOut`, `PollErrors`), and the answers to the requests that have no limit, as
`reqContractDetails` within `Resolve`.  That market data arrive (`Data`, `Started`) or
fail to is not assumed.  All other properties are safety properties.

## 4. What is proved

All theorems hold for every number of servers, calls, approvals, rows, processes
and time stamps.

*ApprovalProofs.*  `TypeCorrect`, `ExpiryEnforced`, `OnlyApprovedActs` and
`SwitchNeedsApproval` need nothing; the others
assume `SingleServer`, that all calls belong to one server; it is needed, because
two servers that share the database can both validate a record before either marks it
used, and nobody reads the row count of the update (approval.py:175).  The inductive invariant `IInv` adds to
the types that a call inside a section is the only one of its server, that the
record of a validated call is still approved and that its last verdict is
"approved", that control.json is locked between `EnvBegin` and `EnvSwitch`, and
`uses[a] + (1 if a is approved) <= grants[a]`: the count alone is not inductive,
because it does not say that an approved record has a grant to spare.  `StepKinds`
sorts the steps by what they do to the ledger (nothing, a sweep, a grant, a
denial, a use); the invariant, the refinement and the action properties each
follow from that.
The two theorems for any number of servers say what is left when the count is not: an
approval may be acted on twice, but nothing is acted on without one.  In telegram mode
whatever the broker is handed has an approval of its type that was granted and marked as
used (`OnlyApprovedActs`), and `config.json` is pointed only at an environment that a granted
approval names (`SwitchNeedsApproval`).  As another server may step in anywhere, `BackedInv`
rests on what only grows (`Grows`): the records, what is asked in them, grants and uses.
The type is as far as the first goes: that the order is the one shown is
what `PerformedWasApproved` says, and that is violated.

*TradeIntentProofs.*  `TypeCorrect`, `OneOrderPerRow`, `FinalClaimsHold`,
`IntentClaimsHold` and `RowsImplementLedger`; all but the first under `KeepsClientId`.  `OnceInv` says that an order
counted in `placed` is one the broker has, and that the operation past its check
is the only one and works on a row without an order: the serial worker is what
makes check and placement one.  `RowsImplementLedger` needs no more: every step leaves
the broker alone, places the first order of a row or moves one order on (`BrokerKinds`),
and each of these is a step of the ledger or none.  `TruthInv` adds that what the registry and the
rows say of finished orders and of fills stays true (`Claim`), since finished orders do not
change and a fill stays one.  `IntentClaimsHold` adds that the intent is the total of its
rows (`AggregateKept`) and asks what statuses that are true can add up to (`TotalClaims`).

*TradingControlProofs.*  `TypeCorrect` and `CacheCorrect`, for any number of
processes, and `StopIsKept` for one.  `CacheInv` adds to the property what is true
inside a reload: the settings a thread has loaded and not stored, or stored and not
signed, are those of the file as long as `overtaken` is false.  `StopInv` adds to
`StopHolds` what a thread may be about to write (`ThreadOK`): trading is enabled only
by a tool that was asked to, or that updates while nothing is stopped, and never by the
worker, which writes defaults.  It needs `OneProcess`, because tools compare and write without an await but
without a lock.  `StopTakesEffect`, that a placement which starts after the stop does not
pass the settings, needs `SeesControl` too.  `EffectInv` says why: a reload that nobody
overtook has real orders in its hand only if the file says so (`EnabledInv`), so while
trading is stopped a cache that allows orders is an old one; its signature is that of a
file which is not there any more, or of no file, and the latter is on its way to be signed
again (`UnsignedInv`).  A placement marked `afterStop` therefore finds a signature that
differs, and loads again (`AfterStopOK`).  TLC checked `EffectInv` first.

*OrdersProofs.*  `OrdersTypeCorrect` and one theorem for each of the five properties, for
any number of orders, sets and attempts.  `IInv` has, beside the types: `LegsInOrder`
and `WholeInv`, that the legs of an attempt are sent in order and none is released
before the last; `ExitInv`, that a filled exit has its entry filled and the other
exit cancelled; `SeenInv` and `ShownInv`, that the registry's final statuses are IB's and
that IB shows every order that is not cancelled; `OnceInv`, that of two attempts of a
request one is cancelled, and both are while a placement makes a third; `CancelInv`, for the
orders a set is through with.  `IInv` was checked by TLC first.
`OrdersImplementLedger` sorts the steps as well (`StepKinds`): they leave the book
alone, settle orders of one family that are there, or send one leg.  Settling ends an
attempt or nothing (`SettlesLedger`).  Sending an entry places the attempt, as `OnceInv`
has every other cancelled; sending an exit changes nothing, as by `WholeInv` its entry is
there and not released (`SendsLedger`).
`RetriesAddNothingHere` does without `KeepsClientId`: a process whose client id has changed
does not see the orders of the one before and may repeat them, but among those that IB shows
it there are no two of one request (`OnceHere`).

*EmergencyStopProofs.*  `TypeCorrect`, `OrdersStaySafe` and `StopKeepsLedger` (the
properties of `Orders`, in the composition) and `StopIsQuiet`.  The steps of the stop and of the others are steps
of `Orders` or leave its variables alone, up to who asked for a job (`SameWork`), so
`IInv` carries over; `QuietInv` adds that after a stop trading is disabled and that the
only placement left is one that has lost its client.

*PreTradeProofs.*  A theorem for each property, for all integer prices, quantities,
holdings and percentages, and for the run window all days of however many ticks.
`WindowsKeepTheirPromise` splits a time into day and time of day (`DayAndTime`), finds the
weekday that comes first among the seven ahead (`LeastOfSeven`, `WeekdayAhead`), and then
shows of a window that is open that it closes at its end (`ClosesAtEnd`), of one that is not
that it opens at the start of that day and at no time before (`OpensAtStart`).  Between
its reads the window may have turned: `NextIsFirst` and `TurnIs` say of each kind of time
what the first one after the last read is.

*MarketDataProofs.*  `FeedsTypeCorrect`, `CallsGiveBack`, `StreamsKept` and
`QuotesAreRight`, for any number of instruments, streams and months.  The properties speak
of the moment when no call runs, or of the answer; `FeedsInv` says what is owed before.
Only the frame on top may have a handler or a line out, and which is told by its stage;
the frames below wait for a call of theirs and owe none (`HandlersOwed`, `LinesOwed`); each
subscription and the timeout is owed as long as the function that asked for it is on the
stack (`SubscriptionsOwed`).  What a frame has resolved is of its own instruments
(`FrameOK`), as is what the cache keeps.  A stream that has asked for its line has it until the connection is lost (`StreamsOpen`).
`OwnerAssumption`, that no stream is called like
a function, is about names in the model: `Owner` tells handlers of streams from those of
calls.

*SessionProofs.*  `TypeCorrect`, `OperationsAreConnected`, `EnvironmentIsCurrent`,
`OperationsStartAtOnce` and `NoCallIsStuck`, for any number of calls, clients and gateways.  `IInv`
adds the discipline behind them: a call is in the protected part of `get_client`
iff it owns the lock; a job that was not given up has one call that waits for it,
at the place that fits its kind; and when a connect has ended for its call the
worker has nothing left to do.  The last is what makes an operation start at once
and keeps every disconnect away from its client.
`NoCallIsStuck` is the part of `CallsEnd` that needs no fairness: a call that waits has its
job with the executor (`WaitInv`: what is withdrawn is nobody else's), or stands in line for
the lock, once (`LineInv`), and the owner of the lock does not stand in that line.  There is
thus no deadlock, and no call whose wake-up got lost; that the worker then takes the job,
that it ends and that the loop runs what is ready remains to fairness.

Every invariant and every action property that a passing run checks is thus a theorem,
and so are the refinements.  Only model-checked are the liveness properties `CallsEnd` (of
`Session` and of `MarketData`) and `StopReturns`: liveness and `ENABLED` are out of the
prover's reach, as is induction over recursive data.

The hypotheses of the theorems are those of the properties, and each names something the
code does not ensure by itself: `SingleServer` and `OneProcess` (the stdio transport starts
a server for each client), `SeesControl` (`MM_IBKR_CONTROL_DIR`), `KeepsClientId` (the process
id in the client id).  Where one of them is false the theorem is silent, and the property
may be false; `OnlyApprovedActs`, `SwitchNeedsApproval` and `RetriesAddNothingHere` say what
holds even then.  These and `NoCallIsStuck` are proved without being properties of a run.

## 5. Plan

Done, in this order: `Approval`, `TradeIntent`, `TradingControl` and `Session`, because
they carry the safety of the system; then `Orders`, `EmergencyStop`, `PreTrade` and
`MarketData`; then proofs of all their safety properties, and `OrderLedger` as what
`TradeIntent` and `Orders` both implement.  Next:

1. Liveness by its safety half, as `NoCallIsStuck` does for `Session`: that in
   `EmergencyStop` and `MarketData` a measure goes down with every step of the code's own.
   With those as theorems, what is left to TLC is the fairness argument alone.
2. What the violated properties keep: the conditions under which an approval is acted on
   only for the order it shows, and an open order stays within reach of
   `cancel_trade_intent`, as theorems.
3. `TradeIntent` without `KeepsClientId` and `TradingControl` without `OneProcess`: what
   remains true, as `OnlyApprovedActs` and `RetriesAddNothingHere` say for `Approval` and
   `Orders`.

## 6. Not modelled

| Part | Why |
|---|---|
| Audit database, `ibkr_core/persistence.py` | appends and queries; nothing modelled reads it |
| Notifications | text |
| Schema, errors, authentication, logging | data types, a comparison of tokens, formatting; no state |
| Scripts and agent files | outside the server |
| Profile files, `profiles/loader.py` | read and written by administrative tools only; the validator is in `PreTrade` |
| Portfolio risk, `risk/portfolio.py` | arithmetic on account data, without state |
| The hash in `trade_core/idempotency.py` | a row's clientOrderId is its identity |
| Parsing and normalisation of the JSON files | `TradingControl` has the settings that result |
| Figures of quotes, bars and accounts | `MarketData` has whose they are, not what they say |
| `run_sync`, the end of the executor in `shutdown` | never called; at the end of the process |
