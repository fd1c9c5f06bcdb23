# HQMTS: specifications, model checks and proofs

HQMTS is a Python trading system for A-shares: strategies produce signals, a risk
engine judges them, cash is reserved, a final check runs, and orders go to the QMT
broker; around that core there are an agent layer with human approval, paper
trading, recovery, reconciliation, monitoring, a research loop, market data and a
backtester. This directory holds TLA+ modules translated from that code, TLC
configurations that check them on small instances, and TLAPS proofs for every
instance. Paths below are relative to `src/hqmts/` of the repository;
`PROJECT.json` maps every definition to the lines it models.

Running: `tlc -config X.cfg M` for a run (section 4), and `tlapm` on each of
`ReservationProofs`, `ExecutionProofs`, `PaperProofs`, `ControlsProofs`,
`OperationsProofs`, `ResearchProofs`, `BacktestProofs` and `MarketProofs` for the proofs.

## 1. Inventory

The program is one asyncio process. A coroutine runs without interruption between
two awaits, so "concurrency" means: other tasks act at every await, and whatever was
read before an await may be stale after it. Shared state is in the database (rows
read as copies, written back as copies or column by column at a commit) and in a few
in-memory objects. Every HTTP request has a database session of its own.

| Component | State | Operations | Interacts with | Hard behaviour | What makes it correct |
|---|---|---|---|---|---|
| Cash reservation manager (`reservation/manager.py`) | reservation rows; one asyncio.Lock per account | reserve, consume, release, expire_reservations | called by the execution service and paper trading; rows in the database | sum read before an await; consume, release and sweep run without the lock; failing queries | reservations in force never exceed the account's cash; the lock is always given back |
| Execution service (`execution/service.py`, `converter.py`) | the locals of each running signal; order requests | process_signal, submit_order, handle_fill, handle_order_failed | risk engine, reservation manager, final check, broker adapter and its callbacks | callbacks in any order and before submit returns; adapter raises after the broker took the order; snapshots taken before a wait | every order is backed; every way out gives the cash back; what is sent is what risk agreed to and what is allowed now |
| Final pre-submit check (`risk/final_check.py`) | none (a function of its context) | execute | called by the execution service and the force flatten | several failures at once; missing fields | nothing forbidden is allowed; a retry is only offered for an outage |
| Risk engine and 19 rules (`risk/engine.py`, `risk/rules/`) | registered rules per layer | register_rule, evaluate | called by the execution service, paper trading and the backtester | order of registration; early exit; quantities computed from cash | most restrictive result wins; every concern is reported; a resize reduces |
| Force flatten (`risk/force_flatten.py`) | progress and tasks per flatten | execute_flatten, retry_failed | positions, final check, order service | partial failure, overlapping retries, an order service that raises after taking the order | no position is sold twice; the counters tell what happened |
| Agent governance (`agent/service.py`) | task, proposal, approval and execution rows | create/start, evaluate policy, request approval, decide, execute, complete, full pipeline | policy engine, repositories, API | stale copies written back; concurrent callers | nothing that needs review in Live runs without a human; a task reports what happened |
| Agent tool gateway (`agent/gateway.py`, `policy.py`) | rate-limit windows, kill switch, audit records | invoke, set_kill_switch | tools, audit log | sliding windows, eviction | forbidden tools never run; limits hold |
| Paper trading (`execution/paper_trading.py`) | cash, positions, pending orders | submit_signal, fill_order, end_of_day_reset, stop | risk engine, reservation manager | fills later than the check; T+1 | cash and shares are conserved and never negative |
| Broker health (`monitoring/qmt_health.py`), live start-up (`live/orchestrator.py`) | failure counters and modes; readiness, cached result | record success/failure, check timeout; startup, rollback, shutdown | each other, the broker adapter | flapping channels; overlapping start-ups and shutdowns | restricted exactly while a channel is down; ready means started and connected |
| Recovery (`recovery/service.py`), reconciliation (`reconciliation/`), external trades (`monitoring/external_detector.py`) | session row; order rows; events | fourteen steps; comparisons; detection | broker, order rows, fill reports | a crash between an order and its fills; rows read before the broker makes its list, and compared after; trades made by hand | what is called reconciled agreed with the broker; what is called external is |
| Event pipeline (`infra/pipeline.py`) | stream, groups, pending messages, workers | publish, subscribe, start, stop, worker loop | every service; the Redis server | a callback that raises, a lost reply or acknowledgement, a restart | a group handles each message once and in order; acknowledged means handled |
| Web sockets (`api/ws_manager.py`, `ws_bridge.py`, `routes/ws.py`) | connections, buffers, sequence numbers, queues | connect, replay, forward, disconnect | in-process bus, browser | a client that leaves and comes back while events are forwarded | what the role may see arrives, and numbers tell what is missing |
| Metrics and alerts (`monitoring/metrics.py`, `alerts.py`) | points in a window, latest values, rules | record, snapshot, evaluate | order events, notifications | eviction, division by zero, values that are never evicted | an alert tells what happened in the window |
| Research cycle (`research/autonomous_loop.py`, `decay_monitor.py`, `bridge.py`) | cycle row, discoveries, candidates | tick, cancel, approve, reject, evaluate, synthesize | language model, backtester, routes | sessions that read, wait and commit later, /run after many ticks; cancellations and decisions in between; budgets | promoted only on evidence; ended stays ended; budgets are kept |
| Research project (`research/orchestrator.py`) | project, hypotheses, trial plans | advance, roll back, cancel, propose, plan, execute, complete | routes | requests that overlap, each checked on what it loaded | hypotheses before trials; the index counts the earlier tests; ended stays ended |
| Readiness and admission (`governance/readiness.py`, `validation/admission.py`) | admission record, score | collect, evaluate, submit, decide | routes | any order of calls | the score is that of the record; ready means no critical failure |
| Backtester (`backtest/engine.py`, `matcher.py`, `portfolio.py`, `cost.py`) | cash, positions, order buffer, daily values | replay bars, stops, orders, flatten | risk engine, strategy | T+1, rounding, delays, two instruments | shares of today are not sold; cash is not overdrawn; days are valued at their close |
| Backtest requests (`backtest/runner.py`, `routes/backtest.py`) | results in a table and in a session | run, sweep | database session | a save that fails, a process that stops | results and failures add up to the grid; what was saved stays |
| Market data (`data/service.py`, `bar_builder.py`, `client.py`, `db/repositories/bar_repo.py`) | bars; token bucket | fetch and store, aggregate and store; acquire, retry | data vendor, database | overlapping jobs, versions, shared rate limit, retries | bars are true to their minutes; the rate is kept; every request ends |
| Entity state machines (`statemachine/`) | transition tables | can_transition | most services, though several write statuses without them | callers that bypass the table | terminal states are final |
| API, database, language models, configuration, frontend, numerical toolboxes | tables, sockets | queries, formatting, statistics | | | |

`PROJECT.json` lists all of them under "components" with their sources and status, and
under "hazards" the places in the code that a test hardly reaches.

## 2. Plan

Order: the path of the money first, then what may stop it, then what surrounds it. All of
this is done:

1. `CashPool`, `ReservationManager` - reservations of a shared account, refining an abstract
   pool, with proofs.
2. `FinalCheck`, `FinalCheckGate`, `RiskEngine` - the two judges of an order.
3. `Execution` = `ReservationManager` + `FinalCheck` + broker, with proofs.
4. `AgentGovernance`, `AgentGateway`, `PaperTrading`.
5. `ForceFlatten` = `FinalCheck` + tasks; `LiveStartup` = `QmtHealth` + steps; `Recovery` with
   the comparisons of `Reconciliation`.
6. `PipelineBus`, refining an abstract log (`GroupLog`); `WebSocketBridge`, `Metrics`.
7. `ResearchCycle`, `ResearchProject`, `Admission`; `Backtest`, `BacktestRuns`; `MarketData`,
   `TushareClient`.
8. Proofs of every safety and action property that the runs check: `PaperProofs`, `BacktestProofs`,
   and one module for each composition, `ControlsProofs`, `OperationsProofs`, `ResearchProofs`,
   `MarketProofs`.

Left, in this order: the corrections of the reconciliation service; the audit trail of the gateway.
At-least-once delivery is not part of `GroupLog`: the bus does not have it (section 7).

## 3. The modules

**ReservationManager** (`reservation/manager.py`, `reservation_repo.py`). `rows` is the
cash_reservation table, `lock` the asyncio.Lock of each account, `call[t]` the point
where task t is inside reserve() with its arguments and locals, `sweep` the rows that a
running expire_reservations() has still to write, `now` the clock. One action per stretch
between awaits: `ReserveCall` (arguments, snapshot of the cash), `ReserveLock`,
`ReserveSum` (the SUM query), `ReserveReject` / `ReserveInsert` (comparison, new row),
`ReserveReturn`, `ReserveAbort` (an exception or cancellation inside the block; the `async
with` frees the lock), `Consume`, `Release`, `SweepQuery`, `SweepWrite`, `Tick`. The SUM is
counted as the number of currency units set aside, which is the same number and lets the
prover reason about it with finite cardinalities. consume() and release() read the row and write it with
no other task in between that could change it: the read is answered from the session's
identity map, so each is one action. Their calls for an id that does not exist, and
consume() of a row that is not ACTIVE, raise and change nothing.

**CashPool** is what a shared account promises: a hold is taken only while all holds fit in
the cash, and a hold given up never comes back. `ReservationManager` implements it with
the mapping ACTIVE = held, any later status = gone.

**FinalCheck** has the twelve checks of `risk/final_check.py` as the set of failures of a
context, and the verdict as the first case that applies. A field that can be None has the
value "missing". **FinalCheckGate** lets a caller fill in the context field by field.

**RiskEngine** (`risk/engine.py`, all of `risk/rules/`). `Register` appends to the rules,
`Evaluate` starts with all of them `unchecked`, `CheckRule` takes the one that comes first by layer and then by
registration (`Precedes`), which is where the code's loop over the layers gets to, and decides whether to go on,
`Return` answers. A threshold on a single field is a fact that holds or not, because only
its truth matters; quantity, price and cash are numbers, since two rules compute with them.

**Execution** (`execution/service.py`, `converter.py`) extends `ReservationManager` and
`FinalCheck`; the task of a signal is the signal. `sig[s]` is where process_signal() and
submit_order() are, with their locals; `book` and `events` are the external broker and the
callbacks it has sent; `cash` is the broker's cash, of which a caller takes a snapshot.
Every way out is there: validation or risk stops the signal, reserve() raises, the intent
raises, the final check refuses, the release of the cash fails once or twice, the adapter is
missing, the adapter raises before or after the broker took the order, a handler's database
call fails. The risk verdict and the broker's and positions' state in the contexts are
inputs; the kill switch and the clock are variables, because the documents promise that
their latest value counts.

**AgentGovernance** (`agent/service.py`, `agent_repos.py`). `props`, `approvals`, `execs`,
`tasks` are the tables. `calls[c]` is where caller c is, with the copy of the row it has
read; the write-back of the whole copy is its own action, after which the pipeline goes on.
`granted` is a history variable: the proposals that a human approved.

**PaperTrading** (`execution/paper_trading.py`). `cash`, `positions` and `orders` are the
session's state; `linked` is `_active_reservations`; `holds` is what the reservation manager
keeps for each signal. The manager's own steps are not repeated: a grant leaves the holds
within the caller's snapshot and a hold given up does not come back, which is what
`GrantsWithinSnapshot` and `RefinesCashPool` prove of it. `SubmitSignal` is submit_signal() up
to reserve() (the risk engine's evaluate() never suspends), with a resize that may be 0;
`ReserveGranted` / `ReserveFails` is the rest of it; the `Fill...` actions are fill_order() up to
its await, `Settle` / `SettleFails` the call of the manager, `EndOfDayReset` the end of the day.
A fill may be asked for at any time and price, and again. Money is in units in which the rates
leave no remainder, so that Decimal arithmetic is exact. `charged`, `forgotten` and `overlap`
are history variables.

**AgentGateway** (`agent/gateway.py`, `policy.py`, `types.py`). invoke() has no await, so a call
is one action: `InvokeRefused` for what is refused before it is counted (forbidden, unknown,
policy), `InvokeCounted` for the rest. `stamps` is `_call_timestamps` with its eviction and
pruning, the times of a list being a set of calls with their time and a number that tells calls of one moment apart; `reply` is the result the caller has yet to take. The registry has one tool for each
combination of category, environments, approval and idempotency that matters. `counted` is a
history variable: the calls really let through in the last window, whatever the table says.

**ForceFlatten** (`risk/force_flatten.py`). `positions` is what the repository answers, `service`
what the service was built with, `tasks[f]` and `progress[f]` the flatten's tasks and counters,
`flattening[c]` where caller c stands. `ExecuteFlatten` starts and waits for the positions,
`BuildTasks` makes a task of every position (skipped when everything was bought today),
`SellNext` runs the final check on the next task of the caller's list, `SubmitAnswers` is what
comes back from the order service, which may have taken the order and raise all the same.
`RetryFailed` makes a list of the failed tasks that have attempts left. `taken` and `shared` are
history variables: orders the broker took, and tasks that two callers had on their lists at once.

**QmtHealth** and **LiveStartup** (`monitoring/qmt_health.py`, `live/orchestrator.py`). `health` is
QMTHealthStatus with its two channels; time is kept as whether the last report is older than the
timeout. The fourteen steps of a start-up differ in what they do only around the connection (step
4, which retries), the health check (step 5, which reads the monitor) and the last one, which
declares readiness; the others pass and are one of five names here. Only the adapter's calls
suspend, and everything between two of them is one action: `Startup` up to the connection,
`ConnectFails`, `ConnectSucceeds` (with all later steps), `ConnectUnhealthy` (into the rollback),
`RolledBack`, `Shutdown` and `ShutDown`. A disconnect() takes effect (`Disconnects`) before it returns or raises, or never.
`given` says whether the orchestrator was built with a broker adapter and with a health monitor: without the one step 4 is
completed as skipped and nothing waits (`StartupSkipping`), without the other step 5 verifies nothing. `calls` has the
callers, `cached` and `readiness` the orchestrator's own state, `connected` the broker's side; `undone` is a history variable.

**Recovery** and **Reconciliation** (`recovery/service.py`, `reconciliation/service.py`,
`monitoring/external_detector.py`, `statemachine/order_fsm.py`, `recovery_fsm.py`). `rows` is the order
table, `atBroker` what the broker lists, `reports` the fill reports under way, `heard` the trades the
system knows. Orders are sent and filled, also by hand; the process may crash at any await, the
broker goes on; an operator runs the steps in any order and as often as he likes. Step 7 is four actions: it reads the
rows and asks (`ReadRows`), the broker makes its list (`BrokerLists`) or the query raises (`QueryFails`), and when the list has
arrived it is compared with the rows read (`ReconcileOrders`); fills and reports come in between. The detection of
external trades is handed two lists that its caller read one after the other, in either order (`ReadTrades`, `Detect`).
`reading` is the comparison under way, one at a time (bound): comparisons touch nothing of each other's. Comparisons are
operators of `Reconciliation`: a difference is a pair of a field and an id. The path of an order before its row is
`Execution`'s and external here.

**PipelineBus** (`infra/pipeline.py`, RedisStreamBus). The server's state outlives the process: the stream
(numbered messages), its groups with the last message delivered, and the pending ones. `workers[g]` is
the batch a worker has in hand and what it waits for. The server gives out messages (`Gives`), and the reply reaches the
worker (`XReadGroup`) or a connection error eats it (`ReadLost`). `CallbackReturns` / `CallbackRaises`, then
`XAck`, which may be lost; `BusStop` cancels the workers wherever they are, `BusStart` starts them again.

**GroupLog** is what a consumer group can rely on: a log that only grows and is given to the group once,
message by message; the group handles what it was given in order, each message at most once, may pass
messages over, and acknowledges only what it handled. `PipelineBus` implements it with the messages
delivered and no longer pending as the acknowledged ones; workers, batches and restarts are not in it.

**WebSocketBridge** (`api/ws_manager.py`, `api/ws_bridge.py`, `api/routes/ws.py`, InProcessBus). Queues and one
consumer per stream, the event it forwards and the sockets it still has to send it to, connections per
session, buffers and sequence numbers per user, and for each socket where its endpoint stands, what
it still has to replay and what its client received. A client may leave without the server noticing.

**Metrics** (`monitoring/metrics.py`, `monitoring/alerts.py`). Points as pairs of a time and a number, latest values, and the
alert rules as a set; `EvaluateMetrics` evicts, computes the three rates, compares and routes.

**ResearchCycle** (`research/autonomous_loop.py`, `bridge.py`, `decay_monitor.py`, cycle routes). `requests[r]` is the database
session of a request: the row as it has it, the columns it wrote, its other writes, and what its tick has decided. `Load` reads
the row, `Decide` reads discoveries and candidates, an action for each phase reads them again and does what was decided,
`Commit` writes the columns changed, `Fails` rolls back. A tick of /tick commits after itself; /run (`Running`)
goes on in one session and commits once, also before the cycle has ended (max_iterations). Whether a session that flushed reads the
row again depends on whether Python still holds the object: both are there (`Reread`). A candidate read early by the identity map
is the same as one changed later. `Cancel` loads and flushes; its commit comes later too. The routes of a single candidate set their columns whatever
these are, so each is one step. The phases, the decision after an evaluation and the budgets are all there; the language model is an input, and so
are discoveries and backtest results, which nothing in the repository writes; a result is written once. `candidates` is in the order of insertion.
`late` and `evidence` are history.

**ResearchProject** (`research/orchestrator.py`, `statemachine/research_project_fsm.py`, project routes). `request[u]`
is what a request is about to commit, with the status it loaded. `Advance`, `RollBack`, `CancelProject`,
`Move`, `Plan`, `StorePlan`, `Execute`, `Complete`, `Propose`, `Judge`.

**Admission** (`validation/admission.py`, `governance/readiness.py`). One record; metrics, assessment, submission
and decision in any order, each one step because nothing is awaited. The fourteen checks keep their
weights; the score is the weight passed, counted check by check of each weight.

**Backtest** (`backtest/engine.py`, `matcher.py`, `portfolio.py`, `cost.py`, `risk_adapter.py`). A run is a chain of
small steps: the next bar, the stops it triggers (`CloseOut`), the strategy's orders (`Emit`), each order of
the buffer kept, dropped, delayed or matched (`FillOrder`), the flatten at the end. The strategy emits any of
a few orders and the risk engine answers anything; prices are in units in which the rates leave no
remainder. `trade` and `held` are history variables; a trade remembers what its order asked for and what the risk engine made of that.

**BacktestRuns** (`backtest/runner.py`, `api/routes/backtest.py`). A single run in the request's session and a sweep
that commits after every combination; saves fail, the process stops.

**MarketData** and **TushareClient** (`data/service.py`, `bar_builder.py`, `quality.py`, `db/repositories/bar_repo.py`;
`data/client.py`). A job loads its bars, then looks up and inserts them one by one (`UpsertBar`) among the rows
its session sees, and commits or rolls back; windows follow the two sessions of the day. The volume of a window is counted share by share. The client has
one token bucket for all callers, refilled by whoever polls, and retries with growing waits; `granted` and `asked` are
history variables, the tokens given out in each of the last stretches of time and the attempts of each caller.

The modules `MCControls` (risk engine, gate, flatten, governance, gateway), `MCOperations` (start-up, recovery,
bus, sockets, metrics), `MCResearch` (cycle, project, admission) and `MCMarketData` (market data, client,
backtest requests) each put components that share no state side by side: the constant variable `part` says
which of them moves in a behaviour, so that their states add up instead of multiplying. Components that do
interact are composed in the modules themselves (`Execution`, `ForceFlatten`, `LiveStartup`, `Recovery`,
`WebSocketBridge`, `ResearchCycle`). `MCReservationManager`, `MCExecution`, `MCPaperTrading` and
`MCBacktest` instantiate one module each.

## 4. The runs

Eight runs hold, four refute a document.

| Run | Module, instance | What it shows |
|---|---|---|
| Reservation | `MCReservationManager`: 2 tasks, 1 account, 2 reservations, cash 3, amounts 0..2, clock 0..2 | `ReservedWithinCash`, `GrantWithinSnapshot`, `ImplementsCashPool`; under fairness, `ReserveReturns` |
| Execution | `MCExecution`: 2 signals on 1 account, 2 shares at price 1, cash 2, 1 clock tick, signals to open and to hold, with and without an adapter | `ExecTypeOK`, `OrdersBacked`, `NothingLeftHeld`, `UsesManager` |
| PaperTrading | `MCPaperTrading`: 3 signals, 1 instrument, prices 10 and 20, cash 25, resizes 0 and 1 | `TypeOK`, `AccountIsExact` (T+1, charged once, never overdrawn), `HeldForPending` |
| Controls | `MCControls`: any 2 of the 19 rules in either order, lot size 2; every context within 4 fields of a passing one, quantities 0..2; 2 positions, 1 flatten, 2 callers, 3 attempts; 2 governance callers, 1 proposal, 1 request, 2 executions, Paper and Live; 2 agent tasks, 2 calls per 2 ticks, eviction after 3, table of 1, 5 ticks | `AnswerIsRight` (engine), `VerdictIsRight` (final check), `FlattenPassesCheck`, `FlattenIsExact`, `HumanInTheLoop`, `TaskTellsOutcome`, `GatewayHolds`, `TypesOK` |
| Backtest | `MCBacktest`: 2 instruments, 4 bars, 2 prices, 2 volumes, cash 230, 5 orders, resizes 0 and 1, 1 delay | `TPlusOne`, `OverdrawnByFeeOnly`, `DaysValuedAtTheirClose`, `TypeOK` |
| Operations | `MCOperations`: 2 callers, 4 calls, 3 connects, with and without adapter and monitor, thresholds 2 and 3; 1 order of 2 shares, 2 trades by hand, 1 crash; 2 groups, 4 messages in batches of 2, 3 starts; 2 sockets, 3 events, buffer 2; window 1, 3 ticks, 3 records | `ReadinessIsReal`, `RecoveryTells`, `ImplementsGroupLog`, `LostByFailureForGood`, `SocketsCatchUp`, `AlertsTell`, `TypesOK` |
| Research | `MCResearch`: 2 requests (one ticks by /tick, one by /run or cancels), 1 pattern, 1 trial, 2 backtests, 2 calls, 2 candidates, 1 human decision; 2 users, 1 hypothesis, 3 trials; 2 admission decisions | `CycleIsSound`, `HypothesisFirst`, `IndexTellsEarlier`, `ReadinessTold`, `TypesOK` |
| MarketData | `MCMarketData`: 2 fetches, 2 builds, 2 versions, sessions of 2 minutes, cycle 2; 2 callers, burst 2, 2 attempts; 1 single run, 1 sweep of up to 4 combinations of which 3 are allowed | `BarsAreTrue`, `CallsBounded`, `ResultsAddUp`, `TypesOK`; under fairness, `AllRequestsEnd` |
| ExecutionCovered, BacktestLookAhead, OperationsAtLeastOnce, ResearchRollback | as the run they are named after | violated: see section 7 |

*Why the bounds are enough.* Two tasks, two reservations and cash for one and a half of them
give contention for the lock, refusal, over-commitment if the lock failed, a sweep between a
fill and a release, and waiting. Two shares allow partial fills and resizes to 0 and 1. The
two signals of `Execution` compete for cash that covers one of them. A final check has twelve
checks, most on a single field, and no verdict depends on more than three of them at once;
four changes cover every pair of failures with the side and flatten flags. The engine combines
results pairwise, so two rules show every combination. In governance the hazards are between
two callers that hold copies of one row; a second proposal would not interact with it. Three
paper orders are a purchase, a sale and one that overlaps with either; cash 25 buys two shares at
10, one at 20, and does not pay two orders sized against it. In the gateway the limit, the table
and the clock are small enough to be exceeded, and five ticks are longer than window and
eviction time. Two flatten calls with two positions overlap in every way, and three attempts are
exhausted. Three connects and four calls are a start-up, a shutdown between, and two that overlap
with either; the thresholds differ, so that each channel trips alone. One order of two shares has a
lost first and a lost second fill; one manual trade looks like it and one has no details. Four
messages in batches of two leave a message behind in a batch, and three starts are two restarts.
Three events overflow a buffer of two. Three records in a window of one tick are inside, at and
outside its edge. The cycle's budgets each can be the one that ends it; two requests are a tick next to a
cancellation or next to the ticks of a /run, and a second candidate is synthesized beside one that is being evaluated; no more are
synthesized (`MaxCandidates` is a guard, of the loop and of the route). Three trials let one be planned while two others are. Four bars over two
instruments are two days with a stop, a delay and a flatten. Two minutes per session make a window
complete, partial, and astride the lunch break; two fetches and two builds overlap in pairs. A bucket
of two is emptied by two callers that retry once. A grid of four is beyond what is allowed, one of
three is not.

*Fairness.* `FairSpec` of `ReservationManager`: weak fairness for a task that can
run (the event loop runs every ready task, and a query answers or raises) and for the sweep, strong fairness
for taking the lock (asyncio.Lock wakes its waiters in FIFO order, so a waiter is not passed
over for ever while the lock is freed again and again). `ClientFairness` of `TushareClient`: the clock goes
on, a poller is woken, a sleep ends, and the vendor answers or the call raises. No caller is
obliged to call anything, no query to fail. No other run has a liveness property: a research cycle, in particular, need not end
(section 7).

*Deadlock.* `Reservation`, `Execution` and `PaperTrading` run with the deadlock check on, and always have a
step left (a release, the kill switch, the end of the day). The others have CHECK_DEADLOCK FALSE, because
a part of theirs really stops: the final check after its verdict, a backtest after its last bar, the
operations when their calls, messages and records are used up, a cycle or a project that has ended, jobs and requests
that are done.

*Symmetry* is used in `Controls`, `Execution` and `PaperTrading`, which have no liveness property; the
permuted sets (callers, requests, executions, agent tasks; signals and reservation ids) are only
compared for equality.

Every property of a passing run has a mutant: an operator next to the definition it stands for, marked
"Mutant" in its comment and used nowhere, that changes it the way a slip in the code would. With it in place TLC
finds the property violated.

## 5. What is proved

`ReservationProofs`, for any sets of accounts, tasks and reservation ids, any amounts, cash
limits, TTL and clock bound, from `ReservationAssumption` only (finitely many ids, numbers
are naturals, NoTask is no task):

* `TypeCorrect`: `Spec => []TypeOK`.
* `NoOverCommitment`: `Spec => []ReservedWithinCash`.
* `GrantsWithinSnapshot`: `Spec => GrantWithinSnapshot`.
* `RefinesCashPool`: `Spec => Pool!Spec`.

`ReservedWithinCash` is not inductive: from a state where two tasks are both past the SUM an
insert could exceed the cash. The invariant `IInv` adds what the lock gives. `LockInv`: a
task inside the block holds its account's lock, so there is one of them per account.
`RidInv`: a call that has not inserted has an id that nobody else uses. `SnapshotInv`: its
cash snapshot is at most the limit. `SumInv`: while a task is past the SUM, the sum of the
table is at most what it has read. The last one is the heart of the matter: everything
that runs without the lock (consume, release, sweep) only takes rows out of ACTIVE
(`SumShrinks`), and an insert of another account does not touch this one (`SumGrows`).

`ExecutionProofs`, for any sets of accounts, signals and reservation ids and any price and
quantities, from `ReservationAssumption` and `ExecutionAssumption` (the value of the largest
order is an amount the manager can hold):

* `ExecutionUsesManager`: `ExecSpec => UsesManager`. Every step of the pipeline, of the broker
  and of its callbacks is, on the manager's variables, a step of `ReservationManager` or none.
* `ExecutionNeverOverCommits`: `ExecSpec => []ReservedWithinCash`, from the first and
  `NoOverCommitment`. In the same way `ExecutionImplementsPool` (`ExecSpec => ImplementsCashPool`,
  with `RefinesCashPool`) and `ExecutionGrantsWithinSnapshot`: refinement carries over, so the
  whole pipeline implements the abstract pool of cash.

A step is a call of the manager only with arguments that module allows, so the proof carries
`CallsInv`: the manager's types, the cash a caller can see at most the limit, and every callback's
amount an amount that can be reserved. `StepIsCall` shows that under `CallsInv` a step is a call,
`CallsInvStep` that it is kept.

* `ExecTypeCorrect`: `ExecSpec => []ExecTypeOK`.
* `OpeningOrdersAreBacked`: `ExecSpec => []OrdersBacked`.
* `NoCashIsLeftHeld`: `ExecSpec => []NothingLeftHeld`, which names two exceptions, a release whose write the database lost and an
  order that was never sent (`NeverSent`). Of the latter `UnsentKeepsItsCash` says that nothing but the sweep gives its cash up.

None of these is inductive: where the row of an order came from is forgotten once reserve() has
returned. `PipeInv` keeps it. `CallOfSignal`: a signal is inside reserve() exactly while it is
"reserving", with the arguments its locals tell, and the row of a call that is flushing is
there. `RowOfSignal`: once the call has returned the row stays for as long as the signal carries
its id, for exactly the value of the order; an opening order without an id would have had no
price, which the final check rejects (`UnpricedStops`). `OneOwner`: no two signals carry the same
id, as a fresh id is neither that of a row nor of a call. `Linked`: only what is with the broker
calls back. `StepKinds` reduces the steps to those that leave the signals alone, move an order
request, start a signal, or continue inside process_signal(); with `Weakened` (everything but
an insert only takes rows out of ACTIVE) that is all the last theorem needs, which follows the
row of each signal to the action that gives it up. The manager's own `IInv` is used through
`ExecutionUsesManager`.

`PaperProofs`, for any signals, instruments, prices, rates and resizes, from `PaperAssumption`: `PaperTypeCorrect`
(`Spec => []TypeOK`), `HeldOnlyForPending` (`[]HeldForPending`) and `AccountStaysExact` (`[]AccountIsExact`). The account
is exact only as long as no two sales of an instrument were outstanding together, so `AccountInv` follows the sales:
`SalesCovered` says that the shares of an outstanding sale are there and that no other sale takes them. A fill of another
order must not disturb that, a purchase that averages into the position in particular. `ChargedOnce` and `NewUncharged`
follow an order from before it moved any cash; the cash is that of the start less what the orders were charged for.

`ControlsProofs`, from `QuantityAssumption`, `GateAssumption` (quantities are naturals, and the values a field
may take), `RiskAssumption`, `FlattenAssumption`, `GovernanceAssumption` and `GatewayAssumption`:

* `GateTypeCorrect`, `AllowedOnlySafe`, `RetriedForBrokerOnly` and `VerdictAlwaysRight`: for every context. The
  invariant `GateInv` says that the verdict is `Execute` of the request that was filled in; what follows is a
  lemma about the twelve checks.
* `AnswerAlwaysRight` (`RiskSpec => []AnswerIsRight`): for any set of registered rules, in any order, and every context.
  `MostInv`: the result kept so far is the answer of a rule that was checked, and no rule checked
  answers with more, nor an earlier one with as much. `HeardInv`: the concerns list each rule that raised one, once. Between
  them lies an order of the rules (`Precedes`) of which the rules checked are an initial part.
* `FlattenAlwaysPasses` (`[]FlattenPassesCheck`): for any positions, flattens, callers and numbers of
  attempts. The invariant `FlattenInv` says that a flatten has no tasks before its one query is answered,
  and that a task sells exactly the available shares that were not bought today.
* `FlattenStaysExact` (`[]FlattenIsExact`). How often a task is tried is no matter of one counter: calls that overlap
  have the same task on their lists and each tries it. `TriesCounted` bounds the attempts made plus the calls that have still to
  try by MaxRetries plus the number of other calls. `NotShared`: a task that two calls never had on their lists together
  is on one list at most, with the status that call expects, and the broker took an order for it only if its
  status says so; that is why it is not sold twice. `CountersTell` relates the counters to the tasks.
* `HumanDecides` (`GovSpec => []HumanInTheLoop`): for any number of callers, proposals, requests
  and executions. The property is not inductive because a stale copy may be written back over anything.
  `GovInv` says it of every copy too: each keeps the environment and type of its row, and none is
  approved that needs review in Live unless a human granted it; so writing a copy back cannot lose that.
* `OutcomeIsInTables` (`[]TaskTellsOutcome`): what a task points to was stored before, and `TablesGrow`:
  requests and executions stay, for the proposal they were made for.
* `GatewayAlwaysHolds` (`[]GatewayHolds`): for any limits, windows, table sizes and eviction times that the assumption
  allows (a record is not evicted while it counts). `GatewayInv`: what the table has of a task's last window is exactly
  what was let through, whatever was pruned or evicted; `CallsDiffer` keeps two calls of one moment apart.
* `ControlsTypesCorrect` (`Spec => []TypesOK`) puts the parts together; their own type theorems are
  `GateTypeCorrect`, `RiskTypeCorrect`, `FlattenTypeCorrect`, `GovTypeCorrect` and `GatewayTypeCorrect`.

`OperationsProofs`, from `HealthAssumption`, `StartupAssumption`, `BusAssumption`, `RecoveryAssumption`, `MetricsAssumption` and
`BridgeAssumption`:

* `HealthTypeCorrect`, `RestrictedForCause`, `StartupTypeCorrect`, `CacheIsTruthful`, `ReadyMeansConnected`,
  `ReadinessStaysReal`, `ReadyOnlyWhenHealthy`. `HealthInv`: the
  counters are the failures since the last success, and the modes follow from them. What is ready and has an adapter is connected
  however calls overlap: the two ways in which it is not are named in `ReadyIsConnected`, a shutdown that waits for
  disconnect() and a rollback that hit another start-up's success.
* `HandledInOrder`, `AcknowledgedWasHandled` and `AcknowledgedOnceInOrder`, for any number of
  groups, messages, failures and restarts. `WorkerInv`: the batch in a worker's hand is the tail of what
  was delivered to the group, and what the group has handled lies below the batch, in order.
* `BusImplementsGroupLog` (`BusSpec => ImplementsGroupLog`), from the same invariant, one lemma for each step that
  shows: a read adds to what is delivered and pending the same messages, so it acknowledges nothing (`ReadGives`); a
  callback that returns handles a message above all handled before (`ReturnsHandles`); an acknowledgement is of the
  message handled last, or is lost and does not show (`AckAcknowledges`). All else is a stutter.
* `PassedOverForGood` (`BusSpec => LostByFailureForGood`) says what is left of at-least-once delivery, which the bus
  does not have (section 7): a message given to a group is handled or in a worker's hand unless the reply is lost, its callback raises or the
  bus stops, and one that was passed over stays so through every restart.
* `RecoveryToldTrue` (`RecoverySpec => RecoveryTells`), for any orders, quantities, trades by hand and crashes.
  `FillsHeard`: the fills a row shows and the reports under way are together at most the fills at the broker, so a
  late report never takes a row beyond it. What step 7 has read is behind the rows and not beside them, and the list it
  compares with is what the broker had when it made it; so equal numbers mean that the table agreed at that moment.
* `AlertsAreTrue` (`[]AlertsTell`), for any window and records. `PointsKept`: of the points in the window none is missing,
  whatever was evicted when; `RatesFresh`: what the last evaluation left is true until the next event.
* `SocketsAlwaysCatchUp` (`[]SocketsCatchUp`), for any sockets, users, roles, events and sizes of the buffer.
  `OneEventPerNumber`: a sequence number of a user names one event, in his buffer, his replays and all that his clients received;
  `Contiguous`: a buffer is the last part of the sequence without a gap; `OwedComes`: what a client is to have, it has, or
  it is in its replay, or its consumer is about to send it; `MayBeSeen` and `MayBeForwarded` say of everything
  kept or on its way that the role may see it.
* `OperationsTypesCorrect` (`Spec => []TypesOK`).

`BacktestProofs`, from `BacktestAssumption`: `BacktestTypeCorrect`, `SellableIsOlder` (`Spec => []TPlusOne`), `TradesKeepToOrders`,
`OverdrawnByFee` and `DaysAreValued` (`Spec => DaysValuedAtTheirClose`), for any
instruments, orders, prices, rates, lots and delays. `BtInv` has the types, that what is left of earlier
days is at most what may be sold (`SoundPosition`), and the orders and bars the steps carry. The change
of a day writes no value where there is no price yet; `Unpriced` says that such a position was worth nothing before.

`ResearchProofs`, from `CycleAssumption`, `ProjectAssumption` and `AdmissionAssumption`:

* `HypothesisComesFirst`, `IndicesTellEarlier` and `EndedStaysEnded`, for any number
  of overlapping requests. `SeenInv`: a hypothesis once proposed stays, so a request that saw one is right about it
  whenever it commits. `IndexInv`: a request that counted the trials knows no more of them than there are.
* `CyclesAreSound` (`CycleSpec => CycleIsSound`) and `BudgetsHold`, for any patterns, requests and budgets. `CycleInv` says of the row
  and of every session that its counters keep to the budgets (`RowOK`), of every candidate that a verdict "promote" is that of a
  strong result, and of every session that would promote the cycle that it has seen such a candidate evaluated (`SessionOK`).
  A commit mixes the columns of two rows, and both keep to the bounds (`MixedRows`).
* `ResearchTypesHold` (`Spec => []TypesOK`). How many backtests are counted is the hard part: a tick adds the number of
  its batch to the counter it had loaded. `CycleInv` bounds the counter by the budget and the number of candidates, which never shrinks.
* `ReadinessIsTold` (`AdmissionSpec => []ReadinessTold`): the score is that of the record, whatever is recorded
  in which order.

`MarketProofs`, from `ClientAssumption`, `MarketAssumption` and `RunsAssumption`:

* `CallsAreBounded` (`ClientSpec => []CallsBounded`), for any number of callers, any rate, bucket and number of attempts.
  `BucketInv`: what was granted in any last stretch of time and what the bucket would hold if it were refilled now are together at
  most the bucket and what the stretch refills; a grant moves a token from the second to the first. `AskedInv`: the attempts
  of a caller are counted by the dates it has behind it and its attempts of this one.
* `StoredBarsAreTrue` (`MarketSpec => []BarsAreTrue`), for any minutes, sessions, cycles, versions, fetches and builds. `TruthInv`: a completed longer
  bar, stored or in a job's hands, has as many rows of its window behind it as it has minutes, whose volume it adds up. `OverlapInv`: a bar that a job adds
  is in the table only if whoever stored it was storing at the same time; so a bar stored twice tells of an overlap. `KeysInv`:
  a job looks a key up before it inserts it. First and last row of a window exist because in a finite
  set with an order one member has the least number of others below it (`FirstExists`).
* `SweepsAddUp` (`RunsSpec => []ResultsAddUp`), for any grid. `Accounted`: for every combination before the next one there is one
  result or one failure. That the answer can rank its results needs an argument of its own: the place of a
  result is the number of those that precede it.
* `MarketTypesHold` (`Spec => []TypesOK`).

`ReservationProofs`, `ExecutionProofs`, `PaperProofs` and `BacktestProofs` are about one module each. The four others are about the
compositions of section 4: a part's invariant is an invariant of the part's own specification, and since a step of the composition
is a step of one part that leaves the others alone, the type invariant of the composition follows from theirs.

`DegradedForCause`, `CacheTellsReadiness`, `ReadyIsConnected`, `ReadyWhenHealthy`, `ProcessedInOrder`, `AckedIsProcessed`, `AllowedIsSafe`,
`RetryOnlyForBroker`, `EndedProjectStays`, `TradeWithinOrder`, `TrialsAndCallsKept` and the type invariants of the components are proved without
being listed in a run by themselves; most are conjuncts of a property that is. The theorems that a composition's types rest on
are in the modules and not in the list of `PROJECT.json`.

*Only model-checked:* the liveness properties `ReserveReturns` and `AllRequestsEnd`, because liveness under
fairness is out of the prover's reach. Every other property of a passing run is stated by a theorem.

The installed provers cannot do induction over data, so no proof is about a sum defined by recursion. Where the code adds up,
the models count the members of a set: units of currency in `ReservationManager`, shares in `MarketData`, points in `Metrics`, checks of a weight in `Admission`. Where the code sorts, the models say which member is first, in `RiskEngine`, or
that the result is in order, in `BacktestRuns`. The library's theorems about finite sets and their cardinalities then do what
induction would have done.

Some definitions state what the documents ask and the code does not do, without a run of their own:
`OrderWithinApproval`, `FinalCheckSeesPresent`, `FillsAreConsumed` and `UnsentHoldsNothing` (Execution), `ExecutedOnce` (AgentGovernance),
`CanceledIsNotFilled` (Recovery), `CompletedHasAll` (MarketData), `ActiveAreListed` (WebSocketBridge). Section 7 says what
happens instead.

## 6. What is not modelled

Within the modelled parts: logging, events for the dashboard, ids and texts, currency
rounding (prices are whole numbers), short sales by a broker that would not allow them,
the proceeds of live sales (they only add cash), several processes on one database, and changes of
the registered rules during an evaluation, which has no await; average costs and the statistics of
backtests and paper sessions (but for the division by zero); a commit of a sweep that raises although it took effect; the audit records of the gateway and the table of
permissions (`agent/permission.py`); the recovery steps whose result nothing uses; the correction requests of
the reconciliation service, which write a table of their own and reach no position; the senders of
notifications; the in-process bus but for the queues of the web sockets; instrument lists, the statistics
of data quality and the comparison of versions; the statistics of research governance, the registry's
queries and the bridge from factors to signals.

Not at all: numerical code (`research/factor.py`, `backtest/strategies/`, `backtest/vectorized.py`, `validation/` but for
admission), which is data and not control; prompts and calls of language models (`llm/`, `research/ai_assistant.py`);
column definitions and migrations (`db/models/`, `alembic/`); the routes that only read and format; the
strategy sandbox, which has no state; the reject handler, which nothing calls; the broker mock, whose
signature differs from what the execution service uses; configuration; the web frontend.

## 7. Where code and documents differ

Four of these have a run whose counterexample shows it, and an entry under "findings":

* *Cash counted twice* (`execution/service.py:98`, run ExecutionCovered): a snapshot from before another
  order's fill backs a second order.
* *Look-ahead* (`backtest/engine.py:193`, run BacktestLookAhead): an order is filled on the bar whose close led to
  it, at that bar's opening price; the matcher says "next tradeable bar".
* *At least once* (`infra/pipeline.py:227`, run OperationsAtLeastOnce): a message whose callback raised, or that was in
  hand when the bus stopped, or whose reply was lost, stays pending for ever.
* *Rollback forward* (`research/orchestrator.py:181`, run ResearchRollback): a designing project is "rolled back" to
  executing without a trial.

The others were met while modelling and have no run of their own; the modules contain the behaviour.

*Execution and reservations.*

* A resize to 0 is false in Python (`execution/service.py:85`), so the order keeps its full target
  (`OrderWithinApproval`).
* Kill switch, time and reservation in the final check are those of the moment before reserve() waited
  (`execution/service.py:119`, `FinalCheckSeesPresent`).
* The second of two partial fills is refused, because the first one made the row PARTIALLY_CONSUMED
  (`reservation/manager.py:152`, `FillsAreConsumed`).
* release() overwrites terminal statuses, which `statemachine/reservation_fsm.py:30-32` makes
  final, and the sweep overwrites a row consumed meanwhile (`reservation/manager.py:191`, `:215`).
* `pause_open_mode` is a field of the final check's context that nothing reads
  (`risk/final_check.py:57`; `core/exceptions.py:154` speaks of it).
* submit_order() without an adapter keeps the reservation (`execution/service.py:150`), against
  its own docstring (`:147-148`, `UnsentHoldsNothing`), until the sweep expires it.
* Of two resizes the first wins, not the smaller one (`risk/engine.py:131`, docstring `:98`); a
  resize for lack of cash is not a multiple of the lot (`risk/rules/account.py:118`).
* TotalPositionLimitRule does not exempt a flatten (`risk/rules/account.py:25`).

*Agents.*

* Two callers pass the same check on their copies and execute one proposal twice
  (`agent/service.py:361`, `ExecutedOnce`).
* Two decisions of one approval request race (`agent/service.py:319-330`); a repeated policy
  evaluation revives a finished proposal (`:194`); requests are not deduplicated (`:269`);
  execute_proposal() does not look at the kill switch (`:351`); the environment of a policy
  evaluation is whatever its caller says (`:162`). The model takes the caller to be right about
  the environment; `HumanInTheLoop` rests on that.
* Calls of forbidden and unknown tools return without `_audit_log` (`agent/gateway.py:109`, `:114`),
  whose docstring says that all tool calls must be audited (`:235`); the former are at least logged.
* A call without its idempotency key uses up the rate (`agent/gateway.py:148`, `:163`).
* The kill switch stops tools in Live only (`agent/policy.py:121`), though its log line speaks of
  all non-read operations (`:172`); a tool that requires approval needs none outside Live.

*Paper trading.*

* A paper order is tested for "nothing to trade" before the resize (`execution/paper_trading.py:172`,
  `:221`), so an order for no shares is kept and pays the minimum commission; into an empty
  position it raises after the cash is gone (`:352`) and pays again at each retry.
* Two outstanding paper sales of one position are both paid in full, while the shares are clamped
  at zero (`execution/paper_trading.py:293`, `:360`). `AccountIsExact` excludes them by `overlap`.
* stop() of a paper session stops nothing (`execution/paper_trading.py:338`).

*Force flatten* (`risk/force_flatten.py`).

* The route builds the service without a position repository: nothing is sold and the flatten is complete.
* A broker that raises after accepting is asked again by the retry. Overlapping retries share tasks; two
  flattens sell the same stale position twice. `SoldOnce` is about one flatten whose lists did not overlap.
* `is_complete` holds although tasks failed; without an order service a sale counts as a success.
* The position rows lack the bought-today quantity, and available shares less bought-today ones are
  subtracted a second time in the final check.

*Recovery* (`recovery/service.py`).

* Step 8 compares the broker's trades with an empty list, so any trade fails it; step 9 has no local positions
  and never fails; step 10 completes whatever it finds; step 13 looks at its caller's flags only.
* Finished orders look external in step 7. The steps run in any order and are not persisted, though the
  docstring calls them a sequence (`recovery/service.py:159`). The action close_only is never taken.
* The cancel route changes the row without telling the broker (`CanceledIsNotFilled`). The match of trades by
  time and quantity is one to many. Two orders in flight make `has_conflicting_inflight_orders` raise.
* A start-up that rolls back disconnects the broker under another one (`live/orchestrator.py:171`), which stays ready; while a
  shutdown waits for disconnect() the cached success still answers (`:86`). An orchestrator without an adapter becomes
  ready without a connection, one without a monitor without a check of the broker (`:191`, `:227`).

*Messaging.*

* Of several groups that subscribe to a stream only the first is created (`infra/pipeline.py:206`); pending
  messages are never read again.
* An event is buffered once per connection of its user, with different sequence numbers. An event forwarded
  to another socket of the user while a new one connects is neither replayed nor sent to it.
* A consumer of the in-process bus that subscribes before the start exits; a callback that raises loses the
  message. A session that reconnects replaces its socket, and the end of the old endpoint removes the new
  one (`api/ws_manager.py:116`, `ActiveAreListed`).
* The latest value of an event count is never evicted, so that its alert fires for ever
  (`monitoring/metrics.py`); the fill rate counts accepted orders that are not filled yet as failing.

*Research.*

* Nothing in the repository creates the discoveries the cycle waits for, or writes the Sharpe ratio it judges: a cycle in
  backtesting waits for ever, and /run stops at max_iterations.
* The budget is checked before the decision, so that a cycle whose last trial succeeded is archived, without the
  outcome its enumeration has for that; the outcome "canceled" is not in the enumeration. A stale tick
  overwrites a cancellation and reopens the cycle. A candidate that a human rejects after the evaluation was resolved and before
  the commit does not stop the promotion (`research/autonomous_loop.py:459`, `api/routes/factor_research.py:1220`, `:1245`).
* A candidate is approved for paper without any check, and does not count any more in the evaluation, so its
  cycle is archived; a rejected one that was not backtested blocks the others.
* The governance service lives as long as a request, so that the correction for multiple tests never applies,
  and its limit of 100 ignores the trial budget. Overlapping plans share an index, and overlapping executions run a
  trial twice; an overlapping advance revives a canceled project.
* The decay monitor starts another cycle for the same factor at every check. `autonomy_level` and
  `max_duration_hours` are consulted by nothing.

*Admission.*

* A decision is taken in any status, before metrics and though the assessment failed, and again. The route of the
  assessment passes neither approval nor drills, so readiness never passes through it.
* The checklist's 30 paper days (`validation/admission.py`) are not used; the assessor asks for 20, and readiness
  can be reached without them.

*Backtests.*

* The last day is not valued. A stop, a profit or a flatten of one instrument is filled at the price of whatever
  bar is being replayed. An order resized to 0 buys the maximum, more than it asked for (`TradeWithinOrder` names it). The commission is not part of what is
  affordable, so cash becomes negative by it. Stops are set for orders that are rejected and cleared after a
  partial fill. The volume cap is per order, not per bar. The win rate ignores later partial sales. The
  strategies' own position flag is shared by all instruments.
* A commit that raises after the database has taken it (section 6) would count a saved run as failed.
* Results that could not be saved are returned; a sweep whose runs all fail answers 400.

*Market data.*

* Longer bars are built from minutes of any version: completed without all minutes of their own, or never
  completed, or with the volume doubled (`data/bar_builder.py:148`, `CompletedHasAll`). They are never refreshed, since
  bulk_upsert() skips rows that exist, against its docstring.
* Without a unique constraint overlapping jobs insert a bar twice, and a later upsert raises.
* Of the quality grades only a failure has an effect. Bars outside the sessions are dropped by the aggregation.
* Burst and refill together allow up to twice the calls per minute in one minute. The last attempt also waits
  before it raises; with no attempts allowed the client raises None.
