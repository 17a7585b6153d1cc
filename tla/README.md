# Formal models of Follon's trading core

This directory is a TLA+ development kept beside the Follon source. It models the
durable order management core of the PAPER route, the controlled-live safety
kernel and the components around them (combinations, identity, the event store,
the replay engine, the strategy worker, the evidence files, the margin account,
the execution planners, the repair of recordings, data retention and releases,
portfolio limits, corporate actions, session evidence, the trading API, research
evaluations and the desktop), checks them with TLC and proves the safety properties of
the first two, of combinations, the event store, identity, the trading API routes, the
desktop, the evidence files, the workbench, deletions and releases with TLAPS. Paths below are relative to `src/`.

    tlc -workers 2 -config PaperOmsOrder.cfg MCPaperOms.tla   # one run
    tlc -workers 2 -config Services.cfg MCServices.tla        # the other components
    tlapm PaperOms_proofs.tla                                 # the proofs of one module

## 1. The system

Follon is a single-operator trading platform: Rust crates under `core/`, a Python
bridge to Interactive Brokers, a Postgres event store, and command-line, API and
desktop front ends. An order's life is the heart of it: an intent is approved by
pre-trade risk, journaled, handed to a broker whose answer may be lost, and then
driven by broker evidence that arrives late, twice, out of order or never.

### 1.1 Components

| Component | State it keeps | Operations | Talks to | What makes it correct |
|---|---|---|---|---|
| order lifecycle (`core/domain/src/lifecycle.rs`, `core/control-plane` transition table, `core/paper/.../broker_events.rs`) | one order record: state, broker identities, pending replacement, fills | one handler per broker event | called by the OMS | ended orders stay ended unless executed; FILLED exactly when complete |
| paper OMS service (`core/paper/src/service*`) | orders, executions booked, position, cash, kill switches, incidents, session flag, journal health | submit, cancel, replace, synchronize, reconnect, reconcile, explain, kill switch, restore | broker (calls, polled events), journal (append) | journal first, submitted once, executions booked once, exposure within limits, fail closed |
| evidence files (`core/paper/src/journal.rs`, the audit journal in `core/live`, the journal in `core/operations`, the ledger in `core/commercial`) | chained lines, lock, head of the chain | open, append, verify | file system | what an append reported stays recorded; a file a process left behind opens again |
| paper broker route (`core/paper/src/{broker,ibkr,fault}.rs`) | orders at the venue, queued events | submit, cancel, replace, poll, snapshot, reconnect | OMS, venue | never accepts a client identity twice |
| ibkr bridge (`python/ibkr-gateway`, `adapters/brokers/ibkr`) | connection, order table, executions waiting for a commission, events | submit, cancel, poll, snapshot, reconnect; a callback for all IBKR says | OMS over JSON lines, IBKR | a client order is placed once, an execution reported once and when complete, a rejection is final, a snapshot is current |
| combinations (`core/{paper,live}/src/combinations.rs`) | combination orders, execution groups, positions per leg | submit, cancel, combination events | as the OMS | legs are booked together or not at all; refused evidence blocks new orders |
| live safety kernel (`core/live`) | approvals, activation, canary budget, audit chain | register approval, submit canary, cancel, replace, synchronize, reconcile, session | live broker, audit file | no order without a consumed approval; halts stay halted |
| live account books (`core/live`, `core/accounting`, `Portfolio`) | cash, signed position, tax lots, each strategy's share, marks, peak, daily baseline, receipts | evaluate, execution, split, dividend, persist, restore | audit file, venue | four accounts of the same executions agree; limits look back past a restart; a record it writes opens again |
| attested account (`corporate_actions.rs`, `promotion.rs`, `reconcile.rs` of `core/paper`; `corporate_actions.rs`, `lib.rs` of `core/live`) | receipts of splits and dividends, reconciliation reports, recorded sessions | apply action, reconcile, explain, record session | the venue, which announces and settles on its own | an action is applied once and to the quantity it was stated for; a clean session has a clean reconciliation behind it |
| portfolio limits (`service/{risk,portfolio_risk,kill_switch}.rs`, `core/risk`) | marks, peak, daily baseline, kill-switch scopes | evaluate, assess a combination, switch | OMS | approved orders stay within the limits however they fill |
| execution planners (`core/execution`) | none (pure) | TWAP, VWAP, arrival price, iceberg, participation, wheel, routing | API, OMS | slices sum exactly to the parent and follow its weights |
| identity (`core/identity`) | users, challenges, sessions, failures | login, second factor, lockout, roles, credentials | API | a factor grants one session; guesses are bounded |
| event store (`adapters/persistence/postgres`) | events, outbox | append, claim, mark delivered | Postgres | one row per key and per sequence; an answer is true |
| replay engine (`core/control-plane`, `core/backtest`) | orders, portfolio, ledger, snapshot | bar, headline, sentiment, split, dividend | strategy worker | books agree; nothing is filled from a price not yet seen |
| strategy worker (`core/control-plane/src/worker_io.rs`) | pipes, two threads, deadline | send, receive | Python worker process | an answer belongs to its request; threads end |
| margin account (`core/backtest`, `core/accounting`) | position, cash, tax lots | fill, mark, split, dividend, financing, delisting | replay, API | position and lots agree, P&L differs by charges |
| market data (`core/market-data`) | last sequence, known ids, recording | observe, repair | provider, operator | every gap is declared; repairs compose |
| operator workbench (`core/operations`, `apps/cli/src/operations.rs`) | a configuration document, a journal of what was done | complete scheduled work, record, dashboard, registers | operators, journal file | work is recorded as done once; no record makes a reader fail |
| commercial administration (`core/commercial`, `apps/cli/src/admin.rs`) | ledger of tenants and subscriptions, deletion plans and receipts, release manifests, signatures, configuration | provision, subscribe, plan and execute deletions, build, sign, configure, declare ready | operators, data root, artifact root | a file is deleted as it was reviewed; readiness is declared on signed artifacts and a right that holds |
| research inputs (`core/{market-data,news,instrument,fx}`, `apps/cli/src/{build_bars,news_cli,fx,backtest}.rs`) | none between commands; books and feeds built from a document | build bars, adjust them, order a feed, resolve versions and sessions, price, convert | replay engine, operator | a document says the same in any order; nothing is known before its time; a price is fresh |
| risk reports, options, transaction-cost analysis | none | batch computations | operator | numerical |
| trading API (`services/trading-api`) | sessions, the PAPER service and the live kill-switch service, each behind a lock | log in, revoke, and one operation of a service per call, many calls at once | operators, both services, identity | an answered halt stands; the record names who was entitled; a retry does nothing twice |
| research evaluations (`apps/cli/src/backtest.rs`, `core/control-plane/src/capsule.rs`) | published files, experiment store, capsule directories | announce and run a worker, publish, record, package, sign, verify | Python worker, files its author edits | the files of an evaluation are of one run; a capsule reproduces its receipt; what verifies was signed |
| desktop (`apps/desktop/src-tauri`) | a PAPER service with its journal, an in-process venue, armed reference prices | submit, cancel, close, combinations, status | operator, `core/paper` | service and venue agree; an order fills once, at prices attested for it; a receipt stands |
| command line (`apps/cli`), browser console (`apps/desktop/server.py`) | none of the core's own | one core operation per command | core | – |

`PROJECT.json` lists each with what is modelled.

### 1.2 How they interact, and what is hard

Every operation of the two services borrows it mutably, so operations never overlap.
They are still not atomic: between the steps of one operation lie the journal
append and the broker call, and

* the process may die between any two of them and be restarted from the journal;
* an append may fail with the record on disk or not;
* a broker call may fail in transport with its effect made or not;
* the venue executes, closes and refuses at any time, and its evidence waits in
  the adapter until `poll` *drains* it, after which only executions can be read
  again;
* an execution may be reported after the closing status of its order, because the
  bridge waits for the commission;
* a bridge that restarts has forgotten what it reported.

The other components are hard for other reasons: two threads and a process share
two bounded pipes (strategy worker); writers race on three unique keys and lose
their connections (event store); a challenge outlives the state it was opened in
(identity); a file may end in half a line (evidence files); divisions lose what
the parts must still sum to (planners, lots).

The hazards in `PROJECT.json` place each of these at its line.

## 2. The modules

| Module | Models | How |
|---|---|---|
| `OrderLifecycle` | one order record under broker evidence | pure operators: `Accepts` (the error returns of `apply_broker_event`) and `Resolve` (the record it leaves), with one `Can…`/`After…` pair per event |
| `PaperBroker` | `PaperBrokerAdapter` and the venue behind it | `venue` (what IBKR holds), `executions` (all it made), `emitted` (what the running adapter reported), `pending` (the queue `poll` drains) |
| `PaperOms` | `PaperTradingService` over that broker | `oms` (memory), `disk` (last journal record), `healthy`, `connected`, `call` (how far the running operation has come) |
| `OrderLedger` | what the OMS promises | orders booked, sent once, executions entered once, nothing ever taken back |
| `LiveKernel` | `LiveTradingService` over the same broker | `live` (memory), `disk` (last audit record), `window` (what the activation allows now), `lapsed` (approvals whose time is over), `call` |
| `CanaryLedger` | what the live kernel promises about its mandate | approvals given, spent on one order each, orders sent once, no more than the canary allows |
| `ComboOrders` | a combination order in either service | `combo`, `comboDisk`, the route, and evidence from an adapter that may say anything; `kernel` chooses whose rules apply |
| `Identity` | one account of the identity service | the user record, its lockout, open challenges, stored sessions, a clock in TOTP steps |
| `EventStore` | `append_event` against PostgreSQL | one step per statement; the database (READ COMMITTED, unique indexes, advisory locks) is external |
| `Backtest` | the replay engine under its two drivers | one step per bar, headline or corporate action; the strategy may ask anything |
| `StrategyWorker` | the engine's end of a worker and the worker's loop | one step per queue, pipe or channel operation of each thread |
| `EvidenceFiles` | the four evidence files | `file` (whole lines, and text after the last newline), one handle per process; `format` chooses the rules |
| `Accounts` | `AdvancedBacktestAccount` and its `TaxLotBook` | one step per call the command line makes; amounts are counts of the smallest decimal |
| `ExecutionPlans` | the planners and the router | one step per request; the algorithms are functions |
| `AccountEvidence` | corporate actions, reconciliations and recorded sessions of either service | the venue's account and the service's books as two records that only evidence joins; `service` chooses whose rules apply |
| `AccountBooks` | the books of a LIVE account and the limits that read them | `books` (memory), `record` (journal), `made` (what the venue executed); one step per evaluation, execution, corporate action, restart |
| `TaxLots` | one side of a `TaxLotBook`, and decimals | functions that `Accounts` and `AccountBooks` share |
| `PortfolioRisk` | the limits of the PAPER service over working orders, marks and time | one step per submission (with its whole evaluation), assessment, fill, switch, restart |
| `Operations` | the operator workbench: approved limits, scheduled work, cockpit | one step per command, two for `complete-schedule`, between which anything happens |
| `IbkrBridge` | the gateway process between the transport of the OMS and IBKR | one step per callback taken, per request begun, sent or ended; IBKR and its socket are external |
| `Retention` | retention and privacy plans and their execution | one step per command; a plan's fingerprint is the plan, files and holds change in between |
| `ReleaseGate` | release manifests, signatures, the installation's configuration, entitlements, readiness | one step per command; a hash is what it is of, a signature holds its key |
| `OperatorRoutes` | the trading API: concurrent calls against the two services it holds | one step to authorize a call and one under the lock; both services as switches, orders and recorded operations |
| `Evaluations` | a research evaluation from the sources to a verified capsule | processes side by side, one step per file, line or worker; a digest is what it is of |
| `DesktopOrders` | the desktop's trading commands over its PAPER gateway | one step per command, per call of the venue, per event drained and per reply |
| `GapRepair` | the feed-quality monitor and the repair of a recording | one step per quote observed or batch applied |
| `ReferenceData` | versions, sessions and halts, account terms, pricing snapshots, conversion rates | functions of a document, a sequence of rows, and a question |
| `MarketInputs` | bars and corporate actions, headlines and sentiments, and the replay that shows them | one step per row that becomes known, per question asked of a document and per item shown |
| `MCPaperOms`, `MCLiveKernel`, `MCAccountBooks` | the instances TLC checks | definitions for `Orders`, `Qty`, `Approvals`, `Binds`, `Courses` |
| `MCPaperOmsFaults` | `PaperOms` with a history variable | `stopped`: the process has crashed or failed closed |
| `MCServices` | the instance of the components that share no state | each behaviour runs one of them, so the state space is the sum of theirs; they take turns with the same variables |
| `Sums_proofs` | lemmas about sums over finite sets | see section 5 |
| `PaperBroker_proofs` | lemmas about an order record and the broker, for either service | see section 5 |
| `PaperOms_proofs` | theorems about `PaperOms` | see section 5 |
| `LiveKernel_proofs` | theorems about `LiveKernel` | see section 5 |
| `Trading_proofs` | theorems about `EventStore`, `ComboOrders` and `DesktopOrders` | see section 5 |
| `Access_proofs` | theorems about `Identity`, `OperatorRoutes`, `StrategyWorker` and `IbkrBridge` | see section 5 |
| `Commercial_proofs` | theorems about `Retention`, `ReleaseGate`, `EvidenceFiles`, `Operations`, `AccountEvidence`, `PortfolioRisk` and `GapRepair` | see section 5 |
| `Services_proofs` | the same theorems about `MCServices`, which runs the components | see section 5 |

`PaperOms` EXTENDS `PaperBroker` EXTENDS `OrderLifecycle`; it instantiates
`OrderLedger` with `booked` = orders on disk, `sent` = orders the broker was asked
to submit, `executed` = the venue's executions, `entered` = executions on disk.
`LiveKernel` EXTENDS `PaperBroker` too and instantiates `CanaryLedger` with the
approvals, spent approvals and orders of the last audit record. The two services
share the order record, the effect of broker events and the order part of
reconciliation (`OrderLifecycle`, `PaperBroker`), as their code repeats it.

State and actions of the paper service against the code:

| Model | Code |
|---|---|
| `SubmitIntent`, `RefuseIntent` | `submit_intent_as` up to its `persist` of PENDING_SUBMIT, or of the refusal |
| `CallSubmit`, `RecordSubmit` | `broker.submit` and the match on its answer |
| `CancelOrder`, `CallCancel`, `RecordCancelFailure` | `cancel_order_attributed`: persist, call, UNKNOWN on error |
| `ReplaceOrder`, `RecordReplace`, `RecordReplaceFailure` | `replace_order`: call, then persist |
| `Synchronize`, `ApplyEvent`, `FinishDrain` | `synchronize`: drain, apply or roll back each event, persist each |
| `Reconnect`, `Reconcile`, `SnapshotLost`, `LoseSession` | `reconnect_and_reconcile`, `reconcile` and their transport errors |
| `ExplainIncident`, `ActivateKillSwitch`, `DeactivateKillSwitch` | the operations of those names |
| `Restart` | the process dies anywhere; `open_durable` + `restore` |
| `VenueExecute`, `EmitExecution`, `VenueClose`, `VenueRejectCancel`, `VenueModify`, `VenueReplace`, `VenueRejectReplace` | what a venue does on its own and the callbacks that queue it |

State and actions of the live kernel, all in `core/live/src/lib.rs`:

| Model | Code |
|---|---|
| `RegisterApproval`, `Lapse` | `register_approval`; an approval passes its `expires_at` |
| `Expire` | the activation passes its `expires_at` |
| `SubmitIntent`, `RefuseIntent` | `submit_canary_intent` up to its `persist`; `evaluate_risk` |
| `CallSubmit`, `RecordSubmit` | `transport.submit` and the match on its answer |
| `RecordShadow` | `record_shadow_intent` |
| `CancelOrder`, `CallCancel` and `ReplaceOrder`, `CallReplace` | `cancel_order`, `replace_order`: both persist before the call |
| `RecordSent`, `RecordFailure` | their `persist` after the call, or UNKNOWN and a lost session |
| `Connect`, `Reconnect`, `LoseSession` | `connect`, `reconnect_and_reconcile`, and their transport errors |
| `Synchronize`, `ApplyEvent`, `FinishDrain`, `Reconcile` | `synchronize`, `apply_broker_event`, `apply_accounted_fill`, `reconcile` |
| `ExplainIncident`, `SwitchKill` | `explain_incident`, `activate_kill_switch`, `deactivate_kill_switch` |
| `Restart` | the process dies anywhere; `open_durable` + `restore` under a new activation |

`submits`, `late` and `recovered` are history variables: no action reads them.

The other components:

| Model | Code |
|---|---|
| `ComboOrders`: `SubmitCombo`, `AnswerSubmit`, `CancelCombo`, `AnswerCancel` | `submit_combo_intent_as`, `submit_canary_combo_intent`, `cancel_combo_order`: journal, call, record |
| `ApplyStatus`, `ApplyGroup`, `ReplayGroup`, `RefuseStatus`, `RefuseGroup` | `apply_combo_event` and the rollback `synchronize` makes when it fails |
| `ExplainAnomaly`, `RestartCombo`, `ReconnectCombo` | `explain_incident` (LIVE), restore, a new session |
| `Identity`: `LoginByPassword`, `OpenChallenge`, `RefuseLogin` | `login` in its three outcomes |
| `CompleteTotp`, `CompleteRecoveryCode`, `RefuseCode`, `DropChallenge` | `complete_login` |
| `SetTotpSecret`, `RotateRecoveryCodes`, `ChangePassword`, `SetRoles`, `DisableUser`, `RevokeSession` | the operations of those names |
| `EventStore`: `Begin` … `Commit` | the statements of `append_event` in order; `AfterConflict` and `RecoverKey` its path after a unique violation, `LoseConnection` a failure at any of them |
| `Backtest`: `ReplayBar`, `ReplayHeadline`, `ReplaySentiment` | `ReplayEngine::on_bar` and the news paths: fill working orders, call the strategy, gate and place its intents |
| `ApplySplit`, `PayDividend`, `Complete` | `BacktestRunner`'s corporate actions on engine, ledger and lots together |
| `StrategyWorker`: `Request`, `Receive`, `NoAnswer`, `DropWorker` | `ProcessStrategyWorker::request`, its timeout and its drop |
| `WriteFrame`, `WriterEnds`, `ReadFrame`, `HandOver` | the two threads of `worker_io.rs` |
| `Announce`, `TakeRequest`, `AnswerRequest`, `BreakFrame`, `Exit` | the loop of `worker.py` |
| `EvidenceFiles`: `Open`, `WriteRecord`, `FinishRecord`, `Close` | `open`/`verify`, and `append` as its two writes |
| `CutRecord`, `LeaveUnended` | the process stops inside a write or between the two |
| `Accounts`: `ApplyFill`, `MarkBar`, `Split`, `CashDividend`, `AccrueFinancing`, `SettleDelisting` | the methods of `AdvancedBacktestAccount`, as `advanced_account_projection` calls them |
| `ExecutionPlans`: `PlanSchedule`, `PlanWheel`, `PlanRoute` | `plan_execution`'s algorithms and `smart_route_with_capabilities` |
| `AccountEvidence`: `ApplyAction` | `apply_corporate_action` of both services, `apply_split`, `apply_live_split` |
| `Reconcile`, `Explain`, `RecordSession` | `reconcile`, `explain_incident`, `record_paper_session`, `record_live_session` |
| `Place`, `Book`, `CloseOrder`, `Connect`, `RestartAccount` | what the OMS does to the same books; `ExecuteAtVenue`, `ExpireAtVenue`, `Announce`, `Settle` are the venue |
| `PortfolioRisk`: `Submit`, `Assess` | `submit_intent_as`, `submit_combo_intent_as` with `evaluate_risk`, `evaluate_combo_risk` and `evaluate_portfolio_risk_with_candidates`; `evaluate_combo_risk` by itself |
| `Fill`, `EndOrder`, `SwitchOn`, `SwitchOff`, `RestartRisk` | booked executions and closings, the kill-switch operations, `restore` |
| `Operations`: `BeginCompletion`, `FinishCompletion` | `complete-schedule` before and under the lock of the journal |
| `RecordEntry`, `TearJournal`, `ReplaceConfiguration` | the journal and typed record commands; an append cut short; a new document |
| `IbkrBridge`: `TakeCallback`, `Upstream`, `LoseConnection` | the API reader thread: `openOrder`, `orderStatus`, `execDetails`, `commissionReport`, `error`, the end callbacks, `nextValidId`; errors 1100 and 1102; `connectionClosed` |
| `BeginSubmit`, `FinishSubmit`, `BeginCancel`, `SendCancel` | `submit` up to its wait and after it; `cancel` up to and with what it sends |
| `BeginSnapshot`, `BeginReconnect`, `RefreshExecutions`, `FinishRefresh`, `GiveUp` | `snapshot`, `reconnect` with `_connect` and `_refresh_executions`, and the deadline of `_wait` |
| `RestartBridge` | the transport's `request` that found no answer, its `restart` and the `reconnect` after it |
| `Retention`: `PlanExpired`, `PlanErasure`, `Execute`, `WriteReceipt`, `LoseReceipt` | `plan_expired_retention`, `plan_privacy_erasure`, `execute_retention_candidate` and the receipt `retention_execute` publishes after it, or does not |
| `ReleaseGate`: `Record` | `provision_tenant`, `record_subscription` |
| `BuildManifest`, `Sign`, `Configure`, `DeclareReady` | `build_release_manifest`, `sign_release_manifest`, a new `SelfHostConfig`, `self_host_readiness` |
| `OperatorRoutes`: `Login`, `Revoke`, `TimePasses`, `Restart` | `begin_operator_login` to `complete_operator_login`, `revoke_operator_session`, the clock, a new process with `main` |
| `Authorize`, `Refuse` | `authorize` at the head of each handler; the health check under the lock |
| `OperateKillSwitch` | `operate_paper_kill_switch`, `operate_live_kill_switch` |
| `RefuseOrder`, `RejectOrder`, `BookOrder`, `CancelPaperOrder` | `submit_paper_order` and `cancel_paper_order` with the service's operation under the lock |
| `ReconcilePaperAccount`, `ApplyPaperCorporateAction` | `reconcile_paper_account` (with `reconnect` or without), `apply_paper_corporate_action` |
| `Evaluations`: `StartWorker`, `RunStrategy`, `Publish`, `OpenStore`, `RecordRun`, `CutRun` | `run_python_evaluation` with `ProcessStrategyWorker`, the immutable outputs, `FileExperimentStore` |
| `BuildBundle`, `BindEvaluation`, `ReplayAndSeal`, `CreateDirectory`, `WriteMember`, `FailMember`, `CutMember` | `package_capsule` and `write_capsule` |
| `SignCapsule`, `WriteSignature`, `VerifyCapsule` | `sign_capsule`, `verify_capsule`, which replays again |
| `EditSource`, `EditConfiguration`, `WriteLock`, `CopyMember`, `EndProcess` | what authors, operators and the operating system do meanwhile |
| `DesktopOrders`: `SubmitOrder`, `SubmitCombination`, `ClosePosition`, `CancelOrder` | the Tauri commands and the gateway's methods up to the journaled order |
| `AskVenue`, `AskCancel`, `DrainEvent`, `Reply` | the in-process venue's `submit` and `cancel`, `synchronize`, the receipt given |
| `Start`, `Stop`, `Tick` | `PaperGateway::open`, the end of the process, time |
| `GapRepair`: `Observe`, `Repair` | `FeedQualityMonitor::observe`, `repair_quote_gaps` |
| `MarketInputs`: `Learn` | a row is added to the operator's files |
| `Ask` | `BarBuilder::build` with `adjust_bars_for_corporate_actions`, `ReplayNewsFeed::from_headlines`, `load_runtime_configuration` with `MarketPreconditions::validate`, `FxPricingBook::midpoint_at`, `FxBook::convert`, of one document |
| `Begin`, `ShowNews`, `ShowBar` | the replay of a feed together with a file of bars: `process_news_headline`, `process_news_sentiment` and `replay_bar` as far as the clock and the log go (`Backtest` has the rest) |

### Abstractions

* One instrument and one account; every lot costs one unit of cash and carries no
  fee, so cash is the initial cash less the position. The checks of an intent that
  depend on the intent alone (size, notional, price collar, tick, lot size, route)
  are passed by every member of `Orders`. Daily loss, drawdown and exposure depend
  on marks and are modelled in `PortfolioRisk`.
* The lots of an order execute in sequence; an execution is named by its order,
  first lot, size and version, which is what makes it distinct, as `execution_id`
  does. Broker-native identities are numbered per order.
* An open incident is kept as the subject it is about. The code asks only whether
  an unexplained one exists and reuses it when the issue recurs; several issues
  of one subject are explained together.
* `last_reconciliation_clean` is tracked on the routes that require it.
* The broker module is the envelope of both adapters: it may do what either can.
  The bridge does not support replacement (`Replacement`), the deterministic
  adapter does.
* `SubmitIntent` on an order that exists answers from stored evidence and changes
  nothing, so it is not an action. An operation refused by a guard changes nothing
  either.
* `Restart` is enabled only when `restore` accepts the last record. A process that cannot
  start takes no further step; `RestoresUnlessSoldOut` says that this happens only after a
  sale of the whole position, whose emptied bucket of tax lots `restore` refuses
  (section 4). The other modules with a restart, `AccountBooks` apart, let a service that
  has sold out start again: they show more behaviours than the code has, not fewer.

In the live kernel, further:

* The intents are purchases, so the position limit is the ceiling on deployed
  capital. Marks, daily loss, the rate limit, fees and short exposure are left
  out, combinations, corporate actions and sessions are in modules of their own; every check of an intent
  or an approval that depends on it alone is passed.
* `window` is the activation as seen when an operation begins. Time may pass
  between operations and not inside one: the code reads the clock once, from its
  caller.
* The live transport is supplied at deployment and is not in the repository; the
  broker is the envelope of `PaperBroker`. `session` is the transport's own
  connection, `connected` what the service believes of it: `cancel_order` asks
  only the first.
* The kill switch is one that covers every order.

In the others:

* `ComboOrders`: prices, fees and the risk gate are left out; the executions of one
  receipt stand for those of its legs.
* `Identity`: a secret is a number that grows when it is replaced and a code is the
  secret and the step it was made from; a tick of the clock is one TOTP step.
* `EventStore`: `claim_outbox` and `mark_outbox_delivered` have no action, because
  the database refuses their statements (section 4).
* `Backtest`, `Accounts`, `AccountBooks`, `ExecutionPlans`: a decimal is an integer of a smallest
  unit, and a product or quotient drops what lies below, as `Decimal` does.
* `EvidenceFiles`: a record is its entry and the history before it, which is what a
  hash chain commits to: equal hashes are equal histories.
* `AccountEvidence`: complete fills of one instrument; a split scales marks and tax
  lots in the same call, which `Accounts` models. A report is known to the caller by
  its identity, and a report lost with a restart leaves its identity to the next.
* `PortfolioRisk`: a single order is an order of one leg; legs fill together. Of the
  aggregate limits, gross and net exposure, the strategy buckets, daily loss,
  drawdown and rate are modelled; leverage, concentration, margin and the other
  buckets, and the checks of an intent by itself, are not.
* `AccountBooks`: one instrument; orders fill or expire, and the commands of an order are
  in `LiveKernel`, so only the checks of an order against the books are here (position,
  cash, gross exposure, daily loss, drawdown, margin), as `evaluate_risk` makes them.
  Executions reach the service in the order the venue made them. A drained batch that
  fails is `PaperOms`' and `LiveKernel`'s concern.
* `IbkrBridge`: orders of this client only; positions, cash and foreign orders are asked
  for and waited for like the lists of orders. `poll` hands over the events put so far
  and changes nothing else, so `events` holds all that was ever put. `memo` is history
  (and the bounds); no action decides by the rest of it, except that the OMS does not
  submit again an order it was told is rejected. IBKR speaks of its own connection (1100,
  1102) only to a client it has greeted with `nextValidId`; a listing is in the order of
  order identities, or of executions.
* `Retention`, `ReleaseGate`: instants are what operators say they are; the sizes and
  formats a document is validated for are left out, since a document that fails is refused
  and changes nothing.
* `OperatorRoutes`: a service is its switches, the state and submitter of each order and
  the operations on record; of the broker's answers an acknowledgement and a lost session
  are told apart, the rest is `PaperOms`. A combination order takes the same path as an
  order, and a corporate action is a split. A session ends a tick after the login; a call
  that is denied changes nothing, so it has no action.
* `Evaluations`: a run is the sources, the configuration, the runtime and the data it read,
  and, for sources that draw on something else, the outcome drawn. What makes a source
  deterministic is its author's business; the code must notice when it is not.
* `DesktopOrders`: prices, sides and ratios are signed quantities per instrument; the checks
  of a request that depend on it alone are `admissible`. The model's `refused` stands for
  the limits that `PortfolioRisk` models.
* `GapRepair`: one instrument, since repair never relates the quotes of two.
* `MarketInputs`: a document is the rows in one order, with one of them twice or not; all
  kinds of rows share it, though the code reads them from files of their own. A headline is
  the instruments its text names; polarity and confidence, functions of the text alone, are
  left out. Of an instrument's terms the multiplier stands for all; delistings and financing
  are both `LIFECYCLE`. Decimals are scaled integers, and those of the instance divide
  where a quantity must.

## 3. What is checked

| Run | Instance | Properties | Shows |
|---|---|---|---|
| `order` | one order of 2 lots, replacement, clean reconciliation required, CRASH + JOURNAL + DUPLICATE; 580 thousand states | `TypeOK`, `JournalIsCurrent`, `FillsAreFaithful` (`FillsMatchExecutions` and `FilledIsComplete`), `SubmittedOnce`, `NoOrphanAtVenue`, `RestoresUnlessSoldOut`, `ReopenedOnlyByExecution`, `CommandsAreJournaled`, `FailClosed`, `ImplementsLedger` | an order through every operation and failure |
| `exposure` | two buys of 2 and 1 lots with cash for 2, CRASH + TRANSPORT; 2.4 million | `VenueWithinCash`, `AcceptedOnlyWhenCleared` | limits hold at the venue, not only in the OMS's books |
| `sides` | a buy of 2, a sale of 1, CRASH + BRIDGE_RESTART + DUPLICATE; 1.2 million | `SidesStayBooked` (`VenueWithinLimits`, `FillsMatchExecutions` and `RestoresUnlessSoldOut`) | never both sides, never a sale of what is not held; accounting under lost and duplicated evidence; the position is sold out, which alone keeps a record from being restored |
| `faults` | one order, CRASH + JOURNAL + TRANSPORT, fair; 114 thousand | `SubmissionResolvesUnstopped`, `ExecutionsReachJournal` | unless the process stops, no lost answer leaves an order PENDING_SUBMIT; no execution is lost for good |
| `live_commands` | one order of one lot, one approval, replacement, JOURNAL + TRANSPORT; 394 thousand | `TypeOK`, `JournalIsCurrent`, `BooksAreAccounted` (`MandateIsAccounted` and `FillsMatchExecutions`), `JournalRulesCommands` (`CommandsAreJournaled` and `HaltsOnAuditFailure`), `ImplementsCanaryLedger` | a live order through every operation and failure: one approval, one order, journal first |
| `live_mandate` | three orders of one lot with an approval each, room for two orders and for capital of 1; 501 thousand after symmetry | `VenueWithinBudget` (`VenueWithinMandate` and `VenueWithinCapital`), `IncidentsBind` (`BookedOnlyWhenCleared` and `OverdraftIsIncident`) | the canary's number and capital hold at the venue through crashes, expiry and late evidence |
| `services` | the twenty components of `MCServices`; 820 thousand | see the next table | each component from its own initial states |
| `reconnect` | one order, TRANSPORT, clean reconciliation required | `ReconnectReconciles` (violated) | section 4 |
| `crashed_submit` | one order, CRASH, fair | `SubmissionResolves` (violated) | section 4 |
| `reopened` | one order, no faults, fair | `WorkingOrderResolves` (violated) | section 4 |
| `live_unreconciled` | two orders with an approval each | `RecoveryReconciles` (violated) | section 4 |
| `record_reopens` | a purchase and a sale of the same quantity | `EveryRecordReopens` (violated) | section 4 |

The properties of `services`, and the states each component has:

| Component (states) | Properties | Shows |
|---|---|---|
| `ComboOrders` (1 thousand) | `CombosAgree` (with `RefusedEvidenceBlocks`) | a group is booked whole and once, and a restart accepts the status and fills of every journaled combination; refused evidence keeps new orders away through restarts and later evidence |
| `Identity` (145) | `AccountIsGuarded` | a one-time or recovery code grants one session and only under the credentials it belongs to; guesses before a lockout are bounded, and a session that authorizes was made under the credentials in force |
| `EventStore` (83) | `AppendsAreHonest` | sequences have no gap and no duplicate, keys are used once, and every answer given to a caller is true, through races and lost connections |
| `Backtest` (25) | `ReplayIsFaithful` (`BooksAgree`, `NoLookAhead` and the next row) | engine, ledger, lots and cash agree after every bar and corporate action; no fill comes from a bar the strategy had already seen |
| `Evaluations` (26) | `ReplayIsFaithful` (`PublicationAgrees`, `StoreKeeps`, `SealedReproduces`, `VerifiedWasSigned`) | whatever is edited, copied, cut short or run side by side: published files are of one run, the store keeps what it recorded, a directory that reads as a capsule reproduces its receipt, and what verifies under a trusted key is what its holder signed |
| `StrategyWorker` (0.5) | `WorkersAnswerAndEnd` (`AnswersArePaired` and `ThreadsEnd`) | an answer is never taken for another request's; both threads end once the worker is dropped |
| `EvidenceFiles` (0.7) | `EvidenceSurvives` | what an append reported is recorded, and at most one entry whose answer was lost; an operations journal or commercial ledger that verified verifies again after complete appends (the other two do not, section 4) |
| `Accounts` (17) | `MarginBooksAgree` | lots and position agree; realized P&L of lots and of the account differ by charges only |
| `AccountBooks` (64) | `BooksSurvive` (`BooksBalance`, `RecordsReopen` and `LimitsKept`) | cash, position, lots and shares are what the executions and actions made of the deposit, through crossing executions, splits, failed appends and restarts; the peak and a day's baseline survive restarts, and nothing is approved past the losses they allow; a record opens again but for the finding of section 4 |
| `ExecutionPlans` (4) | `PlansAreSound` | slices sum to the parent and lie near their share; the route is the cheapest there is |
| `AccountEvidence` (73) | `AccountIsAttested` (`BooksConverge`, `SharesFollow` and `DaysAreEarned`) | whatever order executions, settlements, applications and restarts came in, books and venue meet once both sides are complete, and only a split takes the strategies' shares apart from the position, by less than a unit for each share it rounds; a clean session has a clean report made after its close behind it, and none a caller was told of is lost |
| `PortfolioRisk` (105) | `LimitsRemember` (`ExposureBounded`, `LimitsHold` and `OverlapsBind`) | no way the approved orders can still fill passes a position, gross, strategy or net limit; peak, baseline, rate and every covering switch bind across restarts and assessments, and releasing one of two switches over an order leaves the other |
| `Operations` (38) | `WorkbenchIsHonest` (`ReadersNeverFail`, `DoneOnce`, `DashboardsAgree`, `OneApprovalOneLimit`) | whatever operators record, every document that loads can still be projected; work is recorded once a day and document; a dashboard calls for work exactly while it is not done; one approval admits one limit |
| `IbkrBridge` (80) | `BridgeIsFaithful` (`PlacedOnce`, `NothingExecutedIsPlaced`, `RejectedNeverWorks`, `RefreshIsComplete`, `SnapshotIsCurrent`, `OverStaysOver`, `EndsAreReported`, `CancelsAnsweredOnce`) | whatever the order of callbacks, timeouts, lost connections and restarts: a process places a client order once; an order called rejected never works; a reconnect or snapshot that succeeds has reported every execution made before it, each once; a snapshot is what IBKR had; ends are neither swallowed nor taken back |
| `Retention` (11) | `DeletionsAreReviewed` | whatever files, holds and plans change after a review, a file is deleted only with the contents and free of the hold a confirmed plan was reviewed with, of that plan's tenant and when the law allows; a receipt is that of a deletion |
| `ReleaseGate` (28) | `ReleasesAreEarned` (`ReadinessIsEarned` and `EntitlementIsStable`) | what is declared ready runs what the trusted key signed and the configuration names, for a tenant that is paid up in the ledger cited; an entitlement at an instant changes only with evidence of that tenant effective by then |
| `OperatorRoutes` (83) | `CommandsAreAccountable` (`HaltsAreBinding`, `RecordsAreAuthorized`, `OrdersAreSignedOnce`) | however calls overlap, sessions end, appends fail and the process restarts: a halt that was answered stands, in the journal and in a service that serves, until a release is journaled, and no order it covers is sent meanwhile; what is on record names an operator who had a session and the permission at the time on record; an order is sent once and answered to its submitter only |
| `DesktopOrders` (13) | `CommandsAreAccountable` (`VenueAgrees`, `FillsAreAttested`, `ReceiptsStand`) | between commands service and venue hold the same orders and positions; an order fills once, at the prices its own request attested and within its limit; a close leaves nothing; what a receipt called final stays so over restarts |
| `GapRepair` (4) | `GapsAreKnown` | every missing sequence is declared or repaired; two repairs are one |
| `MarketInputs` with `ReferenceData` (17) | `ReplayIsFaithful` (`OrderIsImmaterial`, `AnswersLookBack`, `BarsSummarize`, `ValueIsKept`, `ReferenceIsOne`, `PricesAreFresh`, `FeedsReplay`) | a document answers alike in whatever order it was written, or is refused for what it says twice; what becomes known later changes no answer as of an earlier instant and no bar of another bucket; every trade is in one bar; splits and dividends keep the value of a bar but for what division drops; one version of an instrument applies and the account values by it; a price used was known and young enough; an accepted feed replays to its end with nothing shown early, and its log gives the bars back |

Faults are the constant `Faults`: CRASH (death and restart at any step), JOURNAL
(an append fails, its record on disk or not), TRANSPORT (a broker call fails, its
effect made or not), BRIDGE_RESTART (the adapter loses its queue), DUPLICATE (a
drained batch repeats an event).

In `LiveKernel`, CRASH and BRIDGE_RESTART are always on: `Restart` is always
enabled and a new session may have lost its queue.

`VenueWithinCash`, `VenueWithinLimits` and `VenueWithinCapital` except states in
which the venue has ever executed an order the OMS had recorded as closed (`late`): the reservation of
a closed order is released, and an execution that surfaces afterwards can exceed
the limits. That is how the code decides, and `late` makes the exception exact.

**Bounds.** `MaxVersion` = 2 broker identities per order: an original and one
replacement, which is enough for a late acknowledgement, a late execution and a
second replacement request against an outdated identity. `MaxPending` = 1: the
venue adds no evidence of its own while one item waits; answers and the executions
re-read by a reconnect are added regardless, so batches of several events arise,
and evidence left waiting while the OMS acts is what the interleavings need.
Two lots are the smallest order with a partial fill; two orders the smallest set
in which the exposure of one restrains another. `MaxPosition` = 2 and
`MaxOpenOrders` = 1 or 2; cash is 2, and 3 in `sides` so that the sale has a
position to sell. There are no other bounds; the instances are finite because an
order is submitted once.

The live kernel needs one lot and one order to reach every command, and three
orders with three approvals so that a canary of two refuses one; an execution of
a closed order then overdraws cash of 1. `MaxVersion` is 2 where it replaces.
With capital of 1 an UNKNOWN order keeps every other one out by its reservation
alone, so there `BookedOnlyWhenCleared` is put to the test by kill switches and
incidents only. `VenueCloses` names the closings the venue makes unasked. It is
EXPIRED or empty (a venue may always cancel what it was asked to cancel and refuse
what it was sent), and empty in the largest runs: an expiry ends an order just as
a cancellation does.

In `Services.cfg`: a combination of two legs with ratio 2:-1 and two units has a
partial group; four receipts allow a replay, a reuse and two groups. The clock of
`Identity` runs three ticks, past a lockout of two and a challenge of one, with two
guesses before a lockout. Two writers, ids, keys and aggregates with three calls
give each pair of collisions of `EventStore` and a retry of both. `Backtest` replays
four bars with two intents, a fill cap of one lot and one corporate action, enough
for an order that fills in part over a split. One frame fills a pipe of
`StrategyWorker`, three requests let an answer be late by two. `EvidenceFiles` has
two owners, three lines and two interruptions, the second in the file the first
left. `Accounts` takes three fills (open, add, close through zero) and one
corporate action, with prices that do not divide. `AccountBooks` has a purchase of 20 and one of 10 by two
strategies and a sale of 20, executed in chunks of 10 or at once, at prices 45 and 70 of a
whole of 20 with a fee of 21: the account gains and loses past each limit. `FourCourses`
splits the instance: a round trip over a split, two purchases over two days with a failure,
all three orders so that the sale crosses zero, and a split with a failure.
`ExecutionPlans` asks for
quantities around the number of slices; `GapRepair` receives three of seven quotes
and repairs twice.

`AllStudies` splits `MarketInputs` by what is looked up: two to five rows, learnt one by one,
and a question that is asked twice, in each order of the rows known and with each of them
repeated. Two answers are what a property needs to relate an order, or what was known
then, to another. Bars last two seconds, headlines come in half seconds, so that one
becomes available within a second, before a bar of the next.

`AccountEvidence` holds four units in lots of two, three of them one strategy's, so that
halving the position rounds both shares; an order of the other strategy buys two, one of the
first sells two. Actions are a split 2:1, one 1:2, and a dividend. `FourBounds`
splits the instance: both orders around one action, one order around two, one order
with two reconciliations and a tick past a close, and an action with two
reconciliations. `PortfolioRisk` has a purchase of two units of x by s1, a combination
that sells x and buys y for s2, and a sale of y for s2, over three price sheets of which
one makes the account lose all it has, so that only reducing orders may pass; each
limit refuses some order and admits others, and a day is one tick. Kill switches are for y
and for s2, which overlap on the combination and on the sale. `Operations`
has two operators, four instants over two days of three with the work due at the
second, two entries, and six documents of which three do not load: a limit approved
for another value, one that differs from the value approved, one approved by its
requester.

`Retention` has two files of one tenant and one of another, a deadline at the first and at
the second instant, one erasure request, two plans and one change of a file or a hold
between them. `ReleaseGate` has one artifact that may be built anew once, two key pairs of
one identity, and four ledger records: two tenants, a paid subscription and a suspension
that takes effect later under another plan, in any order of three.

`OperatorRoutes` has a risk manager who also trades, a trader without the right to release,
one order and one scope that covers it. `NineScenarios` lists which calls overlap, three at
most: a halt, a release and an order; the live switch; a submission with its retry and a
reconnect, with another operator's, with two cancellations; corporate actions. Two ticks
let a session end while a call waits for the lock, one restart comes at any point.

`Evaluations` has three sources (deterministic, one that draws, one with a dependency that
is not vendored), three datasets with and without corporate actions, two runtimes, two
processes, two capsule directories and one trusted key. `SixEvaluations` splits the
instance: two runs that publish and record side by side, edits around a run, packaging of
each source and dataset, interrupted packages, copies and a signature between two capsules,
two packages at once. `DesktopOrders` has two instruments, two price sheets and the seven
requests of `SevenAsks`; prices are good for one second; `FiveDesks` lets two or three of
them be given, up to four commands with one restart.

`IbkrBridge` has one client order and two order identities, enough for a second process
to place it anew. `FiveSessions` splits the instance by what can be asked and what IBKR
does: three requests among submissions and cancellations, with a callback under way when
IBKR adds another and one callback that comes again; three among submissions and
snapshots, so that one may follow two that timed out; a snapshot over an order of two
lots; one with a callback that comes again after it; and connections and processes that
end, with a submission and a reconnect.

Symmetry is used in `live_mandate` only, where the three orders are alike and each
is named by its own approval: `Alike` permutes orders and approvals together. That
run checks no liveness. The orders of `PaperOms` differ in size or side. In the
`PaperOms` runs and in `services` deadlock is not checked, since an operator may stop giving commands
and a venue may have nothing left to do; in `LiveKernel` it is, since a process can
always be restarted.

**Fairness** (`FairSpec`). `ServiceProgress`: an operation once begun runs on (it
is straight-line code). `OperatorDiligence`: the operator reconnects again and
again and restarts a process that failed closed; the service polls nothing by
itself, and the runbooks ask for both. `VenueProgress`: the venue ends every order
it works (the bridge sends DAY orders only) and reports what it executed.
In `services`, only the writer and the reader thread of the strategy worker are fair
(the operating system schedules threads); the worker process owes nothing.
`ExecutionsReachJournal` also assumes that faults cease, for a fault may otherwise
hit every attempt.

## 4. Where documentation and code part

* **A reconnect may end without reconciling** (`reconcile.rs:91`). If an event of
  the drained batch cannot be applied, `reconnect_and_reconcile` returns that error
  after marking the session connected. The roadmap says "Reconcile automatically
  after every reconnect" (`docs/06-delivery/03-roadmap-and-gates.md:54`).
* **A crash can strand a submission** (`submit.rs:142-144`). An order journaled as
  PENDING_SUBMIT that the venue never received stays so: a retry answers from the
  evidence, cancel refuses, reconciliation only records an incident. The documents
  say "Accepted intents resolve to a terminal state or explicit `UNKNOWN`"
  (`docs/05-quality-security/01-reliability-and-testing.md:5`).
* **A late partial execution reopens an order for good** (`broker_events.rs:87`).
  The order is PARTIALLY_FILLED, its closing evidence is spent, and it keeps cash
  and room reserved (`docs/03-capabilities/03-oms-and-execution.md:163`).
* **A live restart may trade before it reconciles** (`core/live/src/lib.rs`,
  `connect` and `submit_canary_intent`). After a restart with orders in the journal
  `connect` alone, which reads no evidence, suffices for the next canary order. The
  threat model says "recovery always starts disconnected and requires
  synchronization/reconciliation" (`docs/operations/01-foundation-threat-model.md`).

* **A position sold out keeps the journal from opening again**
  (`core/accounting/src/lib.rs:967`, and 1111 for a short position covered). `dispose`
  leaves the instrument's bucket behind without a lot, `snapshot` puts it on record, and
  `recover` refuses it: "persisted tax lot book cannot retain an empty instrument bucket".
  A PAPER or LIVE service that has sold a position out cannot be restarted
  (`service/persistence.rs:506`, `core/live/src/lib.rs:4665`), unless it bought the
  instrument again before it stopped; `apply_split` alone removes an emptied bucket. `recover` says it
  "Restores a book from an exact prior snapshot, validating every invariant a real
  acquire/dispose sequence would have enforced" (`core/accounting/src/lib.rs:1225`).
  `RecordsReopen` and `RestoresUnlessSoldOut` except this state and no other.

Further observations made while modelling. The models do what the code does, and
the properties state the exceptions these make:

* The PAPER, LIVE and operations journals write a record and its newline in two calls
  (`core/paper/src/journal.rs:182-186`, `core/live/src/lib.rs:1841-1845`), and the
  first two open a file whose last line has none. A process that stops between the
  calls leaves such a file; the next append shares the line, and the open after it
  refuses the journal. `LedgersVerifyAgain` therefore speaks of the operations
  journal and the commercial ledger. `FileEventStore` and `FileExperimentStore`
  append in the same way.
* A split scales each strategy's share by itself (`live/src/corporate_actions.rs:281`), so
  after one that rounds the shares can fall short of the position, which
  `apply_strategy_attribution_fill` says they always equal; the rest is "unattributed".
  `BooksBalance` bounds it by one unit a split and further strategy, `SharesFollow` says that
  nothing but a split brings it about and bounds what each one does.
* `evaluate_risk` takes in the mark, the peak and the baseline before it refuses a stale
  observation (`core/live/src/lib.rs:3125-3165`); the error returns without a record, so
  a restart forgets them. `LimitsKept` therefore speaks of what was journaled.
* `provision_tenant` (`core/commercial/src/lib.rs:392`) accepts a tenant a second
  time, after which `provisionings` refuses the ledger it reads; the property
  excepts that.
* `settle_delisting` (`core/backtest/src/lib.rs:1230`) closes the position but not
  the tax lots kept beside it; `LotsFollowPosition` excepts a delisted account.
* Participation planning (`core/execution/src/algorithms.rs:306`) skips a window
  without volume, and the children after it move forward by a window.
* `AdvancedBacktestAccount::apply_fill` closes lots before the opening part of the
  same fill may be refused. The command line calls it on a copy only.
* `claim_outbox` and `mark_outbox_delivered`
  (`adapters/persistence/postgres/src/lib.rs:379-388, 414-415`) join two words of
  their statements across a continued line; nothing calls them. A retry of an
  append that races itself under the same event id ends in a hard error.
* `smart_route_with_capabilities` fills the cheapest quotes first and can leave a
  remainder below the minimum of the next one; `RoutesAreBest` is stated for books
  without that.
* `execute_retention_candidate` (`core/commercial/src/lib.rs:1089`) does not look
  again at holds set since the plan was made; the runbook leaves that to the operator. It
  removes the file before `retention_execute` publishes the receipt, and a command that
  stops in between cannot be run again: the file is gone (`LoseReceipt`).
* An open second-factor challenge outlives a change of password or roles
  (`core/identity/src/lib.rs:498`).
* `possible_concentration_bps` (`core/risk/src/evaluate.rs:23`) is documented as the
  largest concentration under any subset of working fills, and is not when a working
  order reduces another instrument.
* The net bound (`apply_working_bounds`) counts the candidate as filled: an order that
  offsets working orders may be approved and then remain open while they fill, with
  net exposure over the limit. `ExposureBounded` states the net limit for the fills
  that complete the approved order.
* `evaluate_combo_risk` says it leaves the OMS untouched, and moves marks, peak and
  daily baseline in memory without journaling them; a restart forgets them.
* A corporate action is stated against the quantity held when it was announced. An
  execution booked before the action is applied makes its notice inapplicable, and the
  books differ from the venue until the operator states it anew.
* The workbench has no clock of its own: a completion that speaks of an earlier
  instant than the recorded one may record the work of a day a second time, which
  `DoneOnce` admits.
* Scheduled work that was missed before midnight is not due again until its hour the
  next day, and a completion under one document does not count under another.
* In the bridge (`python/ibkr-gateway/src/follon_ibkr_gateway.py`):
  `normalize_order_state` (line 911) calls the cancellation of a partly executed order
  PARTIALLY_FILLED, so its end is never an event; `EndsAreReported` excepts it.
  The comment at line 878 says that late callbacks never populate a later snapshot:
  request identities ensure it for cash and executions, but `openOrderEnd` and
  `completedOrdersEnd` have none, and those of a snapshot that timed out end the wait of
  the next one, which `SnapshotIsCurrent` excepts (`disturbed`).
  A snapshot clears the table, so a status that comes late after it may announce an end
  again (`OverStaysOver`); `openOrder` may relist an order that is over, and lists one
  before `orderStatus` does, which then puts no ACKNOWLEDGED event.
  `commissionReport` does not notify, so a refresh that waits for a commission alone
  wakes at its deadline or at the next callback.
  A new process that has not yet heard of an order places it again if asked; the OMS
  never asks (`SubmittedOnce`). The bridge keeps one state for both, so that the end
  of one may answer REJECTED while the other works (`RejectedNeverWorks` excepts it).
* The handlers of the trading API authorize and take the time before they wait for the lock
  (`services/trading-api/src/main.rs:254`). A release authorized before a newer activation
  and still waiting undoes it, an operation of a session that has since been revoked is
  carried out, and recorded times need not follow the order of the journal;
  `RecordsAreAuthorized` says what remains. Sessions are kept in memory, so a
  restart ends them all.
* `open_durable` marks the session of a restored record disconnected
  (`core/paper/src/service.rs:169`), and already the first start journals a record
  (line 178). The desktop has no command that reconnects, so from the second start on it
  refuses every order, cancellation and close, while `trading_command_status` still reports
  the route configured. Its delivery audit says it "actually submits, cancels, and closes
  real PAPER orders" (`docs/06-delivery/14-master-plan-conformance-audit.md:377`).
  A retry of a single order is recognized within the second of its decision only: the
  decision time is taken anew, and the stored order must equal the request; a
  combination looks up its own. Execution numbers of the in-process venue begin at one in every
  process.
* `BarBuilder::build` (`core/market-data/src/lib.rs:78`) stamps a bar with the start of its
  bucket, and the replay shows it at that instant: a headline that becomes available within
  the bucket follows a bar that already holds the trades after it, and an action that takes
  effect within it leaves the whole bar, trades after the action included, unadjusted.
  `FeedsReplay` and `ValueIsKept` go by the stamp.
* Only tests call `adjust_bars_for_corporate_actions`, `validate_point_in_time_universe` and
  the loop that merges a feed with bars.
* `FxBook::upsert` (`core/accounting/src/lib.rs:196`) keeps the rate of a pair that was
  declared last even if it was observed earlier, and `convert` does not turn to a fresh
  inverse rate when the direct one is stale; `OrderIsImmaterial` excepts conversions.
* The default account of a backtest refuses an instrument of two versions, while the declared
  one takes them and values by the multiplier of the version declared last, whichever
  applies (`apps/cli/src/backtest.rs:2159`); `ReferenceIsOne` speaks of versions that agree.
* `record_live_session` (`core/live/src/lib.rs:2964`) compares a retry with the audit
  head that recording the first call has changed, so its idempotent answer is never
  given.

## 5. What is proved

For any finite set of orders, any quantities, any limits and bounds and any set of
faults, from `BrokerAssumption`, `OmsAssumption`, `LiveAssumption` (the types of the
constants) and `FinitelyManyOrders` (a sum over the orders must exist; a process
holds finitely many):

| Module | Theorem | Property |
|---|---|---|
| `PaperOms_proofs` | `TypeCorrect` | `TypeOK` |
| | `JournalCurrent` | `JournalIsCurrent` |
| | `NeverResubmitted` | `SubmittedOnce` |
| | `NoOrphan` | `NoOrphanAtVenue` |
| | `OnlyClearedAccepted` | `AcceptedOnlyWhenCleared` |
| | `JournaledCommands` | `CommandsAreJournaled` |
| | `FailsClosed` | `FailClosed` |
| | `OmsImplementsLedger` | `ImplementsLedger` |
| | `FillsFaithful` | `FillsAreFaithful` |
| | `JournalRestorable` | `RestoresUnlessSoldOut` |
| | `EndedReopensByExecution` | `ReopenedOnlyByExecution` |
| | `CashCoversVenue` | `VenueWithinCash` |
| | `SidesBooked` | `SidesStayBooked` |
| `LiveKernel_proofs` | `TypeCorrect` | `TypeOK` |
| | `JournalCurrent` | `JournalIsCurrent` |
| | `BooksAccounted` | `BooksAreAccounted` |
| | `MandateBindsVenue` | `VenueWithinMandate` |
| | `IncidentsBindEveryone` | `IncidentsBind` |
| | `JournalLeadsCommands` | `JournalRulesCommands` |
| | `KernelImplementsCanaryLedger` | `ImplementsCanaryLedger` |
| | `CapitalBindsVenue` | `VenueWithinCapital` |
| | `BudgetBindsVenue` | `VenueWithinBudget` |
| `Trading_proofs`, `Services_proofs` | `AppendsHonest` | `AppendsAreHonest` |
| | `CombinationsAgree`, `CombosAgreed` | `CombosAgree` |
| `Access_proofs`, `Services_proofs` | `AccountGuarded` | `AccountIsGuarded` |
| `Commercial_proofs`, `Services_proofs` | `EvidenceKept` | `EvidenceSurvives` |
| | `DeletionsReviewed` | `DeletionsAreReviewed` |
| | `ReleasesEarned` | `ReleasesAreEarned` |
| | `WorkbenchHonest`, `WorkbenchHonestly` | `WorkbenchIsHonest` |
| | `AccountHolds`, `AccountAttestedTruly` | `AccountIsAttested` |
| | `LimitsRemembered` (one in each) | `LimitsRemember` |
| | `GapsKnown` (one in each) | `GapsAreKnown` |
| `Access_proofs`, `Services_proofs` | `AnswersPaired`, `WorkersAnswer` | `AnswersArePaired`, of `WorkersAnswerAndEnd` |
| | `BridgeHolds`, `BridgeKeeps` | `BridgePromises` and `NothingExecutedIsPlaced`, of `BridgeIsFaithful` |
| `Access_proofs`, `Trading_proofs`, `Services_proofs` | `RoutesAccountable`, `DesktopOrdersHold`, `CommandsAccountable` | `CommandsAreAccountable` |

So every safety property of `PaperOms` and of `LiveKernel` that a passing run checks
is proved. None of them is inductive alone; the invariants that are, and
what each is for:

**The paper service.** `Inv` of `PaperOms_proofs` adds to the types

* `StageInv`: what the running operation has already done: the order it is about
  exists; one being submitted is PENDING_SUBMIT in memory and has not been asked
  for yet; one being cancelled is PENDING_CANCEL; a recorded answer is one a
  submission can have;
* `JournalInv`: unless the journal failed or a replacement awaits its record, memory
  and disk are equal; while the journal is healthy they hold the same executions
  and the same orders; once it failed no operation runs;
* `SentInv`: the broker is asked once at most, only for an order on disk, and the
  venue knows no order it was not asked about;
* `EvidenceInv`: every execution booked, in memory or on disk, and every one
  queued or being drained is one the venue made.

`BooksInv` of the same module adds what the account needs:

* `CallInv`: the state of the running operation's order, also after the broker call;
  during a replacement, memory is the journal with that one order marked;
* `RecordsInv` (`Kept`): each record agrees with itself: FILLED exactly when complete,
  nothing filled before it is stored, a broker identity is among its versions, a
  pending replacement knows the state to return to. With `AccountInv` this is what
  `restore` asks of orders and position; it also rebuilds the tax lots, and refuses the
  empty bucket a sale of the whole position leaves (`EmptiedBucket`), which
  `JournalRestorable` excepts;
* `AccountInv`: an order's filled quantity is the sum of the executions applied to it,
  the position is the sum of the fills, cash what remains, and no short position. It holds in
  memory and on disk, so that a crash cannot part them.

Every step is first reduced to what it does to the books (`BookStep`: one order is
booked, revised or given one piece of evidence, or nothing changes, and the journal
follows, stays, or is returned to), so that each part has one case per kind.

Its last part is about the venue, which `evaluate_risk` never sees: it approves
on the service's own records, a call later the venue holds something else, and
evidence is lost, repeated and late. `TrailInv` bounds how far the two can be apart:

* `BehindInv`: while no execution has surfaced late, a record that is closed although
  the venue works the order has an execution still to come (records never hold more
  than the venue: `VenueAccount` with `AccountInv`), and every closed record the venue has gone beyond is
  noted in `late`;
* `QueueInv` (`ClosingsLead`): a closing status in the queue is of an order the venue
  knows, and if the venue works it again, then by an execution not reported before
  that status. A fault may put a copy of the first event behind the others; the copy
  may come after that execution and then names an order that is working at the
  venue. What makes that harmless is that the first delivery has by then been applied
  to a record behind the venue, which notes the order as late;
* `RejectInv`: the same of a rejection that is answered and not yet recorded.

`RiskInv` states the limits (`WithinRisk`) over the records: purchases that may still
execute are charged in whole, sales covered in whole, one side is open, and no more
orders than allowed. `BookingKeepsRisk` shows that `evaluate_risk` establishes it,
`RiskShrinks` that filling and closing orders keeps it, and once more that it carries over from the
records to the venue (`RiskAtVenue`).

**The live kernel.** `Inv` of `LiveKernel_proofs` has the same parts and `MandateInv`:
each record of memory and journal spends one approval per order, none twice, and
counts them up to the canary's maximum. `AccountInv` is as above, except that nothing
forbids an overdraft: that it carries an incident is `IncidentsBind`.
Its last part repeats the argument about the venue with `BehindInv`, `QueueInv`
(no duplicates here, so the simpler `ClosingsHold`), `CashInv` and `CapitalInv`.

**The event store.** `Inv` of `Trading_proofs` is about rows that are inserted and
not committed. `LocksExclude`: after the advisory lock one writer per aggregate is left,
so the number it read is still the next one when it is used (`NumbersAreNext`).
`PendingApart`: the unique indexes and the waiting insert keep such rows apart from the
table and from each other, so a commit adds a row of a new event and a new key.
`RaceIsLost`: a writer that recovers from a conflict finds the winner's row. Every action is reduced to one shape
(`Statement`: at most one row, one session, one answer). It holds for any number of writers,
and `MaxCalls` plays no part.

**Identity.** `Inv` of `Access_proofs` equates the recorded failures with the guesses
judged since the last success, and a set lockout with their having reached the limit
(`GuessesAreCounted`); and it says of each factor that granted a session that it can
grant no other (`SpentIsSpent`): a one-time code is of an earlier secret or not later than
the last accepted step, a recovery code of an earlier generation or struck out. Assumed:
the limit on failures is positive (`IdentityAssumption` of `MCServices`; both are 5 in the code).

**Evidence files.** `Inv` of `Commercial_proofs` says that the lock leaves one open
handle (`OneOwner`); that as long as the lines chain, what was told is what the file holds,
but for the record being written or the one whose answer was lost (`ToldInv`: a write after a
torn line lands on that line, so nothing after it ever chains); and that in the two ledgers a
handle knows the whole file from its verification on (`OwnedInv`). In the other two journals
it need not: there a file that ends without a newline verifies, which is the violation
of section 4. Assumed: the four formats, and that a torn record is not a record
(`FilesAssumption` of `MCServices`). `MaxLines` and `MaxTears` play no part.

**Deletions and releases.** `RetentionInv` says of every published plan that a review saw its
candidates as they are named there, and that each may go once the plan's instant has come
(`May`); with the second hash in `execute_retention_candidate` that is what makes a later
deletion reviewed. `ReleaseInv` is the property with the shapes of manifests and signatures;
the work is in `derive_entitlement`: of the records effective by an instant exactly one is
last (`LatestIs`), and a record that does not concern the tenant then leaves it the last
(`EntitlementStands`). Assumed: deadlines and effects are dates, an artifact starts as a
build (`CommercialAssumption`).

**Combinations.** `ComboInv` says of the record in memory, and of the journal, which is the
same between two steps (`SoundCombo`): every leg holds its ratio of the booked units
(`Paired`); the units are those of the receipts, each identity once (`Counted`, `Distinct`);
the state is one those units allow (`Stated`: FILLED exactly with the last unit, unless its
evidence was refused), which with the rest is what `restore` demands. A refusal leaves
evidence or an incident that keeps new orders away. Assumed: at least one whole unit is
approved, of legs with whole ratios (`CombosAreApproved`, `CombosAssumption` of `MCServices`).

**The workbench.** What an operator holds between the two halves of `complete-schedule` may be
stale: `Prepared` says only that it was right in the journal then read, and that the journal
now begins with that one. `SoundEntry` says that every completion on file is on schedule
and the first of its day among those before it; the comparison under the lock is
what turns the one into the other. Assumed: a document declares its fields
(`DocumentsAreSnapshots`, `OperationsAssumption`).

**Account evidence.** `AccountInv` says of the venue (`VenueKept`) and of both records of the
service (`BooksKept`, in memory and on disk) that position and cash are what the executions
and actions known there make of the first position: sums over the executed orders and over the notices
(`PositionAfter`, `CashAfter`), which no longer know an order. A split scales the position, so
that it is such a sum only because an action counts with the quantity its notice
states: comparing that quantity is what makes applying late the same as applying at once. Both sides complete
then means equal sums. A recorded clean day has its report behind it (`DaysKept`),
and what a caller was told is on disk. The shares of the strategies are their position only
until a split: `apply_split` scales them one by one with decimals that drop what lies below
their last digit. `ScaledIs` bounds what is dropped of one quantity, `SharesScale` sums it
over the strategies (`CutOff`), and since an action is announced against a position it leaves
whole, the rest of the position that no strategy owns moves by no more than that
(`SharesFollow`); every other step leaves it alone. Assumed: orders and shares are of whole
units, and only a split has a ratio (`TradesAreWhole`).

**Portfolio limits.** `evaluate_combo_risk` looks at one candidate among the working orders;
`ExposureBounded` speaks of every way all of them can still fill, together and in part.
`RiskInv` keeps, of the records in memory, what one approval establishes and no fill, end or
further approval undoes. Per instrument: the position, and the position once every working
order has filled, are within the limits (`PositionsKept`), and working orders on it all go
one way (`OneWay`, from `conflicts_with_working_order`), so that every partial fill lies
between the two. Of the marks and the order of the latest approval (`RulingKept`): the
gross exposure and the buckets with every unfilled row added without netting, and,
while that order can still complete, the highest and lowest net exposure with it filled and
every other row filled or not; a fill moves a row's exposure from what may be added to what
is held, so that none of these grows (`ExposureProgress`), and a way to fill the rest is a
part of each row (`WorthFits`, `NetGivenFits`). The limits that look back need that memory
shares the books with the journal and is never behind its peak and its day
(`MemoryLeads`): an assessment moves them in memory only. The drawdown is truncated to
basis points of the peak in memory, which is above the journaled one: `DrawdownIs` carries
the bound down to it. Assumed: an intent is of whole units for one strategy, prices and limits
are numbers, initial cash and position limits are not negative (`IntentsAreSound`,
`LimitsAssumption`).

**Gaps of a recording.** `GapsInv` says of the monitor, whatever repeats or comes out of order,
that what lies between the first and the last sequence is recorded or declared, and that
while no two quotes contradict each other none recorded is past the last (`Watched`). A repair
only fills gaps, so the ends of the recording stay and its gaps shrink by what was
supplied (`GapsShrink`); neighbours in time are the same whether batches are merged one
after another or at once (`BatchesCompose`), for any number of them. Assumed: sequence numbers
are positive and have a width (`QuotesAreSequenced`, `QuotesAssumption`).

**The trading API.** `RoutesInv`: a service that answers holds what its journal records
(`ServedIsRecorded`), records are sound, a halt that was acknowledged is in the journal
(`HaltsStand`), and an order went to the venue only while no acknowledged halt covered it
(`SentUnhalted`). Calls are authorized outside the lock and may wait while others change
the service: `WaitingIsAuthorized` says that a caller that waits held a session at the
instant it was authorized, and had the permission; that instant is what is recorded of it.
Assumed: a call names one of the requests of the API, by an operator, on a route (`CallsAreRequests`).

**Strategy workers.** The threads, the pipes and the channel can each hold something, and no
frame says which request it answers. `PipeInv` counts what is under way between a question
and its answer, in seven places (`UnderWay`): as long as the caller may ask it is at
most one thing, none while the caller waits for nothing, and it belongs to the last question
(`OneAtATime`); the ready frame is the answer to question 0. A caller that was
left without an answer has terminated its worker and asks no more, so that a late answer finds nobody.

**The bridge to IBKR.** `BridgePromises` are the types, `PlacedOnce`, `RejectedNeverWorks`,
`RefreshIsComplete` and `CancelsAnsweredOnce`. `BridgeInvariant` is about four places that say
different things of one order. What IBKR holds adds up (`IbkrSound`). A callback under way is true of it
when it is read, however much later (`WireSound`): ends and executions are never taken back, and a
status says no more than IBKR has. What the bridge remembers is of what IBKR has: a
number it has for an order is of that order, a process knows the number of all it placed
itself, and an order it calls over has ended (`MemorySound`). And the greeting, first of all
on a connection, is above every number IBKR knows (`Numbered`), so that a number is
never given twice, though `nextValidId` may raise the counter at any time. Of these follow
`PlacedOnce`, and for what was answered and attested `AnswersStand`: an answer
REJECTED is of an order that ended, or that a lost connection took before IBKR had it; what a
successful refresh attests has a number in memory until the process ends, so it is not
placed again. A refresh is right because an execution made before it is recorded, or is listed on the
socket ahead of the end that carries the request's number (`RefreshSound`); an execution is put
when its second half arrives, and then only (`ReportedOnce`); a failed cancellation
is owed to a request that has not been answered (`CancelsOwed`). The exception of
`RejectedNeverWorks` is of a client order two processes have placed: the bridge keeps one
number and one state for it, so that the end of the one order answers for the
other. Assumed: orders are numbered from 1, in lots of one or more (`OrdersAreNumbered`,
`BridgeAssumption`).

**The desktop.** `DesktopInv` says where the service and the venue stand at each point of a
command (`InPhase`: `Quiet` between commands; `Submitting`, `Cancelling`, and an event of the
venue not yet applied, `FillPending`, `CancelPending`), and of the journal that each position
is the sum of the fills made and each receipt given is borne out (`Recorded`), so that a
restart may fall anywhere. That a marketable order fills within its limit is a sum over
the legs: `SumGrows` and `SumScales` of `Sums_proofs`. Assumed: requests are of amounts of the
instruments, or close one of them (`RequestsAreFormed`).

**The components together.** `MCServices` instantiates these proof modules, and
`Services_proofs` carries their invariants over to its behaviours: a component's
variables are changed by no other while it runs.

**Sums.** The accounts are `MapThenSumSet`s, which the community modules define by
recursion on sets. `Sums_proofs` proves what is needed of them (adding, removing and
changing a summand, monotony, a multiple, a sum over a part): an instance of the library's
induction theorems would need an operator as parameter, so the induction is on
sets instead: among the subsets of a finite set that violate a fact there would be a
smallest one (`FS_StrictSubsetOrderingWellFounded`).

Only model-checked: all liveness (liveness under fairness and ENABLED are beyond the
prover), and the other components of `MCServices`: the margin account, the plans, the
replay with what it reads, and the evaluations, whose properties are about folds over sequences and
sorted rows (induction over data); and the books
of a LIVE account, which fold over executions and lots. Of the bridge, what
becomes of a snapshot and when an end is reported (`SnapshotIsCurrent`, `EndsAreReported`,
`OverStaysOver`): they need to know, for every callback still under way, what was read before it and what
will be read after it, and no invariant that says so has been proved. No module under proof may reach a
RECURSIVE operator; sums are folds for that reason.

## 6. Plan

In order of importance.

1. *Done:* single orders: lifecycle, broker route, OMS, abstract ledger, proofs.
2. *Done:* the live kernel: approvals consumed once, canary budget and activation
   window across crashes, halt and reconciliation gates; the abstract
   `CanaryLedger`, refined by it. Left there: what becomes of working orders once the activation has
   expired (no operation may then cancel them).
3. *Done:* `ComboOrders`, `EvidenceFiles`, `ExecutionPlans`, `GapRepair`,
   `EventStore`, `Identity`, `StrategyWorker`, `Backtest`, `Accounts`.
4. *Done:* `PortfolioRisk` with kill-switch scopes, `AccountEvidence` with sessions and
   corporate actions.
5. *Done:* `IbkrBridge`: callbacks against requests. Left: its refinement into
   `PaperBroker`, which needs the queue of `poll` and quantities in common.
6. *Done:* `Operations`: schedules and approvals; `Retention` and `ReleaseGate` of
   `core/commercial`. Left: drills and statements.
7. *Done:* `OperatorRoutes`: concurrent calls of the trading API. Left: the research,
   replay and instrument handlers, which only read or compute.
8. *Done:* `Evaluations`: runs, publication, the experiment store and capsules;
   `DesktopOrders`: the desktop over its gateway; `MarketInputs` and `ReferenceData`: what a
   replay reads. Left: counterfactual and adversarial probes.
9. *Done:* `AccountBooks`: the books of a LIVE account, its limits and its record. Left: a
   failed batch there, several instruments, bucket and rate limits.
10. *Done:* proofs of all safety properties of `PaperOms` and `LiveKernel`, of the event
    store, combinations, identity, the API routes, the desktop, strategy workers, the evidence files, the
    workbench, account evidence, portfolio limits, gap repair, deletions and releases,
    and of what the bridge places, rejects, executes and cancels (section 5). Next:
    the snapshots of the bridge, and the books of a LIVE account.

## 7. Not modelled, and why

Numerical libraries (options, risk reports, transaction-cost analysis, parameter
studies) compute deterministic results over exact decimals and have no
protocol. The command line and the browser console parse and print. Cryptography, hashing and file formats are
outside what TLC can say anything about, beyond the role they play in a protocol.
