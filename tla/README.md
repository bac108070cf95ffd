# Binance spot bot: verification project

TLA+ models of the trading bot under `src/`, model-checked with TLC, and
theorems about them checked with TLAPS.  The code is a Python asyncio program
that trades Binance Spot symbols through strategies, keeps its ledger in SQLite
and protects every position with an exchange-resident OCO list.  Most of what
can go wrong lies between an exchange that answers late or not at all, a process
that may die anywhere, and a database that must not claim what did not happen.

## The system

| Component | State | Operations | Talks to |
|---|---|---|---|
| Ledger, `app/storage/db.py` | SQLite tables `orders`, `trades`, `state` | one transaction per method: `record_order_intent`, `update_order_record`, `open_trade`, `close_trade`, `set_trade_protection`, `apply_protective_execution`, ... | called by broker, orchestrator, manager |
| Broker, `app/execution/broker.py` | none of its own beyond throttling dictionaries | `enter`, `maybe_exit`, `_submit_market_order`, `reconcile_unresolved_orders` | ledger, exchange client, risk manager |
| Protection, `app/execution/protection.py` | the protection columns of the OPEN trade | `_place_exchange_protection`, `_protective_fill`, `_rearm_terminal_protection`, `reconcile_open_position_protection`, `_cancel_exchange_protection` | ledger, exchange client |
| Exchange client, `app/exchange/binance.py` | clock offset, cool-down deadline, metadata cache | one signed request per method, quantity and price filters, fee conversion | Binance |
| Orchestrator, `app/agents/orchestrator.py` | `_exchange_validated`, the loop task, the cycle lock, state rows | `run_once`, `analyze_once`, `_loop`, `start`, `stop`, `_ensure_exchange_config` | broker, strategies, ledger |
| Portfolio, `app/agents/multi_orchestrator.py` | the entry lock, the account snapshot cache, the symbol set | `execute_entry`, `snapshot`, `poll_equity`, `_refresh_universe`, `start`, `stop` | one orchestrator per symbol |
| Control, `app/main.py`, `app/runtime_lock.py` | the lock file | HTTP start, stop, manual cycles | manager |
| Testnet validator, `validate_testnet_protection.py` | a database of its own | six commands, each in a process that holds the runtime lock | broker, exchange client |
| Risk, learning, strategies, advisor, notifications, metrics, UI, other scripts | small or none | see `PROJECT.json`, `components` | |

Calls between components are asyncio calls within one process.  What outlives
the process is the database and the exchange account, and these are also the
only things a second process (a manual cycle, another instance) shares.

### What is hard, and what makes each part correct

* **Orders.**  A request may be lost, accepted without an answer, or answered
  with a state that is already old; the task may be cancelled at any await and
  the process may die between two transactions.  Correct means: one order of a
  symbol at a time, every execution applied exactly once, the symbol blocked for
  as long as one is not, and a recorded position that the account really holds.
* **Protection.**  The exchange sells by itself.  Correct means: at most one live
  list, always one that the ledger can name; nothing sold twice; cumulative
  fills applied as deltas across retired lists; "protected" only when a
  confirmed list is active.
* **Orders with protection.**  A market SELL and a list compete for the same
  base asset, and recovery of one runs beside recovery of the other.
* **The cycle.**  Decisions are made by a task that runs beside the cycles, kept until
  they are acted upon, and acted upon at several places.  Correct means: only closed
  candles are decided on, a candle is bought on once, a position is not sold for a
  decision older than itself, and nothing the task does keeps exits waiting.
* **Validator.**  Six commands that may fail anywhere.  Correct means: "ok" is said only
  when it is, and an interrupted validation can be closed.
* **Portfolio.**  Limits read before an await and used after it.
* **Control.**  Stop, manual cycles, the runtime lock, restarts.

Every hazard is listed in `PROJECT.json` at the line where it bites, with the
properties that would catch it, or the part of the plan that will.

## Modules

| Module | Models |
|---|---|
| `Ledger` | The order and trade rows of one (mode, symbol) and the transactions on them, as operators: a condition and a result.  The modules that use it decide only when a transaction runs. |
| `OrderLifecycle` | Market orders from intent to ledger: entry, software exit, submission, recovery, interruptions, and the exchange's side. |
| `TradeDiscipline` | The abstract promise: orders are worked one at a time, a BUY only from a flat book, a SELL only against an open one, and each order that executed changes the book exactly once. |
| `Protection` | The protective list of one position: placement, look-up, booking of fills, re-arming, cancellation for a market SELL, start-up, interruptions, and the exchange's side. |
| `PositionDiscipline` | The abstract promise of a protected position: lots are acquired only when none are held, and one seller at a time, list or market order, sells them and nothing else. |
| `PortfolioEntry` | The shared entry coordinator: the entry lock, position slots, the exposure limit and the account snapshot that is renewed in the background, with the cycles of all symbols. |
| `EntryAdmission` | The abstract promise: an entry is admitted as if the account and all that may still be bought were seen at that moment. |
| `Control` | Start, stop, universe refresh and manual cycles of the manager and its bots, and the runtime lock between processes. |
| `TradingCycle` | The cycles of one orchestrator: the strategy task, the cached and the pending decision, exit checks, the entry and the candle it uses up. |
| `ValidationTool` | The commands of the testnet validator, on top of `Protection`. |
| `MCOrderLifecycle`, `MCProtection`, `MCPortfolioEntry`, `MCControl`, `MCTradingCycle`, `MCValidationTool` | The small instances for TLC. |
| `OrderLifecycleProofs`, `OrderDisciplineProofs` | The proofs about market orders: the invariant; the refinement and, with one broker, the account. |
| `ProtectionProofs`, `ProtectionDisciplineProofs` | The proofs about protection. |
| `ControlProofs` | The proofs about start, stop and the runtime lock. |
| `TradingCycleProofs` | The proofs about the cycle. |
| `PortfolioEntryProofs` | The proofs about the entry coordinator, with what they need about sums over symbols and about the queue. |
| `ValidationToolProofs` | The proofs about the validation commands, on top of `ProtectionProofs`. |

### OrderLifecycle and the code

State.  `orders` and `trade` are the tables (`trade` is the OPEN row; the unique
index admits one).  `exch` and `base` are the exchange's: the true state of each
order and the base asset in the account.  Per broker, `validated` is the
orchestrator's `_exchange_validated`, `pc` says at which await, or between which
two transactions, the call stands, and `cur`, `resp`, `held`, `todo` are its local
variables: the order id, the response, the trade dict read before the SELL, and
the rows of `unresolved_orders` the recovery loop has yet to visit.

Actions.  One per stretch of code between awaits.  Where a crash may fall between
two transactions that no await separates (`update_order_record` and then
`open_trade`), the stretch is split there too.

| Code | Actions |
|---|---|
| `enter` | `StartEnter`, `SubmitBuy`, `AbandonEntry`, `CommitBuy` |
| `maybe_exit`, software exit | `StartExit`, `ReadPosition`, `SubmitSell`, `AbandonExit`, `CommitSell` |
| `_submit_market_order` | `Send`, `SubmitAnswered`, `SubmitFails`, `QueryAnswered`, `QueryFails`, `RejectResponse`, `RecordOutcome`, `CommitFails` |
| `reconcile_unresolved_orders` | `StartReconcile`, `RecoverQuery`, and one `Recover...` action per branch |
| `_ensure_exchange_config` | `StartReconcile` (only if not validated), `FinishReconcile` |
| `stop` | `Cancel` |
| process death | `Crash` |
| Binance | `Accept`, `Lose`, `Fill`, `Expire`, `RejectOrder` |

What is abstracted.  Quantities are lots; `Normalize` stands for the quantity
filters and `Net` for what a BUY leaves once its base-asset fee is taken.  Prices,
quote amounts and fees in other assets are left out: no modelled decision depends
on them.  `CANCELED` and `EXPIRED_IN_MATCH` are `EXPIRED`.  Which exits
are due is a choice.  The protective list is not in this module: a position here
is one whose list has been cancelled, which is what the code makes sure of before
it sells.  An exception that escapes `reconcile_unresolved_orders` (the fee
conversion may raise one) leaves the process unvalidated with the table as it
stands, which is what `Crash` does.

### Protection and the code

State.  `row` is the OPEN row with its protection columns: `list` and `status` are
`protective_list_client_order_id` and `protection_status`, `from` and `fromFee` the
base of the list (`protective_list_base_*`), `applied` and `fee` what was applied
(`protective_applied_*`).  `lists` and `base` are the exchange's view; `rate` is the
market value of the commission of a lot; `sale` is the market SELL that is not
settled in the ledger.  `lapsed` is history, read by no action: a list was placed while the
outcome of a market SELL was unknown.  `pc`, `call`, `stage`, `retried` and `seen` are the call stack
of the one broker: where it stands, for which outermost call, which caller waits for
`_protective_fill`, `_terminal_retries`, and the answers it has collected.

| Code | Actions |
|---|---|
| `_place_exchange_protection` | `Place`, `Send`, `PlaceFails`, `PlaceAnswered`, `LookupFails`, `Confirm...`, then after its `_protective_fill` `PlaceClosed`, `PlaceRearms`, `PlaceGivesUp` |
| `_protective_fill` | `QueryList`, `QueryListFails`, `QueryLeg`, `AnswerRejected`, `LegsQuiet`, `LegsTorn`, `LegsExecuted`, `BookFill`, `BookFillTorn` |
| `_rearm_terminal_protection` | `Rearm`, inside `PlaceRearms`, `HoldAndRearm`, `VerifiedTerminal` |
| `_cancel_exchange_protection` | `CancelList`, `CancelFails`, `CancelChecked`, `CancelRefused` |
| `reconcile_open_position_protection` | `StartFlat`, `StartVerify`, `StartInstall`, `Verified`, `VerifiedTerminal` |
| `maybe_exit` | `StartExit`, `ExitFilled`, `ExitChecked`, `Hold`, `HoldAndRearm`, `HoldAndPlace`, `ExitDue`, `SubmitSell`, `AbandonSell`, `SellSettled`, `SellUncertain` |
| `enter`, order recovery | `Enter`, `StartUp`, `RecoverBuy`, `RecoverSale`, `OrdersReconciled` |
| `stop`, process death | `Cancel`, `Crash` |
| Binance | `Accept`, `Lose`, `FillLeg`, `EndLeg`, `SaleExecutes`, `SaleEnds`, `RateMoves` |

What is abstracted.  There is one broker, so a trade dict read before an await is still
true after it; two processes on one database are kept apart by the runtime lock, except
for manual cycles (`Control` says when one may run).  Market orders appear with the
promise that `TradeDiscipline` gives, which `OrderLifecycle` implements.  `ALL_DONE`,
`REJECT` and `EXPIRED` are `TERMINAL`.  A malformed or contradictory answer, a leg in
`PENDING_CANCEL`, incomplete fills and fills that cannot be applied are
`AnswerRejected`, which may happen at any time.  The exchange locks nothing for a list
against other orders, so it accepts and executes more than Binance would.  Prices are
left out; a stop that was raised ends the cycle as `Hold` does.

Start-up goes on to protection whether or not it has found out what became of a market
SELL (`OrdersReconciled`), and may then place a list beside it (finding 2).  The model takes
that step, and `lapsed` remembers it.  From there on two sellers work at once, and a SELL that
is applied later takes the list's row away under it, so `ListIsNamed`, `SellsAlone`,
`DropOnlyFinished`, the equality of `LedgerExact` and the refinement speak of behaviours up to
the first lapse.  `NewListWaits` says that there is none, and is violated.  `TypeOK`,
`StatusIsTrue` and the inequality of `LedgerExact`, that nothing is applied that was not
executed, hold after a lapse too.  `lapsed` excuses nothing else: it becomes true only in
`Place`, and only while a SELL is unresolved.

A list request that was lost or refused (a stop above the market at start-up is
refused) leaves an identity that no query finds.  The code keeps it on purpose and
raises at every cycle and start: such a position is neither protected nor exited until
someone edits the row.  `FillsLand` does not speak of it, as nothing executed.

### PortfolioEntry and the code

State.  `trade` and `order` are the database, per symbol: the lots of the OPEN trade and
the unresolved order, whose `state` and `exec` are the exchange's knowledge until it is
resolved.  `held` is the account.  `pc` is where the cycle of a symbol stands, `asked` the
lots the coordinator approved and that were not sent yet, `line` the queue of
`_entry_lock` with its owner first.  `account` holds the snapshot (`_last_equity` and
what belongs to it, `known` and `valued`) and the two background tasks that renew it,
the account request with its answer and the valuation of the other assets.

| Code | Actions |
|---|---|
| `run_once`, as far as it enters | `Ask` |
| `execute_entry` | `Approve`, `Refuse`, `EntryReturns`, and `EndSubmit` for its `finally` |
| `enter`, inside it | `AbandonEntry`, `SubmitBuy`, `BuyRecorded`, `BuyUnfilled`, `BuyUncertain` |
| `maybe_exit` | `SubmitSell`, `SellRecorded`, `SellUncertain`, `ListRecorded` |
| `poll_equity` and its tasks, for a cycle or for the dashboard (`main.py:159`) | `Poll`, `AccountAnswers`, `ValuationEnds` |
| `close` | `Close` |
| `_ensure_exchange_config` | `Validate`, which may raise after it has booked the recovered orders |
| `stop`, process death | `CancelAsking`, `CancelSubmit`, `CancelSell`, `Crash` |
| Binance | `Decide`, `ListFills` |

What is abstracted.  Every lot of every symbol has the same, constant price, so that
exposure and lots are one number; `Outside` is the value of assets no symbol
trades, and there is no foreign base of a traded symbol.  The checks on the age of a snapshot
or price, on the quote balance and on the losses of the day only refuse: `Refuse` may happen
at any time.  Paper mode is left out.

Assumption.  With `RestartSettles` no order is in flight when a process starts: the
exchange refuses requests older than the 5000 ms of `recvWindow` (`binance.py:55`), and
a restart with its first account request is taken to be slower.  A new process
does not carry this over as knowledge: an unresolved order that was decided still has to be
reconciled.  Without the assumption `ExposureKept`, `SnapshotCoversHoldings` and the
refinement are violated: the balances of the new process may be older than the BUY.
`TypeOK`, `SlotsKept`, `OneBuyAtATime` and `LockHeldByCycle` do not need it.

### Control and the code

State, per process.  `bots` are the manager's bots (and `portfolio.symbols`), `running` and
`manual` those whose flag `running` or `_manual_cycle_active` is set, `loops` those whose task
is alive, `orphan` the bots that a refresh dropped while they were in a manual cycle.  `mgr`
is what the holder of `_control_lock` is doing, and in `cur` the bot whose own lock start
holds while it awaits `_ensure_exchange_config`.  `entering` is the cycle inside
`execute_entry`, which admits one.  Shared are `locked`, the owner of the lock file, and
`tracked`, what `tracked_symbols` returns from the database.

| Code | Actions |
|---|---|
| `_refresh_universe_unlocked` | `RefreshUniverse`, `SelectMarkets`, `ClientsClosed`, `RefreshFails` |
| manager `start`, bot `_start_unlocked` | `Start`, `StartBot`, `BotStarted`, `StartRefused`, `BotStartFails`; the way back is `StopBot`, `LoopEnds`, `StopEnds` |
| manager and bot `stop` | `Stop`, `StopBot`, `LoopEnds`, `StopEnds` |
| `run_once`, `analyze_once` | `ManualCycle`, `ManualCycleEnds` |
| `execute_entry`, `record_order_intent` | `EntryApproved`, `EntryRecorded`, `EntryAbandoned` |
| `maybe_exit`, order recovery | `PositionEnds` |
| `RuntimeFileLock` | `Start`, `Released` |
| process death | `Crash` |

What is abstracted.  The universe mode is `top_volume`.  The ranking is any set of symbols;
a refresh that finds none or too many is `RefreshFails`.  What a cycle does between its
start and its end is reduced to whether it makes a symbol tracked or untracked.  A manual cycle
is a run-once or an analysis, which never enters; `RunOnceSymbols` are the symbols run-once
is asked for.

### TradingCycle and the code

State.  `cached` and `pending` are `cached_signal` and `pending_strategy_result`, as the
candle and the side of a decision, and `task` is `strategy_task`: at the candle request, at the
advisor, done or failed, and what it will return.  `pc` is the await at which the one cycle
stands (`_cycle_lock` admits one), `manual` whether `force_strategy` is set, `candidate` and `sold`
are its locals.  `trade`, `doubt` and `used` are the database: the candle on which the OPEN trade
was entered, what the unresolved order was sent for, and the row under `_entry_state_key`.
`entries` is history and guards nothing.  `clock` counts half intervals.

| Code | Actions |
|---|---|
| `_compute_strategy`, `evaluate`, `confidence_adjustment` | `Evaluate`, `Advised`, `StrategyFails` |
| `_cycle_unlocked`, `_market_price` | `BeginCycle`, `Priced`, `PriceFails` |
| `_cycle_unlocked`, exit checks | `ExitHolds`, `ExitSells`, `ExitFails` |
| `_poll_strategy` | `PollPending`, `PollAsk`, `PollNothing`, `TakeResult` |
| `_cycle_unlocked`, entry | `Approve`, `EntryRefused`, `EntryFails`, `Bought`, `EntryReturns`, `ProtectionFails` |
| `_cycle_unlocked`, otherwise | `ConcludeOpen`, `ConcludeIdle`, `Refuse`, `Postpone` |
| `_commit_strategy` | `Commit`, inside `ConcludeOpen`, `Refuse`, `EntryReturns` |
| `_ensure_exchange_config`, `start`, `stop` | `Reconcile`, `Start`, `Stop` |
| process death, time | `Crash`, `Tick` |

What is abstracted.  The broker is reduced to what its calls leave: nothing, a position, none, or
an order of unknown outcome.  The strategy may return any side it returns with or without a position;
it reads the position after the rows arrived, as the code does.  Price, deviation, cool-down,
back-off, quality, risk and portfolio checks only refuse, so `Refuse`, `Postpone` and `EntryRefused`
may happen at any time.  An interval is two ticks and the refresh grace is less than one.

Two exceptions are in the properties because the code has them.  An entry that is cut short, after
its BUY and before `set_state`, leaves its candle unmarked: it may be bought on again once the
position is closed, and the signal that is cached then is from before the entry.  `OneEntryPerCandle`
and `ExitSignalsFit` except the candle of such an entry (`cut`) and nothing else; they do not say that a crash at
`orchestrator.py:596` is harmless.

### ValidationTool and the code

State.  That of `Protection`, whose steps are the Broker's, and `cmd` and `at`, the command that runs and
where it stands between its calls; `buy`, a BUY that the database does not know the outcome of; and
`report`, what the last command printed.

| Code | Actions |
|---|---|
| `main` | `Begin`, `Fail`, the end of every command |
| `run_validation`, `open_and_exit_validation`, `open_offline_fill_validation` | `OpenersCheck`, `StartEnter`, `BuyUncertain`, `ListVerified`, `StartProbe`, `Probed` |
| `recover_and_close_validation`, `recover_offline_fill_validation` | `ListRediscovered`, and the calls below |
| `resume_validation` | `ResumeFlat`, `ResumeOpen`, and the calls below |
| `maybe_exit` with HOLD, then with SELL | `StartReconciling`, `StartClosing`, `ExitBlocked` |
| what the Broker does inside these | `CallGoesOn`, `CallReturns`, `CallRaises` |
| process death | `Die` |

What is abstracted.  Every command takes the runtime lock of the configured database first, so there is
one at a time and no bot beside it.  None of them runs `_ensure_exchange_config`: what became of an order
in doubt is never found out, the start-up steps of `Protection` play no part, and so protection never lapses.  The invariant of
`Protection` holds all the same, as long as no BUY is in doubt.  Balances, prices and `--trigger-pct` are left out.

## Runs

| Run | Instance | Shows |
|---|---|---|
| `orders_shared_db` | 2 brokers, 2 orders, quantities to 2 | `TypeOK`, `IInv`, `OneOutstandingOrder`, `ExecutionStaysBlocked`: whatever two brokers on one database do, the exchange works on one order of the symbol at a time and nothing executed is forgotten. |
| `orders_one_broker` | 1 broker, 3 orders, quantities to 3, one lot of foreign base, fair | `PositionBacked`, `ForeignBaseKept`, `ImplementsDiscipline`, `ExecutionsLand`. |
| `recovered_buy_tradable` | 1 broker, 2 orders, lots of 2 | A violation: the recovery path records a quantity the filters refuse (finding). |
| `protection_safety` | 2 lists, positions to 3, one lot of foreign base, 2 commission values | Up to a lapse `ListIsNamed`, `SellsAlone`, `LedgerExact`, `DropOnlyFinished`, `ImplementsDiscipline`; always `StatusIsTrue` and the inductive `IInv`. |
| `protection_fills_land` | 1 list, positions to 3, fair | `FillsLand`, with a commission whose value is constant. |
| `fees_revalued` | the same, 2 commission values | A violation of `FillsLand`: the value of the commission falls and later fills are refused (finding). |
| `list_beside_order` | 2 lists, positions of 1 | A violation: a list is sent beside an unresolved SELL (finding). |
| `portfolio_entries` | 3 symbols, entries to 2 lots, 2 slots, exposure 4 of which 1 outside | The inductive `IInv`, `SlotsKept`, `ExposureKept`, `OneBuyAtATime`, `SnapshotCoversHoldings`, `LockHeldByCycle`: no entry, however it ends, keeps the entry lock; `ImplementsAdmission`. |
| `control` | 2 processes, 2 symbols, one of them configured, fair | `EngineAlone`, `LoopsOwned`, `NoManualBesideLoop`, the inductive `IInv`; `PositionsWatched`: a complete start watches every symbol with a position or an unresolved order, where run-once is asked for configured symbols only; `ManagerAnswers`: no start, stop or refresh keeps the manager's lock for ever. |
| `trading_cycle` | 3 candles, fair | `OneEntryPerCandle`, `ExitSignalsFit`, `DecisionsOnClosedCandles`, the inductive `IInv`; `ExitChecksGoOn`: a slow or failing strategy does not keep a position from being watched; `DecisionsSettle`: what cannot be acted upon does not keep newer decisions away. |
| `validation_tool` | 2 lists, positions to 2, one lot of foreign base, calm in the end | The inductive `ToolIInv`; `OkMeansFlat`, `OkMeansListed`: what "ok" is worth; `ToolLedger`: what interrupted commands leave is in the row; `ResumeCloses`: repeating `--resume` closes it. |
| `run_once_during_refresh` | 1 process, run-once of any symbol | A violation of `PositionsWatched` (finding). |

Where `IInv` or `ToolIInv` is checked, `TypeOK` or `ToolTypeOK` is its first conjunct and is not listed again.

Bounds.  Three orders are enough for a BUY, a partial SELL and the SELL of the
remainder, or two positions in a row; two orders are enough for any race, since
the properties relate pairs.  Quantities to 3 give a partial fill, a fee that takes a
lot and a remainder under the minimum.  `InitialBase = 1` gives a market SELL
something of somebody else's to sell.  The theorems remove all of these bounds.
Two lists are a list and its replacement, or the list of the next position; positions
of 3 give a partial fill with a remainder to re-arm, which fills in part again.  For liveness one list of 3 lots is
enough: it can be booked twice, and a replacement starts from the same kind of state; there is no second list to
lapse with.

Two slots for three symbols let an entry meet a free slot, a full table, and one
that is freed while it waits in line; the exposure of 4 with 1 outside is below two
full entries, so that the limit and the slots refuse in different states.  Two processes
are what the lock is for, and two symbols, one of them discovered, let a start fail after it
has started one bot and a refresh drop one and keep another.

Three candles are one to enter on, a later one to decide anew, and one whose decision
is late; the theorems hold for any number.  The validator needs a list and its replacement.

`PositionBacked` and `ForeignBaseKept` are checked and proved for one broker.  With
two processes they are not claimed: the balance a broker reads may be about to be
sold by another, and only the order table, not the account, is serialised.

Fairness (`FairSpec`).  asyncio resumes a task whose await ended (weak fairness of
a broker's steps); the exchange decides about a request it received and finishes an
order it accepted (weak fairness); queries and fill look-ups do not fail for ever,
and the operator's restarts do not always cut recovery at the same point (strong
fairness of the successful branches).  A broker that idles behind an
unresolved order is restarted (weak fairness of `Restart`): nothing in a running
process reconciles again, and the error message of `broker.py:153` asks for it.
Without that last assumption `ExecutionsLand` is false, and the code means it so.
A request that never reached the exchange leaves an intent row that no query
resolves; the symbol then stays blocked for good.  `ExecutionsLand` does not
exclude it, as nothing executed.

In `Protection`, cycles go on and a process that is down is started (weak fairness);
the exchange decides about a list it received and finishes one of which a leg has
executed or ended.  Answers of a query that is repeated for ever are not all errors, and
crashes and cancellations do not always fall on the same await (strong fairness of the
steps of a look-up that succeed).  Nothing is assumed of the requests that place or
cancel lists.

In `Control` what the manager waits for ends (weak fairness of `ManagerStep`): discovery and
set-up requests time out, and a cancelled task ends.  Nothing is assumed of manual cycles or of
what an operator asks for.

In `TradingCycle` time passes and the awaits of a loop's cycle end (weak fairness of `Tick` and
`CycleStep`), as `_loop` catches what a cycle raises and every request has an HTTP timeout; an
price request that is repeated does not fail every time, and an exit check that is repeated does not raise
every time (strong fairness of `Priced`, and of `ExitHolds` and `ExitSells` together): while the price or the
exchange never answers, no exit is checked and `ExitChecksGoOn` does not say so.  Nothing is assumed of the strategy task: that it may hang is what
the properties are about.

In `ValidationTool` commands end and the exchange decides about what it was sent (weak
fairness).  `CalmSpec` adds what `ResumeCloses` is conditional on: from some time on the operator
only repeats `--resume`, its requests are answered and market SELLs execute in full.  The commission keeps its
value in this run: the refusal of finding 1 blocks `--resume` as well, for as long as the price stays low, and is
outside of `ResumeCloses`.

## Findings

1. When part of a list has been applied and its commission is paid in a third asset, the
   next look-up values the whole commission at the market price of that moment
   (`binance.py:655-735`).  If that price has fallen, the cumulative fee is below the
   one applied before, and `apply_protective_execution` raises (`db.py:293`) before it
   looks for anything new.  The row becomes `PROTECTION_UNKNOWN`; what the list sold
   since is not booked, and the position is neither re-armed nor exited until the price
   is back.  `README.md:317-319` promises that complete fills are applied.
2. `_ensure_exchange_config` reconciles protection whether or not a market SELL is still
   unresolved (`orchestrator.py:110-116`).  The list was cancelled for that SELL, so the row
   names none and a new one is placed: two sellers for the same base asset.  The
   warning composed right after it says that new orders cannot be submitted.
3. The recovery path opens the trade with the net quantity as it is
   (`broker.py:363-379`), where `enter` passes it through `normalize_quantity`
   (`broker.py:519-530`).  After a base-asset commission the quantity is off the
   lot step, and the protective list, which is placed with exactly that quantity,
   is refused; `LIVE_TRADING_READINESS.md:104` promises protection.
4. `_refresh_universe_unlocked` checks once, before it awaits the market discovery, that no
   manual cycle is active (`multi_orchestrator.py:464`), and reads `tracked_symbols` once
   (line 518).  A run-once of a discovered symbol that starts meanwhile and has
   passed the symbol check of `execute_entry` records its order after that; the refresh then
   installs a universe without the symbol (line 581).  No loop watches its
   position and no slot counts it until the next refresh.  `README.md:137` says that open
   positions and unresolved orders stay tracked.

### Remarks

Where the documentation says more than the code does, and no run is spent on it:

* Unfinished candles.  `_compute_strategy` reads the time after the answer has come
  (`orchestrator.py:228-232`).  A last row that was fetched just before its candle closed is then
  taken for completed, with figures that were not final.  `DecisionsOnClosedCandles` says that the candle
  has closed by then, not that its row is the final one.
* Expired signals.  `README.md:181` says that signals expire.  The age is checked when an entry is approved
  (`orchestrator.py:576`); `execute_entry` may wait in line after that, and checks the price again but not
  the age.
* `--resume`.  `README.md:438` recommends it for any uncertain validation.  It looks for an OPEN trade
  and never reconciles orders, so it prints "ok" while a BUY of unknown outcome may have executed; every
  later entry is then refused.  `OkMeansFlat` makes that exception.
* Phase 2.  `README.md:388` says that it refuses to recreate missing protection.  It does so in its own
  checks; but the reconciliation that follows them, `maybe_exit` with HOLD, re-arms a list that ended without
  selling.
* Dropped bots.  A refresh may drop a bot whose manual cycle is under way (finding 4), and a later refresh may
  rank its symbol again.  It then looks at the present bots only (`multi_orchestrator.py:464`) and builds a
  new one (lines 569-581), whose loop may start beside the manual cycle of the old one: `Control` reaches that
  state.  `NoManualBesideLoop` is about one bot object.  The orders of the two brokers are kept apart by the order
  table (`OneOutstandingOrder`); the cycle lock, which would have kept the cycles apart, is per bot.
* "ok" of a closed position.  "The base asset there was before" in `OkMeansFlat` is counted in lots: the dust that
  base-asset commissions leave below a lot step is not seen.
* `RECOVERY_REQUIRED`.  `README.md:262` says that it cannot be cleared merely by restarting;
  `reconcile_unresolved_orders` clears it at the next start once Binance returns the complete fills
  (`broker.py:343-409`), as `LIVE_TRADING_READINESS.md:100-103` says it should.

## What is proved

Market orders: for any set of orders and any number of brokers (one, where said), any
quantities, filters with `Normalize[q] <= q`, and fees with `Net` monotone and at most
`q`.  These assumptions are the named `ASSUME`s of the modules.

* `Invariance`: `Spec => []IInv`.  The properties are not inductive by themselves.
  `IInv` adds that what the tables call final is final at the exchange with the same
  quantity (`OrderOK`), that a response still held by a broker is either not final
  or the truth (`BrokerOK`), and that only the broker that recorded an intent can
  send it (`SubmitAlone`).  This is why a slow, overwriting
  `update_order_record` is harmless: a final answer never changes, so the
  overwrite that comes late is either equal or leaves the row unresolved.
* `TypeCorrect`, `OneOrderAtATime`, `UnappliedBlocks` follow from it.
* `Refinement`: the lifecycle implements `TradeDiscipline`, with `OutcomeOf` and the
  OPEN row as the refinement mapping.
* `PositionIsBacked`, `ForeignBaseIsKept`: with one broker, from `IInv` and the
  inductive `AccountInv`, which adds `ExitFits` (the outstanding SELL never asks for
  more than the position).

Protection: for any number of lists, any quantities, any foreign base asset and any
values of the commission.  Nothing is assumed of start-up; where a theorem speaks of behaviours up to a lapse,
its property says so.

* `ProtectionInvariance`: `Spec => []IInv`.  The properties are not inductive: a step
  acts upon answers that were true when they were given.  `IInv` adds why they still
  are.  A list that was seen `TERMINAL` executes nothing more, so the executions read
  of its legs are final (`SeenOK`); every list but the named one is over (`RowOK`); a
  list was placed for what the row holds plus what the list has executed and been
  booked (`RowOK`), and no leg executes more than that (`ListOK`); and a SELL is
  pending only for a position without a list, while its own submission or recovery
  goes on or start-up goes on beside it (`SalePending`).  The one step of start-up
  that leaves `SalePending` is the placement of a list, which is the lapse; how list, row and SELL fit
  (`ListsFit`, `SalePending`) is claimed up to there, what was read of a list
  (`SeenOK`), the types and the inequality of the ledger beyond.  The proof
  treats what database and exchange hold (`Data`) with one lemma for each way it
  changes, and then each step with what it has read (`Control`).
* `ProtectionTypes`, `OutstandingListNamed`, `OneSeller`, `ExecutionsAddUp`,
  `StatusHolds` follow from it.
* `DropsFinished`: the action property, by the steps that change the named list before a lapse.
* `ProtectionRefinement`: protection implements `PositionDiscipline`, with the
  account's base above `InitialBase` as what is held and the outstanding list or the
  SELL at the exchange as the seller.  A step that lapses, and those after it, are exempt; `OnlyPlaceLapses`
  shows that no other step is.

Control: for any number of processes, symbols and configured symbols, and run-once of any
of them.

* `ControlInvariance`: `Spec => []IInv`.  That one engine runs is not inductive: it holds
  because loops are only started under the lock, and the lock is released only once the
  last loop has ended.  `IInv` says so for each stage of start, stop and rollback
  (`LockOK`, `ManagerOK`): a refresh runs only without loops, what is left to be
  started has no loop and is in the universe, and the flags tell of the loops except
  while they are being stopped.
* `ControlTypes`, `LoopsAreOwned`, `OneEngine`, `ManualExcludesLoop` follow from it.
* `PositionsAreWatched`, where run-once is asked for configured symbols only (finding 4 is what
  happens otherwise).  `IInv` adds `WatchOK` under that condition: what a refresh selects contains the
  configured symbols and, if a start follows, every tracked one; a start has a loop for, or is
  yet to come to, each of them; and a symbol becomes tracked only through an entry of its
  own loop, which is then watching it, or of a configured symbol.

The cycle: for any number of candles.

* `CycleInvariance`: `Spec => []IInv`.  That a candle is bought on once is not inductive: the check of the
  marker compares two candles for equality, and the marker is one value, overwritten by every entry.  It
  suffices because decisions only get newer.  `IInv` says so: there is one decision at a time, as nothing
  is asked for while one is pending (`OneDecision`); neither it, nor the task's result, nor the rows the task
  waits for are older than the marker (`MarkerBehind`); so an entry goes beyond the marker, and every
  completed one is behind it (`EntriesMarked`).  `PositionDated` and `SignalsDated` tie the position and the
  signal kept for it to the same marker.
* `CycleTypes`, `EntryOnce`, `ExitsFit`, `CandlesClosed` follow from it.

Portfolio entries: for any finite set of symbols, any limits, any entry sizes and any value outside of
the traded symbols.

* `EntryInvariance`: `Spec => []IInv`.  The guard of `execute_entry` reads three things that others
  write: the lock, the order table and a snapshot of the account that is renewed in the background.
  `IInv` says why they suffice together.  The queue names each waiting cycle once, and one cycle at most
  is past its approval (`LockHeldByCycle`, `CycleOK`); one BUY at most is granted or without a known end
  (`BuyIsAlone`); a row is never short of what the account holds (`OrderOK`); and the cached balances,
  or an answer that has arrived and is yet to be read, know of every lot except those of a BUY whose
  `execute_entry` has still to end, and to drop the snapshot then (`Covers`, `SnapshotOK`).
* `LockBelongsToCycles`, `SlotsStayKept`, `BuysOneAtATime` follow from it.
* `SnapshotCovers`, `ExposureStaysKept`, `GuardImplementsAdmission` follow under `RestartSettles`: without
  it an answer may be older than a BUY of the process before.  `SnapshotOK` and `ExposureKept` are in
  `IInv` under that condition only.
* Exposure is a sum over the symbols, which the module computes with the fold of the community modules.
  The proofs show that it is the entry for `Symbols` of a table of the sums over all subsets, and derive its laws (a sum grows with its terms, one changed term changes it by the difference)
  by induction over subsets, stated with a set for the property so that the provers can use it.

The validation commands: for any number of lists, any quantities, any foreign base asset and any
values of the commission.

* `ToolInvariance`: `ToolSpec => []ToolIInv`.  Either no BUY is in doubt, and the `IInv` of `Protection`
  holds; or there is one, and it is all that is left: no row, no SELL and no list that can execute, and no
  command that goes on to trade (`BuyAlone`).  The Broker's steps keep the first by the lemmas of
  `ProtectionProofs`; those of start-up no command takes, so that nothing lapses, which is a part
  of `ToolIInv`.
  `CommandOK` and `VerifyOK` tie the point of a command to the point of the Broker's call, so that a call
  that returns is judged by the command that made it, and say that an opener that looks at its
  list finds the whole position behind it, or is ended by the fill it did not expect.  `ReportOK` says what the
  row is like while "ok" stands.
* `ToolTypes`, `OkMeansFlatHolds`, `OkMeansListedHolds`, `ToolLedgerHolds` follow from it.

Only model-checked is liveness under fairness, which the provers cannot handle: `ExecutionsLand`,
`FillsLand`, `ManagerAnswers`, `ExitChecksGoOn`, `DecisionsSettle` and `ResumeCloses`.  Every invariant, every
action property and every refinement that a passing run checks is also stated by a theorem.  The four
violations are counterexamples of TLC.

## Plan

1. `Ledger`, `OrderLifecycle`, `TradeDiscipline` with proofs: done.
2. `Protection`, `PositionDiscipline` with proofs: done.
3. Orders and protection together: the order table of `OrderLifecycle` beside the list, in place of the
   abstract `sale`: not done.
4. `PortfolioEntry`, `EntryAdmission` with proofs: done.
5. `Control`, `TradingCycle`, `ValidationTool` with proofs: done.
6. Pure parts: quantity filters, risk sizing, learning weights, the trailing stop;
   the request cool-down and the notifier.

## Not modelled

Signal computation (floating point on market data; `TradingCycle` takes its outcome as a choice),
risk sizing, learning weights, the trailing stop and all prices, the request cool-down, the notifier's
duplicate window, metrics, the UI, configuration parsing, logging, and the scripts other than the validator,
which read, report and back-test.  The loss limits and the entry back-off only refuse and are choices where
they are asked.  `PROJECT.json` gives the reason for each.
