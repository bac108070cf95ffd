---------------------------- MODULE TradingCycle ----------------------------
(***************************************************************************)
(* From candles to orders: the cycles of one TradingOrchestrator           *)
(* (app/agents/orchestrator.py).  A background task fetches candles and    *)
(* asks the strategy and the advisor while cycles go on watching the       *)
(* position; its decision stays pending until a cycle has acted upon it,   *)
(* and each candle may be used for one entry.                              *)
(*                                                                         *)
(* The broker is reduced to what its calls leave behind: OrderLifecycle    *)
(* and Protection have their steps.  Checks that only refuse (price,       *)
(* cool-down, back-off, risk, portfolio) are a choice.                     *)
(***************************************************************************)
EXTENDS Integers

CONSTANT MaxCandle   \* bound on the candles that are ever completed

ASSUME CandleAssumption == MaxCandle \in Nat \ {0}

VARIABLES
    clock,      \* in half candles: candle k closes at 2k
    running,    \* the loop is alive
    validated,  \* _exchange_validated
    cached,     \* the decision acted upon last, cached_signal
    pending,    \* pending_strategy_result
    task,       \* strategy_task
    pc,         \* the await at which the cycle stands
    manual,     \* it is a run-once: force_strategy is set
    candidate,  \* locals of the cycle: the decision it goes by, and
    sold,       \* whether the first exit check has tried to sell
    trade,      \* the candle on which the OPEN trade was entered, or 0
    doubt,      \* what the unresolved order of the symbol was sent for
    used,       \* the candle saved under _entry_state_key
    entries     \* history: what came of the entries on each candle

mind    == <<cached, pending>>
locals  == <<pc, manual, candidate, sold>>
ledger  == <<trade, doubt, used, entries>>
control == <<running, validated>>
vars    == <<clock, control, mind, task, locals, ledger>>

-----------------------------------------------------------------------------
(* Time and decisions. *)

Candles == 1 .. MaxCandle

\* An interval is two ticks, and the refresh grace less than one.
End == 2 * MaxCandle + 3

\* The newest candle that is completed, and the one after it.
Newest  == IF clock \div 2 < MaxCandle THEN clock \div 2 ELSE MaxCandle
Forming == IF Newest < MaxCandle THEN Newest + 1 ELSE MaxCandle

\* Mutant: decisions do not age.
NeverExpired(d) == FALSE

\* Older than an interval and the grace: _candidate_expired, and the test of
\* _strategy_refresh_due on the candle of the cached signal.
Expired(d) == clock > 2 * d.candle + 2

None == [candle |-> 0, side |-> "HOLD"]

Decisions == {None} \cup [candle : Candles, side : {"BUY", "SELL", "HOLD"}]

\* What EnsembleStrategy.evaluate may say.
Sides == IF trade = 0 THEN {"BUY", "HOLD"} ELSE {"SELL", "HOLD"}

NoTask == [stage |-> "none", rows |-> 0, result |-> None]

\* The klines request: rows is the newest candle the answer has at least.
Asked == [stage |-> "asked", rows |-> Forming, result |-> None]

Tasks == [stage : {"none", "asked", "advising", "done", "failed"},
          rows : 0 .. MaxCandle, result : Decisions]

Init ==
    /\ clock = 2
    /\ running = FALSE /\ validated = FALSE
    /\ cached = None /\ pending = None
    /\ task = NoTask
    /\ pc = "idle" /\ manual = FALSE /\ candidate = None /\ sold = FALSE
    /\ trade = 0 /\ doubt = None /\ used = 0
    /\ entries = [k \in Candles |-> "none"]

\* The market goes on; no candle after the last one closes.
Tick ==
    /\ clock < End
    /\ clock' = clock + 1
    /\ UNCHANGED <<control, mind, task, locals, ledger>>

-----------------------------------------------------------------------------
(* The strategy task, _compute_strategy. *)

\* Mutant: the last row counts whether it is completed or not.
LastRow(rows) == rows

\* The last completed one among the candles of an answer.
LastCompleted(rows) == IF rows < Newest THEN rows ELSE Newest

\* The rows arrive, read by the exchange at some time since the request.  A
\* loop's refresh that finds the candle decided already returns nothing.
Evaluate ==
    /\ task.stage = "asked"
    /\ \E rows \in task.rows .. Forming, side \in Sides :
        LET d == [candle |-> LastCompleted(rows), side |-> side] IN
        task' = IF ~manual /\ d.candle = cached.candle
                THEN [NoTask EXCEPT !.stage = "done"]
                ELSE [NoTask EXCEPT !.stage = IF side = "HOLD" THEN "done" ELSE "advising",
                                    !.result = d]
    /\ UNCHANGED <<clock, control, mind, locals, ledger>>

\* confidence_adjustment returns whatever becomes of its request.
Advised ==
    /\ task.stage = "advising"
    /\ task' = [task EXCEPT !.stage = "done"]
    /\ UNCHANGED <<clock, control, mind, locals, ledger>>

\* The request fails, or too few of the rows are completed.
StrategyFails ==
    /\ task.stage = "asked"
    /\ task' = [NoTask EXCEPT !.stage = "failed"]
    /\ UNCHANGED <<clock, control, mind, locals, ledger>>

StrategyStep == Evaluate \/ Advised \/ StrategyFails

-----------------------------------------------------------------------------
(* A cycle. *)

\* The locals of a cycle that has ended mean nothing.
EndCycle ==
    /\ pc' = "idle" /\ manual' = FALSE
    /\ candidate' = None /\ sold' = FALSE

Proceed(point) == pc' = point /\ UNCHANGED manual

\* _commit_strategy.
Commit(d) ==
    /\ cached' = d
    /\ pending' = IF pending.candle = d.candle THEN None ELSE pending

BeginCycle(force) ==
    /\ pc = "idle" /\ validated
    /\ running # force
    /\ pc' = "pricing"
    /\ manual' = force
    /\ UNCHANGED <<clock, control, mind, task, candidate, sold, ledger>>

\* _market_price returns: a position is looked after before anything else.
Priced ==
    /\ pc = "pricing"
    /\ Proceed(IF trade # 0 THEN "checking" ELSE "polling")
    /\ UNCHANGED <<clock, control, mind, task, candidate, sold, ledger>>

PriceFails ==
    /\ pc = "pricing"
    /\ EndCycle
    /\ UNCHANGED <<clock, control, mind, task, ledger>>

\* What an exit that is cut short may leave: nothing, or a SELL of which the
\* outcome is unknown.
SellInDoubt ==
    \/ UNCHANGED doubt
    \/ trade # 0 /\ doubt = None /\ doubt' = [candle |-> trade, side |-> "SELL"]

AfterCheck == IF pc = "checking" THEN "polling" ELSE "account"

\* maybe_exit, with the cached signal or with the candidate's: the position
\* is kept, although it may have been tried to sell it, ...
ExitHolds ==
    /\ pc \in {"checking", "deciding"}
    /\ Proceed(AfterCheck)
    /\ sold' \in {FALSE, pc = "checking" /\ doubt = None}
    /\ UNCHANGED <<clock, control, mind, task, candidate, ledger>>

\* ... sold, for the price or on the signal, or found sold by its list, ...
ExitSells ==
    /\ pc \in {"checking", "deciding"}
    /\ doubt = None
    /\ trade' = 0
    /\ Proceed(AfterCheck)
    /\ sold' = (pc = "checking")
    /\ UNCHANGED <<clock, control, mind, task, candidate, doubt, used, entries>>

\* ... or the check raises, with or without a SELL of unknown outcome.
ExitFails ==
    /\ pc \in {"checking", "deciding"}
    /\ SellInDoubt
    /\ EndCycle
    /\ UNCHANGED <<clock, control, mind, task, trade, used, entries>>

-----------------------------------------------------------------------------
(* The decision of the cycle, _poll_strategy.  Results of the task become    *)
(* pending, and what is pending is used until it is committed or expires.    *)

\* The cycle goes by decision d, or by none.
GoBy(d) ==
    /\ candidate' = d
    /\ sold' = FALSE
    /\ Proceed(IF trade # 0 /\ d # None /\ ~sold THEN "deciding" ELSE "account")

Kept == pending # None /\ ~Expired(pending)

\* No new one is fetched meanwhile, not even for a run-once.
PollPending ==
    /\ pc = "polling" /\ Kept
    /\ GoBy(pending)
    /\ UNCHANGED <<clock, control, mind, task, ledger>>

RefreshDue == cached = None \/ Expired(cached)

\* Mutant: the loop waits for the answer as a run-once does.
PollAskWaiting ==
    /\ pc = "polling" /\ ~Kept
    /\ pending' = None
    /\ task = NoTask /\ (manual \/ RefreshDue)
    /\ task' = Asked
    /\ Proceed("waiting") /\ UNCHANGED <<candidate, sold>>
    /\ UNCHANGED <<clock, control, cached, ledger>>

\* Mutant: a decision that is pending does not keep a run-once from asking.
PollAskBeside ==
    /\ pc = "polling" /\ (manual \/ ~Kept)
    /\ pending' = IF Kept THEN pending ELSE None
    /\ task = NoTask /\ (manual \/ RefreshDue)
    /\ task' = Asked
    /\ IF manual
       THEN Proceed("waiting") /\ UNCHANGED <<candidate, sold>>
       ELSE GoBy(None)
    /\ UNCHANGED <<clock, control, cached, ledger>>

\* A run-once waits for the answer, the loop goes on without.
PollAsk ==
    /\ pc = "polling" /\ ~Kept
    /\ pending' = None
    /\ task = NoTask /\ (manual \/ RefreshDue)
    /\ task' = Asked
    /\ IF manual
       THEN Proceed("waiting") /\ UNCHANGED <<candidate, sold>>
       ELSE GoBy(None)
    /\ UNCHANGED <<clock, control, cached, ledger>>

\* Nothing is due, or the task is not done.
PollNothing ==
    /\ pc = "polling" /\ ~Kept /\ ~manual
    /\ pending' = None
    /\ IF task = NoTask THEN ~RefreshDue ELSE task.stage \in {"asked", "advising"}
    /\ GoBy(None)
    /\ UNCHANGED <<clock, control, cached, task, ledger>>

\* The task is done or has failed.  A result that took too long is dropped.
TakeResult ==
    /\ \/ pc = "polling" /\ ~Kept
       \/ pc = "waiting"
    /\ task.stage \in {"done", "failed"}
    /\ task' = NoTask
    /\ LET d == IF Expired(task.result) THEN None ELSE task.result IN
        pending' = d /\ GoBy(d)
    /\ UNCHANGED <<clock, control, cached, ledger>>

-----------------------------------------------------------------------------
(* The rest of the cycle: equity, quality, risk, and the entry. *)

\* There is a position already, so this is all there was to decide.
ConcludeOpen ==
    /\ pc = "account" /\ trade # 0
    /\ IF candidate = None THEN UNCHANGED mind ELSE Commit(candidate)
    /\ EndCycle
    /\ UNCHANGED <<clock, control, task, ledger>>

ConcludeIdle ==
    /\ pc = "account" /\ trade = 0 /\ candidate = None
    /\ EndCycle
    /\ UNCHANGED <<clock, control, mind, task, ledger>>

\* Mutant: the marker is compared with the candle of the cached signal.
CachedCandleUsed == candidate.side = "BUY" /\ used = cached.candle

AlreadyUsed == candidate.side = "BUY" /\ used = candidate.candle

\* The candle was used, the quality or risk checks refuse: this was the
\* decision's chance.
Refuse ==
    /\ pc = "account" /\ trade = 0 /\ candidate # None
    /\ Commit(candidate)
    /\ EndCycle
    /\ UNCHANGED <<clock, control, task, ledger>>

\* There is no equity yet, or something raises: the decision stays pending.
Postpone ==
    /\ pc = "account"
    /\ EndCycle
    /\ UNCHANGED <<clock, control, mind, task, ledger>>

Approve ==
    /\ pc = "account" /\ trade = 0
    /\ candidate.side = "BUY"
    /\ ~AlreadyUsed /\ ~Expired(candidate)
    /\ Proceed("entering")
    /\ UNCHANGED <<clock, control, mind, task, candidate, sold, ledger>>

\* execute_entry or enter refuses, or the BUY executed nothing.
EntryRefused ==
    /\ pc = "entering"
    /\ EndCycle
    /\ UNCHANGED <<clock, control, mind, task, ledger>>

Cut == entries' = [entries EXCEPT ![candidate.candle] = "cut"]

\* What an entry that is cut short may leave before its trade is recorded.
BuyInDoubt ==
    \/ UNCHANGED <<doubt, entries>>
    \/ doubt = None /\ doubt' = candidate /\ Cut

EntryFails ==
    /\ pc = "entering"
    /\ BuyInDoubt
    /\ EndCycle
    /\ UNCHANGED <<clock, control, mind, task, trade, used>>

\* The trade is recorded; enter goes on to protect it.
Bought ==
    /\ pc = "entering"
    /\ doubt = None
    /\ trade' = candidate.candle
    /\ entries' = [entries EXCEPT ![candidate.candle] =
                      CASE @ = "none" -> "once" [] @ = "once" -> "twice" [] OTHER -> @]
    /\ Proceed("protecting")
    /\ UNCHANGED <<clock, control, mind, task, candidate, sold, doubt, used>>

\* Mutant: an entry does not commit its decision.
EntryReturnsUncommitted ==
    /\ pc = "protecting"
    /\ used' = candidate.candle
    /\ EndCycle
    /\ UNCHANGED <<clock, control, mind, task, trade, doubt, entries>>

\* The candle is marked once enter has returned.
EntryReturns ==
    /\ pc = "protecting"
    /\ used' = candidate.candle
    /\ Commit(candidate)
    /\ EndCycle
    /\ UNCHANGED <<clock, control, task, trade, doubt, entries>>

\* Protection raises, or the marker cannot be saved.
ProtectionFails ==
    /\ pc = "protecting"
    /\ Cut
    /\ EndCycle
    /\ UNCHANGED <<clock, control, mind, task, trade, doubt, used>>

-----------------------------------------------------------------------------
(* Start, stop and process death. *)

\* _ensure_exchange_config, as analyze_once calls it and as start and run-once
\* do first: what became of an order is found out, or not, or the list has
\* sold the position.
Reconcile ==
    /\ pc = "idle" /\ ~validated
    /\ validated' \in BOOLEAN
    /\ \/ UNCHANGED <<trade, doubt>>
       \/ doubt # None /\ doubt' = None /\ UNCHANGED trade
       \/ doubt.side = "BUY" /\ doubt' = None /\ trade' = doubt.candle
       \/ doubt.side # "BUY" /\ doubt' = None /\ trade' = 0
    /\ UNCHANGED <<clock, running, mind, task, locals, used, entries>>

Start ==
    /\ ~running /\ pc = "idle" /\ validated
    /\ running' = TRUE
    /\ UNCHANGED <<clock, validated, mind, task, locals, ledger>>

\* What a cycle leaves that ends at the await where it stands.
CutShort ==
    CASE pc \in {"checking", "deciding"} -> SellInDoubt /\ UNCHANGED entries
      [] pc = "entering" -> BuyInDoubt
      [] pc = "protecting" -> Cut /\ UNCHANGED doubt
      [] OTHER -> UNCHANGED <<doubt, entries>>

Interrupt ==
    /\ CutShort
    /\ EndCycle
    /\ task' = NoTask
    /\ UNCHANGED <<clock, trade, used>>

\* The decisions outlive stop, ...
Stop ==
    /\ running
    /\ running' = FALSE
    /\ Interrupt
    /\ UNCHANGED <<validated, mind>>

\* ... but not the process.
Crash ==
    /\ running' = FALSE /\ validated' = FALSE
    /\ cached' = None /\ pending' = None
    /\ Interrupt

-----------------------------------------------------------------------------

ExitStep == ExitHolds \/ ExitSells \/ ExitFails

PollStep == PollPending \/ PollAsk \/ PollNothing \/ TakeResult

EntryStep ==
    \/ Approve \/ EntryRefused \/ EntryFails
    \/ Bought \/ EntryReturns \/ ProtectionFails

ConcludeStep == ConcludeOpen \/ ConcludeIdle \/ Refuse \/ Postpone

CycleStep ==
    \/ BeginCycle(FALSE) \/ Priced \/ PriceFails
    \/ ExitStep \/ PollStep \/ EntryStep \/ ConcludeStep

Next ==
    \/ Tick \/ StrategyStep
    \/ CycleStep \/ BeginCycle(TRUE)
    \/ Reconcile \/ Start \/ Stop \/ Crash

Spec == Init /\ [][Next]_vars

\* Time passes, the loop goes on and its awaits end, as every request has a
\* timeout; a price or an exit check that is asked for again and again does not
\* always fail.  Nothing is assumed of the strategy task.
FairSpec ==
    /\ Spec
    /\ WF_vars(Tick) /\ WF_vars(CycleStep)
    /\ SF_vars(Priced) /\ SF_vars(ExitHolds \/ ExitSells)

-----------------------------------------------------------------------------
(* Properties. *)

TypeOK ==
    /\ clock \in 2 .. End
    /\ running \in BOOLEAN /\ validated \in BOOLEAN
    /\ cached \in Decisions /\ pending \in Decisions
    /\ task \in Tasks
    /\ pc \in {"idle", "pricing", "checking", "polling", "waiting", "deciding",
               "account", "entering", "protecting"}
    /\ manual \in BOOLEAN /\ candidate \in Decisions /\ sold \in BOOLEAN
    /\ trade \in 0 .. MaxCandle /\ doubt \in Decisions
    /\ used \in 0 .. MaxCandle
    /\ entries \in [Candles -> {"none", "once", "twice", "cut"}]

\* However often a candle is decided anew (run-once forces it, a stop or a
\* crash loses what was decided), it is bought on once.  The exception is an
\* entry that was cut short before its candle was marked.
OneEntryPerCandle == \A k \in Candles : entries[k] # "twice"

\* The decision that maybe_exit is given.
ExitSignal == IF pc = "checking" THEN cached ELSE candidate

\* A position is never sold for a decision about a candle before its entry,
\* though the signal given to maybe_exit is the one cached last.  The exception
\* is again an entry that was cut short: it leaves the signal from before it.
ExitSignalsFit ==
    (pc \in {"checking", "deciding"} /\ trade # 0 /\ ExitSignal.side = "SELL")
        => ExitSignal.candle >= trade \/ entries[trade] = "cut"

\* No decision is about a candle that has not closed.
DecisionsOnClosedCandles ==
    \A d \in {cached, pending, candidate, task.result} : 2 * d.candle <= clock

\* Why it is so, as an inductive invariant.  There is one decision at a time:
\* the cycle goes by what is pending, and nothing is asked for meanwhile.
OneDecision ==
    /\ pending # None => task = NoTask
    /\ candidate # None =>
        /\ candidate = pending
        /\ pc \notin {"idle", "pricing", "checking", "polling", "waiting"}

\* It is never older than the candle that was marked last, ...
MarkerBehind ==
    /\ 2 * used <= clock
    /\ \A d \in {pending, task.result} : d # None => used <= d.candle
    /\ task.stage = "asked" => task.rows \in Candles /\ used <= task.rows

\* ... so that an entry goes beyond it, and one that was not cut short is
\* marked or about to be.
EntriesMarked ==
    /\ pc \in {"entering", "protecting"} => candidate.side = "BUY" /\ used < candidate.candle
    /\ \A k \in Candles : entries[k] = "once" =>
           k <= used \/ (pc = "protecting" /\ candidate.candle = k)

\* The same tells to which candle a position belongs.
PositionDated ==
    /\ trade # 0 => \/ entries[trade] = "cut"
                   \/ trade = used
                   \/ (pc = "protecting" /\ trade = candidate.candle)
    /\ doubt.side = "BUY" => trade = 0 /\ entries[doubt.candle] = "cut"
    /\ pc = "entering" => trade = 0
    /\ pc = "protecting" => trade = candidate.candle /\ doubt = None

\* And the signal that is kept for the position is no older.
SignalsDated ==
    (trade # 0 /\ pc # "protecting" /\ cached.side = "SELL")
        => cached.candle >= trade \/ entries[trade] = "cut"

IInv ==
    /\ TypeOK
    /\ OneEntryPerCandle /\ ExitSignalsFit /\ DecisionsOnClosedCandles
    /\ OneDecision /\ MarkerBehind /\ EntriesMarked /\ PositionDated /\ SignalsDated

\* Slow, failed or unanswered strategy requests do not keep the loop from
\* looking after its position (README.md:34).
ExitChecksGoOn ==
    (running /\ trade # 0) ~> (pc = "checking" \/ trade = 0 \/ ~running)

\* A decision that cannot be acted upon, because the equity is unknown or
\* entries are refused, does not keep newer ones away (README.md:182).
DecisionsSettle == pending # None ~> (pending = None \/ ~running)

=============================================================================
