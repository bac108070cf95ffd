--------------------------- MODULE PortfolioEntry ---------------------------
(***************************************************************************)
(* Entries of all symbols against the limits of one portfolio, in testnet  *)
(* or live mode: PortfolioCoordinator.execute_entry, snapshot, poll_equity *)
(* and invalidate_account (app/agents/multi_orchestrator.py), with what    *)
(* the orchestrators, one per symbol, do beside them.                      *)
(*                                                                         *)
(* The limits are checked against a snapshot of the account that was       *)
(* requested some time ago, answered some time later, and read by whoever  *)
(* polls next.  An entry that was approved is not yet in any snapshot, and *)
(* an order whose outcome is unknown may still execute.                    *)
(*                                                                         *)
(* Orders are no more than a row and a decision of the exchange here;      *)
(* OrderLifecycle has their detail.  A price is constant, so an amount of  *)
(* money is a number of lots.                                              *)
(***************************************************************************)
EXTENDS Integers, FiniteSets, SequencesExt

CONSTANTS Symbols,
          MaxQty,          \* bound on the lots of an entry
          MaxPositions,    \* MAX_CONCURRENT_POSITIONS
          MaxExposure,     \* MAX_PORTFOLIO_EXPOSURE_FRACTION of equity, in lots
          Outside,         \* lots in the account that no symbol trades
          RestartSettles   \* the exchange decides about a request before the
                           \* process that sent it is followed by another

Qty == 0 .. MaxQty

ASSUME LimitsAssumption ==
    /\ IsFiniteSet(Symbols)
    /\ MaxQty \in Nat /\ MaxPositions \in Nat
    /\ MaxExposure \in Nat /\ Outside \in 0 .. MaxExposure
    /\ RestartSettles \in BOOLEAN

VARIABLES
    trade,      \* lots of the OPEN row of each symbol, 0 if there is none
    order,      \* the unresolved order of each symbol, with its fate
    held,       \* what the account holds of each symbol
    validated,  \* _exchange_validated of each orchestrator
    pc,         \* the await at which the cycle of a symbol stands
    asked,      \* the lots it was granted and has not sent an order for
    line,       \* the entry lock: its holder, and who waits for it in turn
    account     \* the cached snapshot and the tasks that renew it

vars == <<trade, order, held, validated, pc, asked, line, account>>

-----------------------------------------------------------------------------
(* Orders and positions. *)

NoOrder == [side |-> "NONE", qty |-> 0, state |-> "NONE", exec |-> 0]

Orders == [side : {"NONE", "BUY", "SELL"}, qty : Qty,
           state : {"NONE", "INFLIGHT", "DECIDED"}, exec : Qty]

Sent(side, q) == [side |-> side, qty |-> q, state |-> "INFLIGHT", exec |-> 0]

\* The lots an order that was decided leaves in the trades table.
Booked(s) ==
    IF order[s].side = "BUY" THEN order[s].exec ELSE trade[s] - order[s].exec

Resolve(s) ==
    /\ trade' = [trade EXCEPT ![s] = Booked(s)]
    /\ order' = [order EXCEPT ![s] = NoOrder]

\* Mutant: only symbols that have a position are looked at.
PositionsSettled == \A s \in Symbols : trade[s] > 0 => order[s] = NoOrder

PortfolioSettled == \A s \in Symbols : order[s] = NoOrder

\* Mutant: the limit itself still counts as free.
SlotFreeAtLimit == Cardinality({s \in Symbols : trade[s] > 0}) <= MaxPositions

SlotFree == Cardinality({s \in Symbols : trade[s] > 0}) < MaxPositions

-----------------------------------------------------------------------------
(* The account snapshot.  known and balances are _balances; valued says     *)
(* that _other_holdings is complete and free of error; request and          *)
(* valuation are _balance_task and _valuation_task, answer what the former  *)
(* will return.                                                             *)

Nothing == [s \in Symbols |-> 0]

NoAccount == [known |-> FALSE, balances |-> Nothing, valued |-> FALSE,
              request |-> "NONE", answer |-> Nothing, valuation |-> "NONE"]

Accounts == [known : BOOLEAN, balances : [Symbols -> Qty], valued : BOOLEAN,
             request : {"NONE", "PENDING", "DONE", "FAILED"},
             answer : [Symbols -> Qty],
             valuation : {"NONE", "PENDING", "DONE", "FAILED"}]

Sum(f) == FoldFunction(+, 0, f)

\* Mutant: a snapshot is used before the other assets have been valued.
UsableUnvalued == account.known

\* snapshot returns an equity.
Usable == account.known /\ account.valued

\* Assets that were not valued yet do not count: Usable must be asked first.
Exposure == Sum(account.balances) + (IF account.valued THEN Outside ELSE 0)

\* Mutant: the snapshot is dropped, the tasks that renew it are not retired.
InvalidateKeepsTasks ==
    account' = [account EXCEPT !.known = FALSE, !.valued = FALSE]

InvalidateAccount == account' = NoAccount

\* The stages of poll_equity.
TakeValuation(a) ==
    IF a.valuation \in {"DONE", "FAILED"}
    THEN [a EXCEPT !.valued = (a.valuation = "DONE"), !.valuation = "NONE"]
    ELSE a

TakeBalances(a) ==
    CASE a.request = "DONE" ->
            [known |-> TRUE, balances |-> a.answer, valued |-> (Outside = 0),
             request |-> "NONE", answer |-> Nothing,
             valuation |-> IF Outside = 0 THEN a.valuation ELSE "PENDING"]
      [] a.request = "FAILED" ->
            [NoAccount EXCEPT !.valuation = a.valuation]
      [] OTHER -> a

Polled(a) == TakeBalances(TakeValuation(a))

-----------------------------------------------------------------------------

Init ==
    /\ trade = Nothing
    /\ order = [s \in Symbols |-> NoOrder]
    /\ held = Nothing
    /\ validated = [s \in Symbols |-> FALSE]
    /\ pc = [s \in Symbols |-> "idle"]
    /\ asked = Nothing
    /\ line = <<>>
    /\ account = NoAccount

Goto(s, point) == pc' = [pc EXCEPT ![s] = point]

LeaveLine(s) == \E i \in DOMAIN line : line[i] = s /\ line' = RemoveAt(line, i)

\* The end of the try block of execute_entry, whatever ended it.
EndSubmit(s) ==
    /\ Goto(s, "idle")
    /\ asked' = [asked EXCEPT ![s] = 0]
    /\ LeaveLine(s)
    /\ InvalidateAccount

-----------------------------------------------------------------------------
(* A cycle that enters. *)

\* The cycle finds no position, an equity and a free slot, and asks.
Ask(s) ==
    /\ pc[s] = "idle" /\ validated[s]
    /\ trade[s] = 0
    /\ Usable /\ SlotFree
    /\ Goto(s, "asking")
    /\ line' = Append(line, s)
    /\ UNCHANGED <<trade, order, held, validated, asked, account>>

HasLock(s) == line # <<>> /\ Head(line) = s

\* Where a cycle may stand inside the try block of execute_entry.
Admitted == {"entering", "sent", "protecting"}

\* Every check of execute_entry passes, and those of enter up to its first
\* await.
Approve(s, q) ==
    /\ pc[s] = "asking" /\ HasLock(s)
    /\ SlotFree
    /\ PortfolioSettled
    /\ Usable
    /\ Exposure + q <= MaxExposure
    /\ trade[s] = 0
    /\ Goto(s, "entering")
    /\ asked' = [asked EXCEPT ![s] = q]
    /\ UNCHANGED <<trade, order, held, validated, line, account>>

\* A check fails, one of these or one on what is not modelled: the age of
\* the snapshot or of a price, the quote balance, the losses of the day.
Refuse(s) ==
    /\ pc[s] = "asking" /\ HasLock(s)
    /\ Goto(s, "idle")
    /\ LeaveLine(s)
    /\ UNCHANGED <<trade, order, held, validated, asked, account>>

\* The quantity filters, liquidity or record_order_intent stop the entry.
AbandonEntry(s) ==
    /\ pc[s] = "entering"
    /\ EndSubmit(s)
    /\ UNCHANGED <<trade, order, held, validated>>

SubmitBuy(s) ==
    /\ pc[s] = "entering"
    /\ order[s] = NoOrder /\ trade[s] = 0
    /\ order' = [order EXCEPT ![s] = Sent("BUY", asked[s])]
    /\ asked' = [asked EXCEPT ![s] = 0]
    /\ Goto(s, "sent")
    /\ UNCHANGED <<trade, held, validated, line, account>>

\* The position is recorded; enter goes on to protect it.
BuyRecorded(s) ==
    /\ pc[s] = "sent"
    /\ order[s].state = "DECIDED" /\ order[s].exec > 0
    /\ Resolve(s)
    /\ Goto(s, "protecting")
    /\ UNCHANGED <<held, validated, asked, line, account>>

BuyUnfilled(s) ==
    /\ pc[s] = "sent"
    /\ order[s].state = "DECIDED" /\ order[s].exec = 0
    /\ Resolve(s)
    /\ EndSubmit(s)
    /\ UNCHANGED <<held, validated>>

\* No answer, or one that proves nothing: the row stays unresolved.
BuyUncertain(s) ==
    /\ pc[s] = "sent"
    /\ EndSubmit(s)
    /\ UNCHANGED <<trade, order, held, validated>>

\* Mutant: an entry that succeeded leaves the snapshot as it is.
EntryReturnsCached(s) ==
    /\ pc[s] = "protecting"
    /\ Goto(s, "idle")
    /\ LeaveLine(s)
    /\ UNCHANGED <<trade, order, held, validated, asked, account>>

EntryReturns(s) ==
    /\ pc[s] = "protecting"
    /\ EndSubmit(s)
    /\ UNCHANGED <<trade, order, held, validated>>

-----------------------------------------------------------------------------
(* A cycle that exits. *)

SubmitSell(s) ==
    /\ pc[s] = "idle" /\ validated[s]
    /\ trade[s] > 0 /\ order[s] = NoOrder
    /\ order' = [order EXCEPT ![s] = Sent("SELL", trade[s])]
    /\ Goto(s, "selling")
    /\ UNCHANGED <<trade, held, validated, asked, line, account>>

SellRecorded(s) ==
    /\ pc[s] = "selling"
    /\ order[s].state = "DECIDED"
    /\ Resolve(s)
    /\ Goto(s, "idle")
    /\ InvalidateAccount
    /\ UNCHANGED <<held, validated, asked, line>>

\* The exception passes by the invalidation.
SellUncertain(s) ==
    /\ pc[s] = "selling"
    /\ Goto(s, "idle")
    /\ UNCHANGED <<trade, order, held, validated, asked, line, account>>

\* Mutant: a drop is booked although a SELL of unknown outcome explains it.
ListRecordedBesideSell(s) ==
    /\ pc[s] = "idle" /\ validated[s]
    /\ held[s] < trade[s]
    /\ trade' = [trade EXCEPT ![s] = held[s]]
    /\ InvalidateAccount
    /\ UNCHANGED <<order, held, validated, pc, asked, line>>

\* maybe_exit books what the protective list has sold.
ListRecorded(s) ==
    /\ pc[s] = "idle" /\ validated[s]
    /\ order[s] = NoOrder /\ held[s] < trade[s]
    /\ trade' = [trade EXCEPT ![s] = held[s]]
    /\ InvalidateAccount
    /\ UNCHANGED <<order, held, validated, pc, asked, line>>

-----------------------------------------------------------------------------
(* The account cache. *)

\* poll_equity, in the cycle of some symbol or for the dashboard, which asks
\* whether or not a bot runs.
Poll ==
    /\ LET polled == Polled(account) IN
        \/ account' = polled
        \/ /\ polled.request = "NONE" /\ polled.valuation = "NONE"
           /\ account' = [polled EXCEPT !.request = "PENDING"]
    /\ UNCHANGED <<trade, order, held, validated, pc, asked, line>>

AccountAnswers ==
    /\ account.request = "PENDING"
    /\ \/ account' = [account EXCEPT !.request = "DONE", !.answer = held]
       \/ account' = [account EXCEPT !.request = "FAILED"]
    /\ UNCHANGED <<trade, order, held, validated, pc, asked, line>>

ValuationEnds ==
    /\ account.valuation = "PENDING"
    /\ \E result \in {"DONE", "FAILED"} :
        account' = [account EXCEPT !.valuation = result]
    /\ UNCHANGED <<trade, order, held, validated, pc, asked, line>>

\* close, once every bot has stopped.
Close ==
    /\ \A s \in Symbols : pc[s] = "idle"
    /\ InvalidateAccount
    /\ UNCHANGED <<trade, order, held, validated, pc, asked, line>>

-----------------------------------------------------------------------------
(* Start, stop and process death. *)

\* _ensure_exchange_config: what became of the order, or of the list, is
\* found out, or it is not.  It may raise after that.
Validate(s) ==
    /\ ~validated[s] /\ pc[s] = "idle"
    /\ \E ok \in BOOLEAN : validated' = [validated EXCEPT ![s] = ok]
    /\ \/ /\ order[s].state = "DECIDED"
          /\ Resolve(s)
       \/ /\ order[s] = NoOrder
          /\ trade' = [trade EXCEPT ![s] = held[s]]
          /\ UNCHANGED order
       \/ UNCHANGED <<trade, order>>
    /\ UNCHANGED <<held, pc, asked, line, account>>

\* stop cancels a task that waits for the lock, ...
CancelAsking(s) ==
    /\ pc[s] = "asking"
    /\ Goto(s, "idle")
    /\ LeaveLine(s)
    /\ UNCHANGED <<trade, order, held, validated, asked, account>>

\* Mutant: the lock is not released.
CancelKeepsLock(s) ==
    /\ pc[s] \in Admitted
    /\ Goto(s, "idle")
    /\ asked' = [asked EXCEPT ![s] = 0]
    /\ InvalidateAccount
    /\ UNCHANGED <<trade, order, held, validated, line>>

\* ... one inside the try block, ...
CancelSubmit(s) ==
    /\ pc[s] \in Admitted
    /\ EndSubmit(s)
    /\ UNCHANGED <<trade, order, held, validated>>

\* ... or one that sells.
CancelSell(s) ==
    /\ pc[s] = "selling"
    /\ Goto(s, "idle")
    /\ UNCHANGED <<trade, order, held, validated, asked, line, account>>

Crash ==
    /\ RestartSettles => \A s \in Symbols : order[s].state # "INFLIGHT"
    /\ validated' = [s \in Symbols |-> FALSE]
    /\ pc' = [s \in Symbols |-> "idle"]
    /\ asked' = Nothing
    /\ line' = <<>>
    /\ account' = NoAccount
    /\ UNCHANGED <<trade, order, held>>

-----------------------------------------------------------------------------
(* The exchange. *)

\* It executes all, a part or nothing of an order and closes it.
Decide(s) ==
    /\ order[s].state = "INFLIGHT"
    /\ \E n \in 0 .. order[s].qty :
        /\ order' = [order EXCEPT ![s].state = "DECIDED", ![s].exec = n]
        /\ IF order[s].side = "BUY"
           THEN held' = [held EXCEPT ![s] = @ + n]
           ELSE n <= held[s] /\ held' = [held EXCEPT ![s] = @ - n]
    /\ UNCHANGED <<trade, validated, pc, asked, line, account>>

\* A leg of the protective list executes.
ListFills(s) ==
    /\ order[s] = NoOrder /\ trade[s] > 0
    /\ \E n \in 1 .. held[s] : held' = [held EXCEPT ![s] = @ - n]
    /\ UNCHANGED <<trade, order, validated, pc, asked, line, account>>

-----------------------------------------------------------------------------

EntryStep(s) ==
    \/ \E q \in Qty \ {0} : Approve(s, q)
    \/ Refuse(s) \/ AbandonEntry(s) \/ SubmitBuy(s)
    \/ BuyRecorded(s) \/ BuyUnfilled(s) \/ BuyUncertain(s) \/ EntryReturns(s)

ExitStep(s) ==
    SubmitSell(s) \/ SellRecorded(s) \/ SellUncertain(s) \/ ListRecorded(s)

Stop(s) == CancelAsking(s) \/ CancelSubmit(s) \/ CancelSell(s)

Next ==
    \/ \E s \in Symbols :
        \/ Ask(s) \/ EntryStep(s) \/ ExitStep(s)
        \/ Validate(s) \/ Stop(s)
        \/ Decide(s) \/ ListFills(s)
    \/ Poll \/ AccountAnswers \/ ValuationEnds \/ Close \/ Crash

Spec == Init /\ [][Next]_vars

-----------------------------------------------------------------------------
(* Properties. *)

TypeOK ==
    /\ trade \in [Symbols -> Qty] /\ order \in [Symbols -> Orders]
    /\ held \in [Symbols -> Qty] /\ validated \in [Symbols -> BOOLEAN]
    /\ pc \in [Symbols -> {"idle", "asking", "entering", "sent",
                          "protecting", "selling"}]
    /\ asked \in [Symbols -> Qty]
    /\ line \in Seq(Symbols)
    /\ account \in Accounts

\* What a symbol may still buy: granted, or on its way to the exchange.
Pending(s) ==
    IF order[s].side = "BUY" /\ order[s].state = "INFLIGHT"
    THEN order[s].qty ELSE asked[s]

Committed == [s \in Symbols |-> held[s] + Pending(s)]

\* A symbol that has a position, or a BUY that may turn out to be one.
TakesSlot(s) ==
    trade[s] > 0 \/ Pending(s) > 0 \/ (order[s].side = "BUY" /\ order[s].exec > 0)

\* MAX_CONCURRENT_POSITIONS holds for the positions together with every BUY
\* that was approved, is at the exchange or is not booked yet, although
\* entry_capacity_reason counts the rows of the trades table only.
SlotsKept == Cardinality({s \in Symbols : TakesSlot(s)}) <= MaxPositions

\* What the account holds together with all that may still be bought never
\* exceeds the exposure limit, although execute_entry looks at a cached
\* snapshot that is renewed in the background.
ExposureKept == Outside + Sum(Committed) <= MaxExposure

\* At most one BUY of the whole portfolio is approved, at the exchange or of
\* unknown outcome, whatever was cancelled or restarted meanwhile.
OneBuyAtATime ==
    Cardinality({s \in Symbols : asked[s] > 0 \/ order[s].side = "BUY"}) <= 1

\* Whenever an entry could be approved the snapshot knows of every lot the
\* account holds: no answer from before a BUY outlives it.
SnapshotCoversHoldings ==
    (Usable /\ PortfolioSettled /\ \A s \in Symbols : pc[s] # "protecting")
        => \A s \in Symbols : held[s] <= account.balances[s]

\* execute_entry decides as if it saw account and outstanding orders at once:
\* the coordinator implements EntryAdmission.
Admission == INSTANCE EntryAdmission WITH
    lots  <- held,
    grant <- [s \in Symbols |-> Pending(s)],
    open  <- {s \in Symbols :
                trade[s] > 0 \/ (order[s].side = "BUY" /\ order[s].exec > 0)}
ImplementsAdmission == Admission!Spec

\* The entry lock is held and waited for by live cycles only, and one of them
\* at most is past its approval: no entry that fails, times out or is cancelled
\* at any of its awaits keeps the lock from the symbols in line.
LockHeldByCycle ==
    \A s \in Symbols :
        /\ Cardinality({i \in DOMAIN line : line[i] = s}) =
               (IF pc[s] \in {"asking"} \cup Admitted THEN 1 ELSE 0)
        /\ pc[s] \in Admitted => HasLock(s)

-----------------------------------------------------------------------------
(* The invariant that implies them by induction. *)

\* A symbol that was granted an entry or has a BUY without a known end.
Buys(s) == asked[s] > 0 \/ order[s].side = "BUY"

BuyIsAlone == \A s, t \in Symbols : Buys(s) /\ Buys(t) => s = t

CycleOK(s) ==
    /\ pc[s] # "idle" => validated[s]
    /\ asked[s] > 0 => pc[s] = "entering"
    /\ pc[s] = "entering" => \A t \in Symbols : order[t].side # "BUY"

\* A row is never short of what the account holds: the lots that a BUY adds
\* are counted before they are booked, and what a SELL or the protective list
\* takes away is booked afterwards.
OrderOK(s) ==
    /\ order[s].state = "NONE" => order[s] = NoOrder
    /\ order[s].state # "NONE" => order[s].side # "NONE"
    /\ order[s].side = "BUY" => trade[s] = 0
    /\ order[s].side = "SELL" => order[s].qty = trade[s]
    /\ order[s].exec <= order[s].qty
    /\ order[s].state = "INFLIGHT" => order[s].exec = 0
    /\ held[s] <= IF order[s].state = "DECIDED" THEN Booked(s) ELSE trade[s]

\* Balances b know of all lots of every symbol, except of those whose BUY is
\* under way or has just been recorded: execute_entry has yet to end, and
\* drops the snapshot then.
Covers(b) ==
    \A s \in Symbols :
        held[s] > b[s] => \/ order[s].side = "BUY" /\ validated[s]
                         \/ pc[s] = "protecting"

SnapshotOK ==
    /\ \A s \in Symbols : order[s].state = "INFLIGHT" => validated[s]
    /\ account.known => Covers(account.balances)
    /\ account.request = "DONE" => Covers(account.answer)

\* The lock, the rows and the snapshot together: each limit is kept by what
\* execute_entry reads because no BUY is outside of what it can see.
IInv ==
    /\ TypeOK /\ LockHeldByCycle
    /\ BuyIsAlone
    /\ \A s \in Symbols : CycleOK(s) /\ OrderOK(s)
    /\ SlotsKept
    /\ RestartSettles => SnapshotOK /\ ExposureKept

=============================================================================
