----------------------------- MODULE Protection -----------------------------
(***************************************************************************)
(* The protective order list (OCO) of one position: app/execution/         *)
(* protection.py with the parts of Broker.enter, Broker.maybe_exit and of  *)
(* the start-up sequence that use it, in testnet or live mode.             *)
(*                                                                         *)
(* One broker runs, as within a process: a trade dict read before an await *)
(* still describes the row after it.  Market orders appear as              *)
(* OrderLifecycle and TradeDiscipline have them, one at a time and each    *)
(* applied once: a BUY is over when its position is recorded, a SELL is    *)
(* pending from its intent row until its executions are in the ledger.     *)
(*                                                                         *)
(* Every action is a stretch of code between two awaits, or between two    *)
(* SQLite transactions.                                                    *)
(***************************************************************************)
EXTENDS Integers

CONSTANTS Lists,         \* list client ids: each is minted once (uuid4)
          NoList,        \* "no list id"
          MaxQty,        \* bound on a position
          InitialBase,   \* base asset in the account that is not the bot's
          Rates          \* market values of the commission of a lot, in quote

Qty  == 0 .. MaxQty
Legs == {"tp", "sl"}

ASSUME ListAssumption == NoList \notin Lists
ASSUME BaseAssumption == MaxQty \in Nat /\ InitialBase \in Nat
ASSUME RateAssumption == Rates \subseteq Nat

VARIABLES
    row,        \* the OPEN row of the trades table with its protection columns
    lists,      \* the exchange's own view of each list and of its two legs
    base,       \* base asset in the exchange account
    rate,       \* what the commission of a lot is worth now
    sale,       \* the market SELL whose outcome is not in the ledger
    validated,  \* _exchange_validated of the orchestrator
    pc,         \* the await, or the gap between transactions, it stands at
    call,       \* what the broker is doing at the outermost level
    stage,      \* which caller of _protective_fill waits for it
    retried,    \* _terminal_retries >= 1
    seen,       \* what it was told of the list and of each leg
    lapsed      \* history, read by no action: a list was placed while the
                \* outcome of a market SELL was unknown

exchange == <<lists, base, rate>>
control  == <<validated, pc, call, stage, retried, seen>>
vars     == <<row, lists, base, rate, sale, validated, pc, call, stage, retried,
              seen, lapsed>>

-----------------------------------------------------------------------------
(* The exchange's view of a list.  MINTED: the id exists in the database    *)
(* only.  LOST: the request was dropped or refused, and no query finds it.  *)

Active     == {"NEW", "PARTIALLY_FILLED"}
LegStatus  == Active \cup {"FILLED", "CANCELED"}
LegState   == [status : LegStatus, exec : Qty]
ListState  == [state : {"NONE", "MINTED", "INFLIGHT", "LOST", "ACCEPTED"},
               qty : Qty, legs : [Legs -> LegState]]

FreshLegs == [g \in Legs |-> [status |-> "NEW", exec |-> 0]]
AbsentList == [state |-> "NONE", qty |-> 0, legs |-> FreshLegs]

Sibling(g) == IF g = "tp" THEN "sl" ELSE "tp"

Executed(l) == lists[l].legs["tp"].exec + lists[l].legs["sl"].exec

Live(l) ==
    lists[l].state = "ACCEPTED" /\ \E g \in Legs : lists[l].legs[g].status \in Active

\* ALL_DONE, REJECT and EXPIRED are treated alike: TERMINAL.
ListStatus(l) == IF Live(l) THEN "EXECUTING" ELSE "TERMINAL"

NotSeen == [list |-> "NONE", legs |-> FreshLegs]

NoSale == [state |-> "NONE", req |-> 0, exec |-> 0]

HasUnresolved == sale # NoSale

-----------------------------------------------------------------------------
(* The OPEN row, and the transactions on it. *)

FlatRow == [open |-> FALSE, qty |-> 0, list |-> NoList, status |-> "NONE",
            from |-> 0, applied |-> 0, fromFee |-> 0, fee |-> 0]

OpenedRow(q) == [FlatRow EXCEPT !.open = TRUE, !.qty = q]

\* Mutant: the base is left where the previous list had it.
StaleIdentity(r, l) == [r EXCEPT !.list = l, !.status = "SUBMITTING"]

\* set_trade_protection with a new list id: the list's own count of what it
\* executed starts from what has been applied so far.
NewIdentity(r, l) ==
    [r EXCEPT !.list = l, !.status = "SUBMITTING",
              !.from = r.applied, !.fromFee = r.fee]

\* clear_trade_protection.  The base stays: the next identity replaces it.
Cleared(r) == [r EXCEPT !.list = NoList, !.status = "NONE"]

\* apply_protective_execution accepts cumulative totals of quantity and fee
\* under this condition and applies the difference to what it has applied before.
Bookable(r, total, fee) ==
    /\ r.applied <= total /\ total - r.applied <= r.qty
    /\ r.fee <= fee

AfterFill(r, total, fee) ==
    IF total = r.applied THEN r
    ELSE IF total - r.applied = r.qty THEN FlatRow
    ELSE [r EXCEPT !.qty = @ - (total - r.applied), !.applied = total, !.fee = fee]

\* close_trade with the executed quantity of a market SELL.
AfterSale(r, executed) ==
    IF executed < r.qty THEN [r EXCEPT !.qty = @ - executed] ELSE FlatRow

-----------------------------------------------------------------------------
Init ==
    /\ row = FlatRow
    /\ lists = [l \in Lists |-> AbsentList]
    /\ base = InitialBase
    /\ rate \in Rates
    /\ sale = NoSale
    /\ validated = FALSE
    /\ pc = "idle"
    /\ call = "none"
    /\ stage = "none"
    /\ retried = FALSE
    /\ seen = NotSeen
    /\ lapsed = FALSE

Goto(point) == pc' = point /\ UNCHANGED <<validated, call, stage, retried, seen>>

\* The outermost call returns (ok) or raises.  Protection of a recovered BUY
\* is one step of start-up, which goes on whatever came of it; the rest of
\* start-up decides whether the process counts as validated.
Leave(ok) ==
    /\ pc' = IF call = "recover" THEN "protect" ELSE "idle"
    /\ validated' = IF call \in {"install", "verify"} THEN ok ELSE validated
    /\ call' = "none"
    /\ stage' = "none"
    /\ retried' = FALSE
    /\ seen' = NotSeen

SetStatus(status) == row' = [row EXCEPT !.status = status]

\* The outcome is kept as PROTECTION_UNKNOWN and the call raises.
Unverified == SetStatus("UNKNOWN") /\ Leave(FALSE)

\* The list identity is dropped and a list for the rest of the position placed.
Rearm ==
    /\ row' = Cleared(row)
    /\ pc' = "place"
    /\ retried' = TRUE
    /\ stage' = "none"
    /\ seen' = NotSeen
    /\ UNCHANGED <<validated, call>>

\* _protective_fill is called on behalf of s.
AskFill(s) ==
    /\ pc' = "list"
    /\ stage' = s
    /\ seen' = NotSeen
    /\ UNCHANGED <<validated, call, retried>>

-----------------------------------------------------------------------------
(* _place_exchange_protection.  Its callers have made sure that the row     *)
(* names no list.                                                          *)

\* The list id is stored before the request is sent.
Place ==
    /\ pc = "place"
    /\ \E l \in Lists :
        /\ lists[l].state = "NONE"
        /\ lists' = [lists EXCEPT ![l].state = "MINTED", ![l].qty = row.qty]
        /\ row' = NewIdentity(row, l)
    /\ lapsed' = (lapsed \/ HasUnresolved)
    /\ Goto("send")
    /\ UNCHANGED <<base, rate, sale>>

Send ==
    /\ pc = "send"
    /\ lists' = [lists EXCEPT ![row.list].state = "INFLIGHT"]
    /\ Goto("sent")
    /\ UNCHANGED <<row, base, rate, sale, lapsed>>

\* The request fails, before or after it left: ask, never resubmit.
PlaceFails ==
    /\ pc \in {"send", "sent"}
    /\ Goto("lookup")
    /\ UNCHANGED <<row, exchange, sale, lapsed>>

\* The response of the request, or of the query that follows a failure.
PlaceAnswered ==
    /\ pc \in {"sent", "lookup"}
    /\ lists[row.list].state = "ACCEPTED"
    /\ seen' = [NotSeen EXCEPT !.list = ListStatus(row.list)]
    /\ pc' = "confirm"
    /\ UNCHANGED <<row, exchange, sale, validated, call, stage, retried, lapsed>>

\* Mutant: a list that was not refused is taken for active.
LookupAssumed ==
    /\ pc = "lookup"
    /\ SetStatus("EXECUTING")
    /\ Leave(TRUE)
    /\ UNCHANGED <<exchange, sale, lapsed>>

\* get_order_list raises too: the outcome is unknown.
LookupFails ==
    /\ pc = "lookup"
    /\ Unverified
    /\ UNCHANGED <<exchange, sale, lapsed>>

\* The response does not name the list, its two legs or a known status.
ConfirmRejects ==
    /\ pc = "confirm"
    /\ Unverified
    /\ UNCHANGED <<exchange, sale, lapsed>>

ConfirmActive ==
    /\ pc = "confirm"
    /\ seen.list = "EXECUTING"
    /\ SetStatus("EXECUTING")
    /\ Leave(TRUE)
    /\ UNCHANGED <<exchange, sale, lapsed>>

\* The list was over before its response was handled.
ConfirmTerminal ==
    /\ pc = "confirm"
    /\ seen.list = "TERMINAL"
    /\ SetStatus("TERMINAL")
    /\ AskFill("place")
    /\ UNCHANGED <<exchange, sale, lapsed>>

\* Its fills closed the position.
PlaceClosed ==
    /\ pc \in {"filled", "quiet"} /\ stage = "place"
    /\ ~row.open
    /\ Leave(call = "verify")
    /\ UNCHANGED <<row, exchange, sale, lapsed>>

PlaceRearms ==
    /\ pc \in {"filled", "quiet"} /\ stage = "place"
    /\ row.open /\ ~retried
    /\ Rearm
    /\ UNCHANGED <<exchange, sale, lapsed>>

\* A replacement list became terminal as well.
PlaceGivesUp ==
    /\ pc \in {"filled", "quiet"} /\ stage = "place"
    /\ row.open /\ retried
    /\ Unverified
    /\ UNCHANGED <<exchange, sale, lapsed>>

-----------------------------------------------------------------------------
(* _protective_fill: the list, its two legs and the account's fills are     *)
(* asked for one after the other while the exchange goes on.               *)

QueryList ==
    /\ pc = "list"
    /\ lists[row.list].state = "ACCEPTED"
    /\ SetStatus(ListStatus(row.list))
    /\ seen' = [seen EXCEPT !.list = ListStatus(row.list)]
    /\ pc' = "tp"
    /\ UNCHANGED <<exchange, sale, validated, call, stage, retried, lapsed>>

\* get_order_list raises.  Only placement records that as unknown.
QueryListFails ==
    /\ pc = "list"
    /\ IF stage = "place" THEN SetStatus("UNKNOWN") ELSE UNCHANGED row
    /\ Leave(FALSE)
    /\ UNCHANGED <<exchange, sale, lapsed>>

QueryLeg(g) ==
    /\ pc = g
    /\ seen' = [seen EXCEPT !.legs[g] = lists[row.list].legs[g]]
    /\ pc' = IF g = "tp" THEN "sl" ELSE "legs"
    /\ UNCHANGED <<row, exchange, sale, validated, call, stage, retried, lapsed>>

\* An answer about the list or a leg is missing, malformed or contradictory,
\* or the fills do not add up to what the leg executed or cannot be applied.
AnswerRejected ==
    /\ \/ pc = "list" /\ lists[row.list].state = "ACCEPTED"
       \/ pc \in Legs \cup {"fills"}
    /\ Unverified
    /\ UNCHANGED <<exchange, sale, lapsed>>

\* Both legs are confirmed active.
ExecutingPair ==
    seen.list = "EXECUTING" /\ \A g \in Legs : seen.legs[g].status \in Active

SeenExecuted == seen.legs["tp"].exec + seen.legs["sl"].exec

LegsQuiet ==
    /\ pc = "legs"
    /\ SeenExecuted = 0
    /\ seen.list = "TERMINAL" \/ ExecutingPair
    /\ Goto("quiet")
    /\ UNCHANGED <<row, exchange, sale, lapsed>>

\* One leg ended between the two queries.
LegsTorn ==
    /\ pc = "legs"
    /\ SeenExecuted = 0
    /\ seen.list = "EXECUTING" /\ ~ExecutingPair
    /\ Unverified
    /\ UNCHANGED <<exchange, sale, lapsed>>

LegsExecuted ==
    /\ pc = "legs"
    /\ SeenExecuted > 0
    /\ Goto("fills")
    /\ UNCHANGED <<row, exchange, sale, lapsed>>

\* Mutant: an execution counts once the list has executed in full.
FullFillsOnly ==
    /\ pc = "fills"
    /\ Executed(row.list) = lists[row.list].qty
    /\ Executed(row.list) = SeenExecuted

Total == row.from + SeenExecuted

\* order_fee_quote converts the commission of all fills of the list at the
\* market price of the moment, those of fills applied earlier included.
TotalFee == row.fromFee + SeenExecuted * rate

\* The account's fills of the leg add up to what it had executed: whatever is
\* new is applied.
FillsAgree ==
    /\ pc = "fills"
    /\ Executed(row.list) = SeenExecuted
    /\ Bookable(row, Total, TotalFee)

Booked == AfterFill(row, Total, TotalFee)

\* The list counts as executing, yet a leg is not confirmed active.
Torn == seen.list = "EXECUTING" /\ ~ExecutingPair /\ Booked.open

BookFill ==
    /\ FillsAgree /\ ~Torn
    /\ row' = Booked
    /\ Goto(IF row.applied < Total \/ ExecutingPair
              THEN "filled" ELSE "quiet")
    /\ UNCHANGED <<exchange, sale, lapsed>>

BookFillTorn ==
    /\ FillsAgree /\ Torn
    /\ row' = [Booked EXCEPT !.status = "UNKNOWN"]
    /\ Leave(FALSE)
    /\ UNCHANGED <<exchange, sale, lapsed>>

-----------------------------------------------------------------------------
(* maybe_exit. *)

StartExit ==
    /\ pc = "idle" /\ validated
    /\ row.open
    /\ ~HasUnresolved
    /\ call' = "exit"
    /\ IF row.list = NoList THEN pc' = "decide" /\ UNCHANGED stage
                            ELSE pc' = "list" /\ stage' = "check"
    /\ UNCHANGED <<row, exchange, sale, validated, retried, seen, lapsed>>

\* A fill was applied, or the list is partly filled and still active.
ExitFilled ==
    /\ pc = "filled" /\ call = "exit" /\ stage # "place"
    /\ Leave(TRUE)
    /\ UNCHANGED <<row, exchange, sale, lapsed>>

ExitChecked ==
    /\ pc = "quiet" /\ call = "exit" /\ stage = "check"
    /\ pc' = "decide"
    /\ stage' = "none"
    /\ seen' = NotSeen
    /\ UNCHANGED <<row, exchange, sale, validated, call, retried, lapsed>>

\* No exit is due and the list is active, the stop was raised, or an exit is
\* due and inventory drift or configuration forbids it.
Hold ==
    /\ pc = "decide"
    /\ Leave(TRUE)
    /\ UNCHANGED <<row, exchange, sale, lapsed>>

\* Mutant: a list that is still active is replaced as well.
RearmUnchecked ==
    /\ pc = "decide"
    /\ row.list # NoList
    /\ Rearm
    /\ UNCHANGED <<exchange, sale, lapsed>>

HoldAndRearm ==
    /\ pc = "decide"
    /\ row.list # NoList /\ row.status = "TERMINAL"
    /\ Rearm
    /\ UNCHANGED <<exchange, sale, lapsed>>

HoldAndPlace ==
    /\ pc = "decide"
    /\ row.list = NoList
    /\ Goto("place")
    /\ UNCHANGED <<row, exchange, sale, lapsed>>

\* Mutant: the list is left to stand beside the market SELL.
ExitBesideList ==
    /\ pc = "decide"
    /\ Goto("balance")
    /\ UNCHANGED <<row, exchange, sale, lapsed>>

\* The position is to be sold: its list goes first.
ExitDue ==
    /\ pc = "decide"
    /\ Goto(IF row.list = NoList THEN "balance" ELSE "cancel")
    /\ UNCHANGED <<row, exchange, sale, lapsed>>

-----------------------------------------------------------------------------
(* _cancel_exchange_protection. *)

CancelledLegs(l) ==
    [g \in Legs |-> IF lists[l].legs[g].status \in Active
                      THEN [lists[l].legs[g] EXCEPT !.status = "CANCELED"]
                      ELSE lists[l].legs[g]]

\* The exchange cancels what is left of the list; its answer may be lost.
CancelList ==
    /\ pc = "cancel"
    /\ Live(row.list)
    /\ lists' = [lists EXCEPT ![row.list].legs = CancelledLegs(row.list)]
    /\ \E s \in {"cancel", "uncancelled"} : AskFill(s)
    /\ UNCHANGED <<row, base, rate, sale, lapsed>>

\* The cancellation raises and the list is as it was.
CancelFails ==
    /\ pc = "cancel"
    /\ AskFill("uncancelled")
    /\ UNCHANGED <<row, exchange, sale, lapsed>>

\* Mutant: a cancellation that raised is taken for one that worked.
CancelAssumed ==
    /\ pc = "quiet"
    /\ stage \in {"cancel", "uncancelled"}
    /\ row' = Cleared(row)
    /\ pc' = "balance"
    /\ stage' = "none"
    /\ seen' = NotSeen
    /\ UNCHANGED <<exchange, sale, validated, call, retried, lapsed>>

\* Nothing executed that is not applied: the list is dropped.
CancelChecked ==
    /\ pc = "quiet"
    /\ \/ stage = "cancel"
       \/ stage = "uncancelled" /\ row.status = "TERMINAL"
    /\ row' = Cleared(row)
    /\ pc' = "balance"
    /\ stage' = "none"
    /\ seen' = NotSeen
    /\ UNCHANGED <<exchange, sale, validated, call, retried, lapsed>>

\* The list is still active after all.
CancelRefused ==
    /\ pc = "quiet" /\ stage = "uncancelled"
    /\ row.status = "EXECUTING"
    /\ Leave(FALSE)
    /\ UNCHANGED <<row, exchange, sale, lapsed>>

-----------------------------------------------------------------------------
(* The market SELL of the position. *)

SubmitSell ==
    /\ pc = "balance"
    /\ LET q == IF row.qty <= base THEN row.qty ELSE base IN
        /\ q > 0
        /\ sale' = [state |-> "SENT", req |-> q, exec |-> 0]
    /\ Goto("sell")
    /\ UNCHANGED <<row, exchange, lapsed>>

\* The balance cannot be read, or the quantity violates the filters.
AbandonSell ==
    /\ pc = "balance"
    /\ Leave(TRUE)
    /\ UNCHANGED <<row, exchange, sale, lapsed>>

\* The SELL is over and its executions are applied; it may have had none.
SettleSale ==
    /\ sale.state = "OVER"
    /\ sale.exec > 0 => row.open
    /\ row' = IF sale.exec > 0 THEN AfterSale(row, sale.exec) ELSE row
    /\ sale' = NoSale

SellSettled ==
    /\ pc = "sell"
    /\ SettleSale
    /\ Leave(TRUE)
    /\ UNCHANGED <<exchange, lapsed>>

\* Its outcome is unknown or incomplete, or could not be applied.
SellUncertain ==
    /\ pc = "sell"
    /\ Leave(TRUE)
    /\ UNCHANGED <<row, exchange, sale, lapsed>>

-----------------------------------------------------------------------------
(* enter, up to the protection of the new position. *)

OpenPosition(q) ==
    /\ ~row.open /\ ~HasUnresolved
    /\ row' = OpenedRow(q)
    /\ base' = base + q
    /\ pc' = "place"

Enter ==
    /\ pc = "idle" /\ validated
    /\ \E q \in Qty \ {0} : OpenPosition(q)
    /\ call' = "enter"
    /\ UNCHANGED <<lists, rate, sale, validated, stage, retried, seen, lapsed>>

-----------------------------------------------------------------------------
(* Start-up: _ensure_exchange_config reconciles orders, then protection.    *)

StartUp ==
    /\ pc = "idle" /\ ~validated
    /\ Goto("orders")
    /\ UNCHANGED <<row, exchange, sale, lapsed>>

\* A recovered BUY opens a position and has it protected on the spot.
RecoverBuy ==
    /\ pc = "orders"
    /\ \E q \in Qty \ {0} : OpenPosition(q)
    /\ call' = "recover"
    /\ UNCHANGED <<lists, rate, sale, validated, stage, retried, seen, lapsed>>

RecoverSale ==
    /\ pc = "orders"
    /\ SettleSale
    /\ Goto("protect")
    /\ UNCHANGED <<exchange, lapsed>>

\* Nothing to recover; or the SELL stays unresolved, which is only a warning.
OrdersReconciled ==
    /\ pc = "orders"
    /\ Goto("protect")
    /\ UNCHANGED <<row, exchange, sale, lapsed>>

\* reconcile_open_position_protection.
StartFlat ==
    /\ pc = "protect" /\ ~row.open
    /\ validated' = TRUE
    /\ pc' = "idle"
    /\ UNCHANGED <<row, exchange, sale, call, stage, retried, seen, lapsed>>

StartVerify ==
    /\ pc = "protect" /\ row.open /\ row.list # NoList
    /\ call' = "verify"
    /\ pc' = "list"
    /\ stage' = "check"
    /\ UNCHANGED <<row, exchange, sale, validated, retried, seen, lapsed>>

StartInstall ==
    /\ pc = "protect" /\ row.open /\ row.list = NoList
    /\ call' = "install"
    /\ pc' = "place"
    /\ UNCHANGED <<row, exchange, sale, validated, stage, retried, seen, lapsed>>

Verified ==
    /\ pc \in {"filled", "quiet"} /\ call = "verify" /\ stage = "check"
    /\ row.open => row.status = "EXECUTING"
    /\ Leave(TRUE)
    /\ UNCHANGED <<row, exchange, sale, lapsed>>

VerifiedTerminal ==
    /\ pc \in {"filled", "quiet"} /\ call = "verify" /\ stage = "check"
    /\ row.open /\ row.status = "TERMINAL"
    /\ Rearm
    /\ UNCHANGED <<exchange, sale, lapsed>>

-----------------------------------------------------------------------------
(* Interruptions. *)

Awaits == Legs \cup {"send", "sent", "lookup", "list", "fills", "cancel",
                     "balance", "sell"}

\* TradingOrchestrator.stop cancels the cycle at an await.
Cancel ==
    /\ pc \in Awaits /\ validated
    /\ Leave(TRUE)
    /\ UNCHANGED <<row, exchange, sale, lapsed>>

\* The process dies, or is restarted: only the database survives.
Crash ==
    /\ pc' = "idle"
    /\ validated' = FALSE
    /\ call' = "none"
    /\ stage' = "none"
    /\ retried' = FALSE
    /\ seen' = NotSeen
    /\ UNCHANGED <<row, exchange, sale, lapsed>>

-----------------------------------------------------------------------------
(* The exchange.  What it locks for one list is not held against another,   *)
(* so it accepts and executes more than Binance would.                     *)

Accept(l) ==
    /\ lists[l].state = "INFLIGHT"
    /\ lists[l].qty <= base
    /\ lists' = [lists EXCEPT ![l].state = "ACCEPTED"]
    /\ UNCHANGED <<row, base, rate, sale, control, lapsed>>

Lose(l) ==
    /\ lists[l].state = "INFLIGHT"
    /\ lists' = [lists EXCEPT ![l].state = "LOST"]
    /\ UNCHANGED <<row, base, rate, sale, control, lapsed>>

\* A leg executes q more; only one leg of a list ever does.
FillLeg(l, g) ==
    /\ lists[l].state = "ACCEPTED"
    /\ lists[l].legs[g].status \in Active
    /\ lists[l].legs[Sibling(g)].exec = 0
    /\ \E q \in Qty \ {0} :
        LET e == lists[l].legs[g].exec + q IN
        /\ e <= lists[l].qty
        /\ q <= base
        /\ base' = base - q
        /\ lists' = [lists EXCEPT ![l].legs[g] =
                       [status |-> IF e = lists[l].qty THEN "FILLED"
                                                       ELSE "PARTIALLY_FILLED",
                        exec |-> e]]
    /\ UNCHANGED <<row, rate, sale, control, lapsed>>

\* A leg ends: its sibling executed, it expired, or the list was cancelled.
EndLeg(l, g) ==
    /\ lists[l].state = "ACCEPTED"
    /\ lists[l].legs[g].status \in Active
    /\ lists' = [lists EXCEPT ![l].legs[g].status = "CANCELED"]
    /\ UNCHANGED <<row, base, rate, sale, control, lapsed>>

SaleExecutes ==
    /\ sale.state = "SENT"
    /\ \E q \in Qty \ {0} :
        /\ sale.exec + q <= sale.req
        /\ q <= base
        /\ sale' = [sale EXCEPT !.exec = @ + q]
        /\ base' = base - q
    /\ UNCHANGED <<row, lists, rate, control, lapsed>>

SaleEnds ==
    /\ sale.state = "SENT"
    /\ sale' = [sale EXCEPT !.state = "OVER"]
    /\ UNCHANGED <<row, exchange, control, lapsed>>

\* The market moves.
RateMoves ==
    /\ rate' \in Rates \ {rate}
    /\ UNCHANGED <<row, lists, base, sale, control, lapsed>>

-----------------------------------------------------------------------------
PlaceStep ==
    \/ Place \/ Send \/ PlaceFails \/ PlaceAnswered \/ LookupFails
    \/ ConfirmRejects \/ ConfirmActive \/ ConfirmTerminal
    \/ PlaceClosed \/ PlaceRearms \/ PlaceGivesUp

FillStep ==
    \/ QueryList \/ QueryListFails \/ AnswerRejected
    \/ \E g \in Legs : QueryLeg(g)
    \/ LegsQuiet \/ LegsTorn \/ LegsExecuted \/ BookFill \/ BookFillTorn

ExitStep ==
    \/ StartExit \/ ExitFilled \/ ExitChecked
    \/ Hold \/ HoldAndRearm \/ HoldAndPlace \/ ExitDue
    \/ CancelList \/ CancelFails \/ CancelChecked \/ CancelRefused
    \/ SubmitSell \/ AbandonSell \/ SellSettled \/ SellUncertain

StartStep ==
    \/ StartUp \/ RecoverBuy \/ RecoverSale \/ OrdersReconciled
    \/ StartFlat \/ StartVerify \/ StartInstall \/ Verified \/ VerifiedTerminal

BrokerStep == PlaceStep \/ FillStep \/ ExitStep \/ StartStep \/ Enter

ListStep(l) ==
    \/ Accept(l) \/ Lose(l)
    \/ \E g \in Legs : FillLeg(l, g) \/ EndLeg(l, g)

ExchangeStep == RateMoves \/ SaleExecutes \/ SaleEnds \/ \E l \in Lists : ListStep(l)

Next == BrokerStep \/ Cancel \/ Crash \/ ExchangeStep

Spec == Init /\ [][Next]_vars

(***************************************************************************)
(* Fairness.  The cycles go on and a stopped or dead process is started    *)
(* again; the exchange decides about what it was sent and finishes a list  *)
(* of which a leg has ended or executed, and a SELL.  Queries do not fail  *)
(* for ever, and interruptions do not always hit at the same point (strong *)
(* fairness).                                                              *)
(***************************************************************************)
Fairness ==
    /\ WF_vars(pc # "idle" /\ BrokerStep)
    /\ WF_vars(StartUp)
    /\ SF_vars(StartExit)
    /\ SF_vars(OrdersReconciled \/ RecoverSale) /\ SF_vars(StartVerify)
    /\ SF_vars(QueryList) /\ SF_vars(LegsExecuted)
    /\ SF_vars(BookFill \/ BookFillTorn)
    /\ \A g \in Legs : SF_vars(QueryLeg(g))
    /\ WF_vars(SaleEnds)
    /\ \A l \in Lists :
        /\ WF_vars(Accept(l) \/ Lose(l))
        /\ \A g \in Legs :
            WF_vars(lists[l].legs # FreshLegs /\ (FillLeg(l, g) \/ EndLeg(l, g)))

FairSpec == Spec /\ Fairness

-----------------------------------------------------------------------------
(* Properties.  Start-up goes on beside a market SELL of which it could not  *)
(* find the outcome and places a list for a position that may be sold        *)
(* already (NewListWaits does not hold).  lapsed remembers that this has     *)
(* happened, since the database was created; it is the one condition under   *)
(* which most of what follows is stated, and no action depends on it.        *)

RowType == [open : BOOLEAN, qty : Qty, list : Lists \cup {NoList},
            status : {"NONE", "SUBMITTING", "UNKNOWN", "EXECUTING", "TERMINAL"},
            from : Qty, applied : Qty, fromFee : Nat, fee : Nat]

TypeOK ==
    /\ row \in RowType
    /\ lists \in [Lists -> ListState]
    /\ base \in 0 .. InitialBase + MaxQty
    /\ rate \in Rates
    /\ sale \in [state : {"NONE", "SENT", "OVER"}, req : Qty, exec : Qty]
    /\ validated \in BOOLEAN
    /\ pc \in Legs \cup {"idle", "orders", "protect", "place", "send", "sent",
                         "lookup", "confirm", "list", "legs", "fills", "filled",
                         "quiet", "decide", "cancel", "balance", "sell"}
    /\ call \in {"none", "enter", "recover", "install", "verify", "exit"}
    /\ stage \in {"none", "place", "check", "cancel", "uncancelled"}
    /\ retried \in BOOLEAN
    /\ seen \in [list : {"NONE", "EXECUTING", "TERMINAL"}, legs : [Legs -> LegState]]
    /\ lapsed \in BOOLEAN

\* The request has left, and a leg may still sell.
Outstanding(l) ==
    \/ lists[l].state = "INFLIGHT"
    \/ /\ lists[l].state = "ACCEPTED"
       /\ \E g \in Legs : /\ lists[l].legs[g].status \in Active
                          /\ lists[l].legs[Sibling(g)].exec = 0

\* Whatever crashes and unanswered requests there were, a list that may still
\* sell is the one the OPEN row names: none is orphaned and none is placed
\* twice (protection.py:214-216, "startup can query this exact list instead of
\* submitting a second pair of SELL orders").  Not after a lapse: the SELL may
\* close the position, and the row with it, while the list stands.
ListIsNamed ==
    ~lapsed => \A l \in Lists : Outstanding(l) => row.open /\ row.list = l

\* A list is let go only when the exchange is done with it and everything it
\* executed has been applied (protection.py:487-489).  Not after a lapse: the
\* recovered SELL closes a row whose list still stands.
DropOnlyFinished ==
    [][~lapsed /\ row.list # NoList /\ row'.list # row.list =>
         /\ lists[row.list].state = "ACCEPTED" /\ ~Outstanding(row.list)
         /\ row'.open => row'.applied = row.from + Executed(row.list)]_vars

\* A market SELL and a list never work for the exchange at the same time ("the
\* bot first reconciles and cancels the OCO before submitting a market SELL",
\* README.md:325-327).  Not after a lapse: both do.
SellsAlone ==
    ~lapsed => \A l \in Lists : ~(sale.state = "SENT" /\ Outstanding(l))

\* No list is sent while an order's outcome is unresolved ("Unresolved Binance
\* order outcome(s) require review before new orders can be submitted",
\* orchestrator.py:122).
NewListWaits == [][pc = "send" /\ pc' = "sent" => ~HasUnresolved]_vars

\* What the named list has executed and the row has not been told.
Untold ==
    IF row.list = NoList THEN 0 ELSE row.from + Executed(row.list) - row.applied

\* What the named list and the pending SELL have executed and the row has not
\* been told is all that separates the account from the row: no execution is
\* applied twice or lost across partial fills, cancellations and re-arming.
\* After a lapse what a list sells may be lost, when the SELL closes the row it
\* is named in; still nothing is applied that was not sold.
LedgerExact ==
    /\ base + Untold + sale.exec <= InitialBase + row.qty
    /\ ~lapsed => base + Untold + sale.exec = InitialBase + row.qty

\* The lists and the market SELLs of all positions together sell what the bot
\* bought and nothing else, one of them at a time, and a position is opened
\* only when the last one is gone from the account: up to a lapse, the broker
\* implements PositionDiscipline.
Discipline == INSTANCE PositionDiscipline WITH
    held   <- base - InitialBase,
    seller <- IF \E l \in Lists : Outstanding(l) THEN "list"
              ELSE IF sale.state = "SENT" THEN "market" ELSE "none"

ImplementsDiscipline ==
    /\ Discipline!Init
    /\ [][Discipline!Next \/ lapsed']_(Discipline!vars)

\* A row that says EXECUTING names a list that the exchange has accepted ("The
\* bot reports an OCO protected only when Binance confirms an active list",
\* LIVE_TRADING_READINESS.md:12-14), and a row that says TERMINAL one that is
\* over; after a lapse as before it.
StatusIsTrue ==
    /\ row.status = "EXECUTING" => lists[row.list].state = "ACCEPTED"
    /\ row.status = "TERMINAL" =>
         lists[row.list].state = "ACCEPTED" /\ ~Live(row.list)

\* Every protective execution of the named list reaches the ledger ("Restart reconciliation
\* verifies both child orders and their identities before applying complete
\* Binance account fills locally", README.md:317-319), unless there is a lapse:
\* a list placed for more than the row still holds executes what cannot be
\* applied.
FillsLand == Untold > 0 ~> Untold = 0 \/ lapsed

-----------------------------------------------------------------------------
(* The inductive invariant. *)

\* The exchange is done with the list.
Over(l) == lists[l].state = "ACCEPTED" /\ ~Outstanding(l)

\* ... and the row has everything it executed.
Settled == Over(row.list) /\ row.applied = row.from + Executed(row.list)

\* At most one leg executes, and never more than the list was placed for.
ListOK(l) ==
    /\ lists[l].state # "ACCEPTED" => lists[l].legs = FreshLegs
    /\ \E g \in Legs : lists[l].legs[g].exec = 0
    /\ \A g \in Legs :
        /\ lists[l].legs[g].exec <= lists[l].qty
        /\ lists[l].state # "NONE" /\ lists[l].legs[g].status \in Active =>
             lists[l].legs[g].exec < lists[l].qty

\* Up to a lapse, the row's list was placed for what the row held then, and
\* every other list is over or was never minted.
ListsFit ==
    /\ row.list # NoList => lists[row.list].qty = row.qty + (row.applied - row.from)
    /\ \A l \in Lists \ {row.list} : lists[l].state = "NONE" \/ Over(l)

RowOK ==
    /\ IF row.open THEN row.qty > 0 ELSE row = FlatRow
    /\ row.from <= row.applied
    /\ row.qty + row.applied <= MaxQty
    /\ row.list = NoList <=> row.status = "NONE"
    /\ row.list # NoList =>
        /\ row.open
        /\ lists[row.list].state # "NONE"
        /\ row.applied <= row.from + Executed(row.list)
    /\ ~lapsed => ListsFit

\* No exit goes on beside a pending SELL.  Up to a lapse, it is pending for a
\* position without a list, while its own submission or recovery goes on or
\* start-up goes on beside it.
SalePending ==
    /\ row.open /\ row.list = NoList
    /\ sale.req <= row.qty
    /\ \/ pc \in {"sell", "idle", "orders", "protect"}
       \/ pc = "place" /\ call = "install"

SaleOK ==
    /\ sale.state = "NONE" => sale = NoSale
    /\ sale.exec <= sale.req
    /\ call = "exit" /\ HasUnresolved => pc = "sell"
    /\ ~lapsed /\ HasUnresolved => SalePending

\* _protective_fill has the answer about the list, and the position is open.
Answered ==
    \/ pc \in Legs \cup {"legs", "fills", "quiet"}
    \/ pc = "filled" /\ row.open

\* What has been read of the list still holds where it is acted upon.
SeenOK ==
    /\ pc \in {"place", "balance"} => row.open /\ row.list = NoList
    /\ pc \in {"send", "sent", "lookup", "confirm", "list", "cancel"} => row.list # NoList
    /\ pc = "send" => lists[row.list].state = "MINTED"
    /\ pc = "confirm" =>
        /\ lists[row.list].state = "ACCEPTED"
        /\ seen.list = "TERMINAL" => ~Live(row.list)
    /\ pc = "list" /\ stage \in {"place", "cancel"} =>
         lists[row.list].state = "ACCEPTED" /\ ~Live(row.list)
    /\ Answered =>
        /\ row.list # NoList
        /\ row.status = seen.list
        /\ stage \in {"place", "cancel"} => seen.list = "TERMINAL"
    /\ pc \in {"sl", "legs"} /\ seen.list = "TERMINAL" =>
         seen.legs["tp"].exec = lists[row.list].legs["tp"].exec
    /\ pc = "legs" /\ seen.list = "TERMINAL" =>
         seen.legs["sl"].exec = lists[row.list].legs["sl"].exec
    /\ pc \in {"filled", "quiet", "decide"} /\ row.status = "TERMINAL" => Settled
    /\ pc = "decide" => row.open

CallOK ==
    /\ pc \in {"decide", "cancel", "balance", "sell"} => call = "exit"
    /\ pc \in Legs \cup {"list", "legs", "fills", "filled", "quiet"}
         /\ stage \in {"cancel", "uncancelled"} => call = "exit"

IInv ==
    /\ TypeOK
    /\ \A l \in Lists : ListOK(l)
    /\ RowOK /\ SaleOK /\ SeenOK /\ CallOK
    /\ LedgerExact /\ StatusIsTrue

=============================================================================
