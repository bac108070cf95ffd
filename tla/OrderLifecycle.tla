--------------------------- MODULE OrderLifecycle ---------------------------
(***************************************************************************)
(* Market orders of one symbol, from the durable intent to the ledger:     *)
(* Broker.enter, the software exit of Broker.maybe_exit,                   *)
(* Broker._submit_market_order and Broker.reconcile_unresolved_orders      *)
(* (app/execution/broker.py), in testnet or live mode.                     *)
(*                                                                         *)
(* Every action is a stretch of code between two awaits, or between two    *)
(* SQLite transactions when a crash can fall between them.  Brokers is a   *)
(* set because nothing but the database keeps two of them apart: a manual  *)
(* cycle in another process shares the tables and the exchange account.    *)
(*                                                                         *)
(* The exchange answers a query with its state at that moment and the      *)
(* broker acts on the answer later, when either may have moved on.         *)
(* Position protection by an OCO list is the business of another module:   *)
(* here a position is one whose list has already been cancelled.           *)
(***************************************************************************)
EXTENDS Ledger, Integers

CONSTANTS Brokers,
          MaxQty,        \* bound on the quantity of an order
          Normalize,     \* exchange quantity filters: what may be traded of q
          Net,           \* what a BUY leaves of q once its base fee is taken
          FillSizes,     \* quantities the exchange executes at a time
          InitialBase    \* base asset in the account that is not the bot's

Qty == 0 .. MaxQty

ASSUME QtyAssumption ==
    /\ MaxQty \in Nat
    /\ InitialBase \in Nat
    /\ FillSizes \subseteq Qty \ {0}

ASSUME NormalizeAssumption ==
    /\ Normalize \in [Qty -> Qty]
    /\ \A q \in Qty : Normalize[q] <= q

ASSUME NetAssumption ==
    /\ Net \in [Qty -> Qty]
    /\ \A q \in Qty : Net[q] <= q
    /\ \A p, q \in Qty : p <= q => Net[p] <= Net[q]

VARIABLES
    orders,     \* the orders table
    trade,      \* the OPEN row of the trades table
    exch,       \* the exchange's own view of each order
    base,       \* base asset in the exchange account
    validated,  \* _exchange_validated of the broker's orchestrator
    pc,         \* the await, or the gap between transactions, it stands at
    cur,        \* the order it is working on
    resp,       \* the exchange response it holds
    held,       \* the trade dict it holds
    todo        \* rows of unresolved_orders still to be reconciled

db     == <<orders, trade>>
market == <<exch, base>>
local  == <<validated, pc, cur, resp, held, todo>>
vars   == <<orders, trade, exch, base, validated, pc, cur, resp, held, todo>>

-----------------------------------------------------------------------------
(* The exchange's view of an order.  INFLIGHT: the request was sent.  LOST: *)
(* it was dropped or refused, and no query will ever find the order.        *)

Visible       == {"NEW", "PARTIALLY_FILLED"} \cup ClosedStatuses
ExchangeState == [status : {"NONE", "INFLIGHT", "LOST"} \cup Visible, exec : Qty]

NoResponse == [status |-> "NONE", exec |-> 0, fills |-> FALSE]

\* What the exchange would answer now; only an order response carries fills.
Answer(o, fills) ==
    [status |-> exch[o].status, exec |-> exch[o].exec, fills |-> fills]

Lesser(p, q) == IF p <= q THEN p ELSE q

HasUnresolved == \E o \in OrderIds : Unresolved(orders[o])

-----------------------------------------------------------------------------
(* Where a broker can stand. *)

EntryPoints    == {"enter", "submit", "sent", "query", "record", "commit"}
ExitPoints     == {"inventory", "exit"}
RecoveryPoints == {"recover", "recover_reply", "recover_fills", "recover_apply"}
Points         == {"idle"} \cup EntryPoints \cup ExitPoints \cup RecoveryPoints

Init ==
    /\ orders = [o \in OrderIds |-> AbsentRow]
    /\ trade = NoTrade
    /\ exch = [o \in OrderIds |-> [status |-> "NONE", exec |-> 0]]
    /\ base = InitialBase
    /\ validated = [b \in Brokers |-> FALSE]
    /\ pc = [b \in Brokers |-> "idle"]
    /\ cur = [b \in Brokers |-> NoOrder]
    /\ resp = [b \in Brokers |-> NoResponse]
    /\ held = [b \in Brokers |-> NoTrade]
    /\ todo = [b \in Brokers |-> {}]

Goto(b, point) == pc' = [pc EXCEPT ![b] = point]

\* The call returns or raises: its local variables are gone.
Return(b) ==
    /\ Goto(b, "idle")
    /\ cur' = [cur EXCEPT ![b] = NoOrder]
    /\ resp' = [resp EXCEPT ![b] = NoResponse]
    /\ held' = [held EXCEPT ![b] = NoTrade]
    /\ todo' = [todo EXCEPT ![b] = {}]

-----------------------------------------------------------------------------
(* enter: a BUY. *)

\* The guards of enter pass; it goes on to normalize and to check liquidity.
StartEnter(b) ==
    /\ pc[b] = "idle" /\ validated[b]
    /\ ~HasUnresolved
    /\ ~IsOpen(trade)
    /\ Goto(b, "enter")
    /\ UNCHANGED <<db, market, validated, cur, resp, held, todo>>

\* record_order_intent accepts the order and commits its row.
RecordIntent(b, o, side, qty) ==
    /\ ~Recorded(orders[o])
    /\ IntentAllowed(orders, trade, side)
    /\ orders' = [orders EXCEPT ![o] = NewIntent(side, qty)]
    /\ cur' = [cur EXCEPT ![b] = o]
    /\ Goto(b, "submit")
    /\ UNCHANGED <<trade, market, validated, resp, held, todo>>

SubmitBuy(b) ==
    /\ pc[b] = "enter"
    /\ \E o \in OrderIds, q \in Qty \ {0} :
        /\ Normalize[q] = q
        /\ RecordIntent(b, o, "BUY", q)

\* Filters or liquidity reject the entry, or record_order_intent raises.
AbandonEntry(b) ==
    /\ pc[b] = "enter"
    /\ Return(b)
    /\ UNCHANGED <<db, market, validated>>

-----------------------------------------------------------------------------
(* maybe_exit: a market SELL of the whole position. *)

StartExit(b) ==
    /\ pc[b] = "idle" /\ validated[b]
    /\ IsOpen(trade)
    /\ ~HasUnresolved
    /\ Goto(b, "inventory")
    /\ UNCHANGED <<db, market, validated, cur, resp, held, todo>>

\* The position is read again before the free balance is requested.
ReadPosition(b) ==
    /\ pc[b] = "inventory"
    /\ IsOpen(trade)
    /\ held' = [held EXCEPT ![b] = trade]
    /\ Goto(b, "exit")
    /\ UNCHANGED <<db, market, validated, cur, resp, todo>>

SubmitSell(b) ==
    /\ pc[b] = "exit"
    /\ LET q == Normalize[Lesser(held[b].qty, base)] IN
        /\ q > 0
        /\ \E o \in OrderIds : RecordIntent(b, o, "SELL", q)

\* Inventory drift, the position is gone, the quantity violates the filters,
\* or record_order_intent raises.
AbandonExit(b) ==
    /\ pc[b] \in ExitPoints
    /\ Return(b)
    /\ UNCHANGED <<db, market, validated>>

-----------------------------------------------------------------------------
(* _submit_market_order, once the intent is durable. *)

\* market_order has checked the symbol's metadata and sends the request.
Send(b) ==
    /\ pc[b] = "submit"
    /\ exch' = [exch EXCEPT ![cur[b]].status = "INFLIGHT"]
    /\ Goto(b, "sent")
    /\ UNCHANGED <<db, base, validated, cur, resp, held, todo>>

\* The response arrives; its fills may or may not be complete.
SubmitAnswered(b) ==
    /\ pc[b] = "sent"
    /\ exch[cur[b]].status \in Visible
    /\ \E fills \in BOOLEAN : resp' = [resp EXCEPT ![b] = Answer(cur[b], fills)]
    /\ Goto(b, "record")
    /\ UNCHANGED <<db, market, validated, cur, held, todo>>

\* market_order raises, before or after the request left: ask, never resubmit.
SubmitFails(b) ==
    /\ pc[b] \in {"submit", "sent"}
    /\ Goto(b, "query")
    /\ UNCHANGED <<db, market, validated, cur, resp, held, todo>>

QueryAnswered(b) ==
    /\ pc[b] = "query"
    /\ exch[cur[b]].status \in Visible
    /\ resp' = [resp EXCEPT ![b] = Answer(cur[b], FALSE)]
    /\ Goto(b, "record")
    /\ UNCHANGED <<db, market, validated, cur, held, todo>>

\* Mutant: no answer is taken for a rejection.
SilenceRejects(b) ==
    /\ pc[b] = "query"
    /\ orders' = [orders EXCEPT ![cur[b]] = WithOutcome(@, 0, "REJECTED")]
    /\ Return(b)
    /\ UNCHANGED <<trade, market, validated>>

\* Mutant: a status that no reader of the table knows.
TimeoutRecorded(b) ==
    /\ pc[b] = "query"
    /\ orders' = [orders EXCEPT ![cur[b]] = WithOutcome(@, 0, "TIMEOUT")]
    /\ Return(b)
    /\ UNCHANGED <<trade, market, validated>>

\* get_order raises too: the outcome is recorded as unknown.
QueryFails(b) ==
    /\ pc[b] = "query"
    /\ orders' = [orders EXCEPT ![cur[b]] = WithOutcome(@, 0, "UNKNOWN")]
    /\ Return(b)
    /\ UNCHANGED <<trade, market, validated>>

\* The response names another order or is malformed: nothing is recorded.
RejectResponse(b) ==
    /\ pc[b] = "record"
    /\ Return(b)
    /\ UNCHANGED <<db, market, validated>>

\* update_order_record; a fill that is not final and fully known raises.
RecordOutcome(b) ==
    /\ pc[b] = "record"
    /\ orders' = [orders EXCEPT ![cur[b]] =
                    WithOutcome(@, resp[b].exec, resp[b].status)]
    /\ IF resp[b].exec > 0 /\ resp[b].status \in FillStatuses /\ resp[b].fills
         THEN Goto(b, "commit") /\ UNCHANGED <<cur, resp, held, todo>>
         ELSE Return(b)
    /\ UNCHANGED <<trade, market, validated>>

\* enter: open_trade with what the filters leave of the net quantity.
CommitBuy(b) ==
    /\ pc[b] = "commit"
    /\ LET q == Normalize[Net[resp[b].exec]] IN
        /\ q > 0
        /\ CanOpenTrade(orders, trade, cur[b])
        /\ trade' = OpenedTrade(cur[b], q)
    /\ orders' = [orders EXCEPT ![cur[b]] = WithApplied(@)]
    /\ Return(b)
    /\ UNCHANGED <<market, validated>>

\* maybe_exit: close_trade of the trade it read before the SELL.
CommitSell(b) ==
    /\ pc[b] = "commit"
    /\ CanCloseTrade(orders, trade, cur[b], held[b].id)
    /\ trade' = AfterSale(trade, resp[b].exec)
    /\ orders' = [orders EXCEPT ![cur[b]] = WithApplied(@)]
    /\ Return(b)
    /\ UNCHANGED <<market, validated>>

\* The transaction raises and is rolled back, or nothing tradable was bought.
CommitFails(b) ==
    /\ pc[b] = "commit"
    /\ ~CanCloseTrade(orders, trade, cur[b], held[b].id)
    /\ \/ ~CanOpenTrade(orders, trade, cur[b])
       \/ Normalize[Net[resp[b].exec]] = 0
    /\ Return(b)
    /\ UNCHANGED <<db, market, validated>>

-----------------------------------------------------------------------------
(* reconcile_unresolved_orders, run by _ensure_exchange_config. *)

StartReconcile(b) ==
    /\ pc[b] = "idle" /\ ~validated[b]
    /\ todo' = [todo EXCEPT ![b] =
                  {[id |-> o, exec |-> orders[o].exec] :
                      o \in {p \in OrderIds : Unresolved(orders[p])}}]
    /\ Goto(b, "recover")
    /\ UNCHANGED <<db, market, validated, cur, resp, held>>

RecoverQuery(b) ==
    /\ pc[b] = "recover"
    /\ \E row \in todo[b] :
        /\ exch[row.id].status \in Visible
        /\ cur' = [cur EXCEPT ![b] = row.id]
        /\ resp' = [resp EXCEPT ![b] = Answer(row.id, FALSE)]
    /\ Goto(b, "recover_reply")
    /\ UNCHANGED <<db, market, validated, held, todo>>

\* The loop goes on with the next row.
NextRow(b, id) ==
    /\ todo' = [todo EXCEPT ![b] = {row \in @ : row.id # id}]
    /\ cur' = [cur EXCEPT ![b] = NoOrder]
    /\ resp' = [resp EXCEPT ![b] = NoResponse]
    /\ Goto(b, "recover")
    /\ UNCHANGED held

\* get_order raises; the row is left as it is.
RecoverQueryFails(b) ==
    /\ pc[b] = "recover"
    /\ \E row \in todo[b] : NextRow(b, row.id)
    /\ UNCHANGED <<db, market, validated>>

\* A mismatched response, one whose execution is smaller than the recorded
\* one, or fills without a valid price: the row is left as it is.
RecoverRejects(b) ==
    /\ pc[b] \in {"recover_reply", "recover_fills"}
    /\ NextRow(b, cur[b])
    /\ UNCHANGED <<db, market, validated>>

NotBackwards(b) ==
    \E row \in todo[b] : row.id = cur[b] /\ row.exec <= resp[b].exec

RecoverRecord(b, exec, status) ==
    orders' = [orders EXCEPT ![cur[b]] = WithOutcome(@, exec, status)]

\* Mutant: an order that has executed nothing is taken for finished.
UnfilledExpires(b) ==
    /\ pc[b] = "recover_reply"
    /\ NotBackwards(b)
    /\ resp[b].exec = 0
    /\ RecoverRecord(b, 0, "EXPIRED")
    /\ NextRow(b, cur[b])
    /\ UNCHANGED <<trade, market, validated>>

\* Nothing was executed: the exchange's status is recorded.
RecoverUnfilled(b) ==
    /\ pc[b] = "recover_reply"
    /\ NotBackwards(b)
    /\ resp[b].exec = 0
    /\ RecoverRecord(b, 0, resp[b].status)
    /\ NextRow(b, cur[b])
    /\ UNCHANGED <<trade, market, validated>>

\* Executed but not final.
RecoverActive(b) ==
    /\ pc[b] = "recover_reply"
    /\ NotBackwards(b)
    /\ resp[b].exec > 0
    /\ resp[b].status \notin FillStatuses
    /\ RecoverRecord(b, resp[b].exec, "RECOVERY_REQUIRED")
    /\ NextRow(b, cur[b])
    /\ UNCHANGED <<trade, market, validated>>

\* Executed and final: ask for the account's fills.
RecoverTerminal(b) ==
    /\ pc[b] = "recover_reply"
    /\ NotBackwards(b)
    /\ resp[b].exec > 0
    /\ resp[b].status \in FillStatuses
    /\ Goto(b, "recover_fills")
    /\ UNCHANGED <<db, market, validated, cur, resp, held, todo>>

\* my_trades raises or does not add up to the executed quantity.
RecoverFillsMissing(b) ==
    /\ pc[b] = "recover_fills"
    /\ RecoverRecord(b, resp[b].exec, "RECOVERY_REQUIRED")
    /\ NextRow(b, cur[b])
    /\ UNCHANGED <<trade, market, validated>>

RecoverFillsComplete(b) ==
    /\ pc[b] = "recover_fills"
    /\ RecoverRecord(b, resp[b].exec, resp[b].status)
    /\ Goto(b, "recover_apply")
    /\ UNCHANGED <<trade, market, validated, cur, resp, held, todo>>

\* Mutant: the base fee is not taken off the recovered quantity.
RecoverBuyGross(b) ==
    /\ pc[b] = "recover_apply"
    /\ CanOpenTrade(orders, trade, cur[b])
    /\ trade' = OpenedTrade(cur[b], resp[b].exec)
    /\ orders' = [orders EXCEPT ![cur[b]] = WithApplied(@)]
    /\ NextRow(b, cur[b])
    /\ UNCHANGED <<market, validated>>

\* The recovered BUY opens a position of the whole net quantity: unlike
\* enter, this path does not pass it through the quantity filters.
RecoverBuy(b) ==
    /\ pc[b] = "recover_apply"
    /\ Net[resp[b].exec] > 0
    /\ CanOpenTrade(orders, trade, cur[b])
    /\ trade' = OpenedTrade(cur[b], Net[resp[b].exec])
    /\ orders' = [orders EXCEPT ![cur[b]] = WithApplied(@)]
    /\ NextRow(b, cur[b])
    /\ UNCHANGED <<market, validated>>

\* The recovered SELL closes whatever trade is OPEN now.
RecoverSell(b) ==
    /\ pc[b] = "recover_apply"
    /\ CanCloseTrade(orders, trade, cur[b], trade.id)
    /\ trade' = AfterSale(trade, resp[b].exec)
    /\ orders' = [orders EXCEPT ![cur[b]] = WithApplied(@)]
    /\ NextRow(b, cur[b])
    /\ UNCHANGED <<market, validated>>

RecoverFails(b) ==
    /\ pc[b] = "recover_apply"
    /\ ~CanCloseTrade(orders, trade, cur[b], trade.id)
    /\ ~CanOpenTrade(orders, trade, cur[b]) \/ Net[resp[b].exec] = 0
    /\ NextRow(b, cur[b])
    /\ UNCHANGED <<db, market, validated>>

\* Rows that stay unresolved only raise a warning; the flag stays down only
\* if the protection of the open position, checked next, raises.
FinishReconcile(b) ==
    /\ pc[b] = "recover"
    /\ todo[b] = {}
    /\ \E ok \in BOOLEAN : validated' = [validated EXCEPT ![b] = ok]
    /\ Return(b)
    /\ UNCHANGED <<db, market>>

-----------------------------------------------------------------------------
(* Interruptions. *)

\* TradingOrchestrator.stop cancels the cycle at an await.  close_trade
\* follows update_order_record without one, so a SELL is not cut there.
Cancel(b) ==
    /\ validated[b]
    /\ pc[b] \in EntryPoints \cup ExitPoints
    /\ ~(pc[b] = "commit" /\ orders[cur[b]].side = "SELL")
    /\ Return(b)
    /\ UNCHANGED <<db, market, validated>>

\* The process dies, or is restarted: only the database survives.
Crash(b) ==
    /\ validated' = [validated EXCEPT ![b] = FALSE]
    /\ Return(b)
    /\ UNCHANGED <<db, market>>

-----------------------------------------------------------------------------
(* The exchange. *)

Accept(o) ==
    /\ exch[o].status = "INFLIGHT"
    /\ exch' = [exch EXCEPT ![o].status = "NEW"]
    /\ UNCHANGED <<db, base, local>>

Lose(o) ==
    /\ exch[o].status = "INFLIGHT"
    /\ exch' = [exch EXCEPT ![o].status = "LOST"]
    /\ UNCHANGED <<db, base, local>>

\* The order executes q more; a BUY is credited net of its base fee.
Fill(o) ==
    /\ exch[o].status \in {"NEW", "PARTIALLY_FILLED"}
    /\ \E q \in FillSizes :
        LET e == exch[o].exec + q IN
        /\ e <= orders[o].req
        /\ orders[o].side = "SELL" => q <= base
        /\ base' = IF orders[o].side = "BUY"
                     THEN base + (Net[e] - Net[exch[o].exec])
                     ELSE base - q
        /\ exch' = [exch EXCEPT ![o] =
                      [status |-> IF e = orders[o].req THEN "FILLED"
                                                      ELSE "PARTIALLY_FILLED",
                       exec |-> e]]
    /\ UNCHANGED <<db, local>>

Expire(o) ==
    /\ exch[o].status \in {"NEW", "PARTIALLY_FILLED"}
    /\ exch' = [exch EXCEPT ![o].status = "EXPIRED"]
    /\ UNCHANGED <<db, base, local>>

RejectOrder(o) ==
    /\ exch[o].status = "NEW"
    /\ exch' = [exch EXCEPT ![o].status = "REJECTED"]
    /\ UNCHANGED <<db, base, local>>

-----------------------------------------------------------------------------
EnterStep(b) == StartEnter(b) \/ SubmitBuy(b) \/ AbandonEntry(b)

ExitStep(b) ==
    StartExit(b) \/ ReadPosition(b) \/ SubmitSell(b) \/ AbandonExit(b)

SubmitStep(b) ==
    \/ Send(b) \/ SubmitAnswered(b) \/ SubmitFails(b)
    \/ QueryAnswered(b) \/ QueryFails(b)
    \/ RejectResponse(b) \/ RecordOutcome(b)
    \/ CommitBuy(b) \/ CommitSell(b) \/ CommitFails(b)

RecoverStep(b) ==
    \/ StartReconcile(b) \/ RecoverQuery(b) \/ RecoverQueryFails(b)
    \/ RecoverRejects(b) \/ RecoverUnfilled(b) \/ RecoverActive(b)
    \/ RecoverTerminal(b) \/ RecoverFillsMissing(b) \/ RecoverFillsComplete(b)
    \/ RecoverBuy(b) \/ RecoverSell(b) \/ RecoverFails(b) \/ FinishReconcile(b)

ExchangeStep(o) ==
    Accept(o) \/ Lose(o) \/ Fill(o) \/ Expire(o) \/ RejectOrder(o)

Next ==
    \/ \E b \in Brokers :
        \/ EnterStep(b) \/ ExitStep(b) \/ SubmitStep(b) \/ RecoverStep(b)
        \/ Cancel(b) \/ Crash(b)
    \/ \E o \in OrderIds : ExchangeStep(o)

Spec == Init /\ [][Next]_vars

(***************************************************************************)
(* Fairness.  asyncio resumes a task whose await has ended.  The exchange  *)
(* drops or accepts a request and finishes an order it accepted.  Queries  *)
(* and fill look-ups do not fail for ever, and interruptions do not always *)
(* hit reconciliation at the same point (strong fairness).  A broker that  *)
(* stands idle behind an unresolved order is restarted, as its error       *)
(* message asks ("manual/restart reconciliation is required"): nothing in  *)
(* a running process reconciles again.                                     *)
(***************************************************************************)
Restart(b) == pc[b] = "idle" /\ validated[b] /\ HasUnresolved /\ Crash(b)

Resume(b) ==
    pc[b] # "idle" /\ (EnterStep(b) \/ ExitStep(b) \/ SubmitStep(b) \/ RecoverStep(b))

Fairness ==
    /\ \A b \in Brokers :
        /\ WF_vars(Resume(b)) /\ WF_vars(Restart(b))
        /\ SF_vars(StartReconcile(b)) /\ SF_vars(RecoverQuery(b))
        /\ SF_vars(RecoverTerminal(b)) /\ SF_vars(RecoverFillsComplete(b))
        /\ SF_vars(RecoverBuy(b) \/ RecoverSell(b))
    /\ \A o \in OrderIds :
        /\ WF_vars(Accept(o) \/ Lose(o))
        /\ WF_vars(Fill(o) \/ Expire(o) \/ RejectOrder(o))

FairSpec == Spec /\ Fairness

-----------------------------------------------------------------------------
(* Properties. *)

OrderRow == [side : {"NONE", "BUY", "SELL"}, req : Qty,
             status : {"ABSENT"} \cup OpenStatuses \cup ClosedStatuses,
             exec : Qty, applied : BOOLEAN]
TradeRow == [id : OrderIds \cup {NoOrder}, qty : Qty]
Response == [status : {"NONE"} \cup Visible, exec : Qty, fills : BOOLEAN]
TodoRow  == [id : OrderIds, exec : Qty]

TypeOK ==
    /\ orders \in [OrderIds -> OrderRow]
    /\ trade \in TradeRow
    /\ exch \in [OrderIds -> ExchangeState]
    /\ base \in Nat
    /\ validated \in [Brokers -> BOOLEAN]
    /\ pc \in [Brokers -> Points]
    /\ cur \in [Brokers -> OrderIds \cup {NoOrder}]
    /\ resp \in [Brokers -> Response]
    /\ held \in [Brokers -> TradeRow]
    /\ todo \in [Brokers -> SUBSET TodoRow]

\* The exchange is done with the order and the ledger holds its executions.
Settled(o) ==
    /\ exch[o].status \in ClosedStatuses
    /\ exch[o].exec > 0 => orders[o].applied

Outstanding(o) == Recorded(orders[o]) /\ ~Settled(o)

\* At most one order of the symbol is anything but settled, whichever broker,
\* crash or late answer is involved: the promise of the intent row ("Persisted
\* intents and transactional checks prevent a second pending order",
\* LIVE_TRADING_READINESS.md:24-25) stated about the exchange.
OneOutstandingOrder ==
    \A o, p \in OrderIds : Outstanding(o) /\ Outstanding(p) => o = p

\* What the exchange executed and the ledger does not hold keeps the symbol
\* blocked, although update_order_record overwrites a row with whatever a slow
\* query returned ("a durable block", LIVE_TRADING_READINESS.md:26-27).
ExecutionStaysBlocked ==
    \A o \in OrderIds :
        exch[o].exec > 0 /\ ~orders[o].applied => Unresolved(orders[o])

\* With one broker, the account always holds the recorded position on top of
\* what is not the bot's, up to the order that is still outstanding.
PositionBacked ==
    /\ (\A o \in OrderIds : ~Outstanding(o)) => InitialBase + trade.qty <= base
    /\ \A o \in OrderIds : Outstanding(o) =>
         IF orders[o].side = "BUY"
           THEN ~IsOpen(trade) /\ InitialBase + Net[exch[o].exec] <= base
           ELSE InitialBase + trade.qty <= base + exch[o].exec

\* With one broker, software exits never sell base asset that the bot did not
\* buy, however fills, crashes and restarts fall.
ForeignBaseKept == InitialBase <= base

\* The invariant that carries the ones above: what the tables say is final is
\* what the exchange says, and so is every response a broker still holds.
OrderOK(o) ==
    /\ ~Recorded(orders[o]) =>
         ~orders[o].applied /\ exch[o].status = "NONE"
    /\ Recorded(orders[o]) => orders[o].side \in {"BUY", "SELL"}
    /\ exch[o].status \in {"NONE", "INFLIGHT", "LOST", "NEW", "REJECTED"}
         => exch[o].exec = 0
    /\ exch[o].exec <= orders[o].req
    /\ orders[o].status \in ClosedStatuses =>
         /\ exch[o].status \in ClosedStatuses
         /\ orders[o].exec = exch[o].exec
    /\ orders[o].applied => exch[o].status \in ClosedStatuses

AtOrder    == {"submit", "sent", "query", "record", "commit",
               "recover_reply", "recover_fills", "recover_apply"}
AtResponse == {"record", "commit", "recover_reply", "recover_fills",
               "recover_apply"}
AtFinal    == {"commit", "recover_fills", "recover_apply"}

BrokerOK(b) ==
    /\ pc[b] \in AtOrder => cur[b] \in OrderIds /\ Recorded(orders[cur[b]])
    /\ pc[b] = "submit" => exch[cur[b]].status = "NONE"
    /\ pc[b] \in AtResponse =>
         /\ resp[b].status \in Visible
         /\ resp[b].status \in ClosedStatuses =>
              /\ exch[cur[b]].status \in ClosedStatuses
              /\ resp[b].exec = exch[cur[b]].exec
    /\ pc[b] \in AtFinal => resp[b].status \in FillStatuses /\ resp[b].exec > 0
    /\ \A row \in todo[b] : Recorded(orders[row.id])

\* An order is submitted by the broker that recorded its intent and no other.
SubmitAlone ==
    \A b, c \in Brokers :
        pc[b] = "submit" /\ pc[c] = "submit" /\ cur[b] = cur[c] => b = c

IInv ==
    /\ TypeOK
    /\ \A o \in OrderIds : OrderOK(o)
    /\ \A b \in Brokers : BrokerOK(b)
    /\ SubmitAlone
    /\ OneOutstandingOrder

\* What one broker adds to it: the SELL it works on fits the position.
ExitFits ==
    /\ ~IsOpen(trade) => trade.qty = 0
    /\ \A o \in OrderIds :
         Outstanding(o) /\ orders[o].side = "SELL" => orders[o].req <= trade.qty
    /\ \A b \in Brokers : pc[b] = "exit" => held[b] = trade

\* Each order changes the recorded position exactly once and orders alternate
\* as TradeDiscipline says: the brokers implement that specification.
OutcomeOf(o) ==
    CASE ~Recorded(orders[o]) -> "unused"
      [] orders[o].applied /\ orders[o].side = "BUY" -> "bought"
      [] orders[o].applied /\ orders[o].side = "SELL" -> "sold"
      [] Recorded(orders[o]) /\ ~orders[o].applied /\ Settled(o) -> "void"
      [] Outstanding(o) /\ orders[o].side = "BUY" -> "buying"
      [] OTHER -> "selling"

Discipline == INSTANCE TradeDiscipline WITH
    Orders  <- OrderIds,
    outcome <- [o \in OrderIds |-> OutcomeOf(o)],
    book    <- IF IsOpen(trade) THEN "open" ELSE "flat"

ImplementsDiscipline == Discipline!Spec

\* With one broker and restarts while an order is unresolved, everything the
\* exchange executed reaches the ledger in the end, whatever was lost on the
\* way ("can be recovered and applied after a restart",
\* LIVE_TRADING_READINESS.md:100-103).
ExecutionsLand ==
    \A o \in OrderIds : exch[o].exec > 0 ~> orders[o].applied

\* Every recorded position can be traded in full, so that it can be protected
\* and sold ("A recovered BUY now receives exchange-resident OCO protection
\* during the reconciliation workflow itself", LIVE_TRADING_READINESS.md:104).
PositionTradable == Normalize[trade.qty] = trade.qty

=============================================================================
