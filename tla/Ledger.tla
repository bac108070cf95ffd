------------------------------- MODULE Ledger -------------------------------
(***************************************************************************)
(* The order and trade tables of app/storage/db.py, seen through the       *)
(* transactions that TradingDB runs on them, for one (mode, symbol).       *)
(*                                                                         *)
(* A row of the order table is a record; the OPEN row of the trade table   *)
(* is a record too, with NoTrade for "no OPEN row" (the partial unique     *)
(* index admits at most one).  Every operator is one SQLite transaction or *)
(* the condition one of them evaluates, so the modules that use it decide  *)
(* only WHEN a transaction runs.                                           *)
(*                                                                         *)
(* CANCELED and EXPIRED_IN_MATCH are treated by the code exactly as        *)
(* EXPIRED is, so EXPIRED stands for the three of them.                    *)
(***************************************************************************)
EXTENDS Naturals

CONSTANTS OrderIds,     \* client order ids: each is minted once (uuid4)
          NoOrder       \* "no order id"

ASSUME NoOrderAssumption == NoOrder \notin OrderIds

-----------------------------------------------------------------------------
(* Order rows. *)

FillStatuses   == {"FILLED", "EXPIRED"}
ClosedStatuses == FillStatuses \cup {"REJECTED"}
OpenStatuses   == {"PENDING_SUBMIT", "UNKNOWN", "RECOVERY_REQUIRED",
                   "NEW", "PARTIALLY_FILLED"}

AbsentRow == [side |-> "NONE", req |-> 0, status |-> "ABSENT",
              exec |-> 0, applied |-> FALSE]

Recorded(row) == row.status # "ABSENT"

\* Mutant: an executed order whose status is final no longer counts.
UnresolvedByStatus(row) ==
    Recorded(row) /\ row.status \notin ClosedStatuses

\* The WHERE clause of unresolved_orders, of record_order_intent and of
\* tracked_symbols: the outcome is open, or an execution is not in the ledger.
Unresolved(row) ==
    /\ Recorded(row)
    /\ \/ row.status \notin ClosedStatuses
       \/ row.exec > 0 /\ ~row.applied

NewIntent(side, qty) ==
    [side |-> side, req |-> qty, status |-> "PENDING_SUBMIT",
     exec |-> 0, applied |-> FALSE]

\* update_order_record overwrites the outcome columns, whatever they held.
WithOutcome(row, exec, status) == [row EXCEPT !.exec = exec, !.status = status]

\* _apply_order_conn marks a row only if it matches this condition.
Applicable(row, side) ==
    /\ row.side = side
    /\ ~row.applied
    /\ row.exec > 0
    /\ row.status \in FillStatuses

\* Mutant: the transaction changes the trade and forgets the order.
AppliedForgotten(row) == row

WithApplied(row) == [row EXCEPT !.applied = TRUE]

-----------------------------------------------------------------------------
(* The OPEN trade.  A trade is identified by the BUY that opened it. *)

NoTrade == [id |-> NoOrder, qty |-> 0]

IsOpen(trade) == trade.id # NoOrder

\* Mutant: the intent is recorded whatever else is pending.
IntentUnchecked(orders, trade, side) == (side = "BUY") = ~IsOpen(trade)

\* record_order_intent inserts a row only under this condition.
IntentAllowed(orders, trade, side) ==
    /\ \A o \in OrderIds : ~Unresolved(orders[o])
    /\ (side = "BUY") = ~IsOpen(trade)

\* open_trade applies the BUY and inserts the OPEN row, or does neither: the
\* unique index refuses a second OPEN row.
CanOpenTrade(orders, trade, o) ==
    Applicable(orders[o], "BUY") /\ ~IsOpen(trade)

OpenedTrade(o, qty) == [id |-> o, qty |-> qty]

\* close_trade applies the SELL and reduces or closes the OPEN row named by
\* its id, or does neither.
CanCloseTrade(orders, trade, o, tradeId) ==
    /\ IsOpen(trade)
    /\ trade.id = tradeId
    /\ Applicable(orders[o], "SELL")

\* Mutant: a partly executed exit leaves the position as it was.
SaleKeepsRemainder(trade, executed) ==
    IF executed < trade.qty THEN trade ELSE NoTrade

AfterSale(trade, executed) ==
    IF executed < trade.qty THEN [trade EXCEPT !.qty = @ - executed]
                            ELSE NoTrade

=============================================================================
