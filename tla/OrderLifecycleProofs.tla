------------------------ MODULE OrderLifecycleProofs ------------------------
(***************************************************************************)
(* Theorems about OrderLifecycle, for any set of brokers, any set of order *)
(* ids and any quantities.                                                 *)
(*                                                                         *)
(* The steps fall into few shapes: what they write to the order row, what  *)
(* the exchange does to its view of an order, and where they leave the     *)
(* broker.  One lemma per shape carries the invariant across it; the step  *)
(* lemmas then say which shape each action has.                            *)
(***************************************************************************)
EXTENDS OrderLifecycle, TLAPS

RowStatuses == {"ABSENT"} \cup OpenStatuses \cup ClosedStatuses

-----------------------------------------------------------------------------
(* Rows and responses. *)

\* The constant records have the types of the tables and of the locals.
LEMMA Constants ==
    /\ AbsentRow \in OrderRow
    /\ NoTrade \in TradeRow
    /\ NoResponse \in Response
    /\ 0 \in Qty
  BY QtyAssumption DEF AbsentRow, OrderRow, NoTrade, TradeRow, NoResponse,
     Response, Qty

\* update_order_record writes the outcome columns and no others.
LEMMA OutcomeRow ==
    ASSUME NEW row \in OrderRow, NEW e \in Qty, NEW s \in RowStatuses
    PROVE  /\ WithOutcome(row, e, s) \in OrderRow
           /\ WithOutcome(row, e, s).side = row.side
           /\ WithOutcome(row, e, s).req = row.req
           /\ WithOutcome(row, e, s).applied = row.applied
           /\ WithOutcome(row, e, s).exec = e
           /\ WithOutcome(row, e, s).status = s
<1>1. WithOutcome(row, e, s) \in OrderRow
  BY DEF WithOutcome, OrderRow, RowStatuses
<1>2. /\ WithOutcome(row, e, s).side = row.side
      /\ WithOutcome(row, e, s).req = row.req
      /\ WithOutcome(row, e, s).applied = row.applied
      /\ WithOutcome(row, e, s).exec = e
      /\ WithOutcome(row, e, s).status = s
  BY DEF WithOutcome, OrderRow
<1> QED BY <1>1, <1>2

\* Applying an order writes ledger_applied and no other column.
LEMMA AppliedRow ==
    ASSUME NEW row \in OrderRow
    PROVE  /\ WithApplied(row) \in OrderRow
           /\ WithApplied(row).side = row.side
           /\ WithApplied(row).req = row.req
           /\ WithApplied(row).applied
           /\ WithApplied(row).exec = row.exec
           /\ WithApplied(row).status = row.status
<1>1. WithApplied(row) \in OrderRow
  BY DEF WithApplied, OrderRow
<1>2. /\ WithApplied(row).side = row.side
      /\ WithApplied(row).req = row.req
      /\ WithApplied(row).applied = TRUE
      /\ WithApplied(row).exec = row.exec
      /\ WithApplied(row).status = row.status
  BY DEF WithApplied, OrderRow
<1> QED BY <1>1, <1>2

\* An intent row is recorded, open and unapplied.
LEMMA IntentRow ==
    ASSUME NEW side \in {"BUY", "SELL"}, NEW q \in Qty
    PROVE  /\ NewIntent(side, q) \in OrderRow
           /\ NewIntent(side, q).side = side
           /\ NewIntent(side, q).req = q
           /\ ~NewIntent(side, q).applied
           /\ NewIntent(side, q).exec = 0
           /\ NewIntent(side, q).status = "PENDING_SUBMIT"
  BY Constants DEF NewIntent, OrderRow, OpenStatuses

\* What a broker hears of an order has the type of a response.
LEMMA AnswerType ==
    ASSUME TypeOK, NEW o \in OrderIds, NEW f \in BOOLEAN,
           exch[o].status \in Visible
    PROVE  /\ Answer(o, f) \in Response
           /\ Answer(o, f).status = exch[o].status
           /\ Answer(o, f).exec = exch[o].exec
  BY DEF TypeOK, Answer, Response, ExchangeState

\* A statement about the names of the statuses, expanded once.
LEMMA StatusFacts ==
    /\ FillStatuses \subseteq ClosedStatuses
    /\ ClosedStatuses \subseteq Visible
    /\ Visible \subseteq RowStatuses \ {"ABSENT"}
    /\ OpenStatuses \subseteq RowStatuses \ {"ABSENT"}
    /\ OpenStatuses \cap ClosedStatuses = {}
    /\ {"NONE", "INFLIGHT", "LOST", "NEW", "PARTIALLY_FILLED"}
         \cap ClosedStatuses = {}
    /\ {"PENDING_SUBMIT", "UNKNOWN", "RECOVERY_REQUIRED"} \subseteq OpenStatuses
    /\ "ABSENT" \notin ClosedStatuses
    /\ {"NEW", "PARTIALLY_FILLED"} \subseteq Visible
  BY DEF FillStatuses, ClosedStatuses, Visible, RowStatuses, OpenStatuses

-----------------------------------------------------------------------------
(* What a step may do to the tables and to the exchange. *)

OrdersOK == \A o \in OrderIds : OrderOK(o)

\* Recorded orders stay recorded and what the exchange finished is final.
Forward ==
    \A o \in OrderIds :
        /\ Recorded(orders[o]) => Recorded(orders[o])'
        /\ exch[o].status \in ClosedStatuses => exch'[o] = exch[o]

TablesOK ==
    /\ orders' \in [OrderIds -> OrderRow]
    /\ exch' \in [OrderIds -> ExchangeState]
    /\ OrdersOK'
    /\ OneOutstandingOrder'
    /\ Forward

\* A step that touches neither the tables nor the exchange keeps what is true of
\* them.
LEMMA KeepTables ==
    ASSUME IInv, UNCHANGED <<orders, exch>>
    PROVE  TablesOK
  BY DEF IInv, TypeOK, TablesOK, OrdersOK, OrderOK, OneOutstandingOrder,
     Outstanding, Settled, Forward

\* update_order_record, with an outcome that is final only if it is true.
LEMMA WriteOutcome ==
    ASSUME IInv, NEW c \in OrderIds, NEW e \in Qty,
           NEW s \in RowStatuses \ {"ABSENT"},
           Recorded(orders[c]),
           s \in ClosedStatuses =>
               exch[c].status \in ClosedStatuses /\ e = exch[c].exec,
           orders' = [orders EXCEPT ![c] = WithOutcome(@, e, s)],
           exch' = exch
    PROVE  TablesOK
<1>1. ASSUME NEW o \in OrderIds
      PROVE  /\ orders'[o] \in OrderRow
             /\ o # c => orders'[o] = orders[o]
             /\ orders'[o].side = orders[o].side
             /\ orders'[o].req = orders[o].req
             /\ orders'[o].applied = orders[o].applied
             /\ o = c => orders'[o].exec = e /\ orders'[o].status = s
  <2>1. CASE o = c
    BY <2>1, OutcomeRow DEF IInv, TypeOK
  <2>2. CASE o # c
    BY <2>2 DEF IInv, TypeOK
  <2> QED BY <2>1, <2>2
<1>2. \A o \in OrderIds : Recorded(orders[o])' <=> Recorded(orders[o])
  BY <1>1 DEF Recorded
<1>3. OrdersOK'
  BY <1>1, <1>2 DEF IInv, OrdersOK, OrderOK
<1>4. \A o \in OrderIds : Outstanding(o)' <=> Outstanding(o)
  BY <1>1, <1>2 DEF Outstanding, Settled
<1>5. OneOutstandingOrder'
  BY <1>4 DEF IInv, OneOutstandingOrder
<1>6. orders' \in [OrderIds -> OrderRow]
  BY <1>1 DEF IInv, TypeOK
<1> QED BY <1>2, <1>3, <1>5, <1>6 DEF TablesOK, Forward, IInv, TypeOK

\* open_trade or close_trade marks the order applied.
LEMMA WriteApplied ==
    ASSUME IInv, NEW c \in OrderIds, NEW side, Applicable(orders[c], side),
           orders' = [orders EXCEPT ![c] = WithApplied(@)],
           exch' = exch
    PROVE  TablesOK
<1>1. ASSUME NEW o \in OrderIds
      PROVE  /\ orders'[o] \in OrderRow
             /\ orders'[o].side = orders[o].side
             /\ orders'[o].req = orders[o].req
             /\ orders'[o].exec = orders[o].exec
             /\ orders'[o].status = orders[o].status
             /\ o # c => orders'[o].applied = orders[o].applied
             /\ o = c => orders'[o].applied
  <2>1. CASE o = c
    BY <2>1, AppliedRow DEF IInv, TypeOK
  <2>2. CASE o # c
    BY <2>2 DEF IInv, TypeOK
  <2> QED BY <2>1, <2>2
<1>2. \A o \in OrderIds : Recorded(orders[o])' <=> Recorded(orders[o])
  BY <1>1 DEF Recorded
<1>3. exch[c].status \in ClosedStatuses /\ Recorded(orders[c])
  BY StatusFacts DEF Applicable, IInv, OrderOK, Recorded
<1>4. OrdersOK'
  BY <1>1, <1>2, <1>3 DEF IInv, OrdersOK, OrderOK
<1>5. \A o \in OrderIds : Outstanding(o)' => Outstanding(o)
  BY <1>1, <1>2 DEF Outstanding, Settled
<1>6. OneOutstandingOrder'
  BY <1>5 DEF IInv, OneOutstandingOrder
<1>7. orders' \in [OrderIds -> OrderRow]
  BY <1>1 DEF IInv, TypeOK
<1> QED BY <1>2, <1>4, <1>6, <1>7 DEF TablesOK, Forward, IInv, TypeOK

\* An order the tables take for resolved is settled.
LEMMA ResolvedIsSettled ==
    ASSUME IInv, NEW o \in OrderIds, ~Unresolved(orders[o])
    PROVE  ~Outstanding(o)
<1>1. CASE ~Recorded(orders[o])
  BY <1>1 DEF Outstanding
<1>2. CASE Recorded(orders[o])
  BY <1>2, QtyAssumption DEF IInv, TypeOK, OrderOK, Outstanding, Settled, Unresolved,
     OrderRow, Qty
<1> QED BY <1>1, <1>2

\* record_order_intent adds the only order that is not settled.
LEMMA WriteIntent ==
    ASSUME IInv, NEW b \in Brokers, NEW c \in OrderIds,
           NEW side \in {"BUY", "SELL"}, NEW q \in Qty,
           RecordIntent(b, c, side, q)
    PROVE  TablesOK
<1>1. ASSUME NEW o \in OrderIds
      PROVE  /\ orders'[o] \in OrderRow
             /\ o # c => orders'[o] = orders[o]
             /\ o = c => /\ orders'[o].side = side
                         /\ orders'[o].req = q
                         /\ orders'[o].exec = 0
                         /\ orders'[o].status = "PENDING_SUBMIT"
                         /\ ~orders'[o].applied
  <2>1. CASE o = c
    BY <2>1, IntentRow DEF IInv, TypeOK, RecordIntent
  <2>2. CASE o # c
    BY <2>2 DEF IInv, TypeOK, RecordIntent
  <2> QED BY <2>1, <2>2
<1>2. exch' = exch
  BY DEF RecordIntent, market
<1>3. ~Recorded(orders[c]) /\ Recorded(orders[c])'
  BY <1>1 DEF RecordIntent, Recorded
<1>4. OrderOK(c)'
  BY <1>1, <1>2, <1>3, StatusFacts, QtyAssumption
  DEF IInv, OrderOK, TypeOK, ExchangeState, Qty
<1>5. \A o \in OrderIds \ {c} : OrderOK(o)'
  BY <1>1, <1>2 DEF IInv, OrderOK, Recorded
<1>6. \A o \in OrderIds \ {c} : ~Outstanding(o)'
  BY <1>1, <1>2, ResolvedIsSettled
  DEF RecordIntent, IntentAllowed, Outstanding, Settled, Recorded
<1>7. orders' \in [OrderIds -> OrderRow]
  BY <1>1 DEF IInv, TypeOK, RecordIntent
<1>8. Forward
  BY <1>1, <1>2, <1>3 DEF Forward, Recorded
<1> QED BY <1>2, <1>4, <1>5, <1>6, <1>7, <1>8
        DEF TablesOK, OrdersOK, OneOutstandingOrder, IInv, TypeOK

\* The exchange moves an order it has not finished.
LEMMA WriteExchange ==
    ASSUME IInv, NEW c \in OrderIds, NEW x \in ExchangeState,
           exch[c].status \notin ClosedStatuses,
           Recorded(orders[c]),
           x.status \in {"NONE", "INFLIGHT", "LOST", "NEW", "REJECTED"}
             => x.exec = 0,
           x.exec <= orders[c].req,
           exch' = [exch EXCEPT ![c] = x],
           orders' = orders
    PROVE  TablesOK
<1>1. ASSUME NEW o \in OrderIds
      PROVE  /\ o # c => exch'[o] = exch[o]
             /\ o = c => exch'[o] = x
  BY DEF IInv, TypeOK
<1>2. OrderOK(c)'
  BY <1>1 DEF IInv, OrderOK
<1>3. \A o \in OrderIds \ {c} : OrderOK(o)'
  BY <1>1 DEF IInv, OrderOK
<1>4. Outstanding(c)
  BY DEF Outstanding, Settled
<1>5. \A o \in OrderIds \ {c} : Outstanding(o)' => Outstanding(o)
  BY <1>1 DEF Outstanding, Settled
<1>6. OneOutstandingOrder'
  BY <1>4, <1>5 DEF IInv, OneOutstandingOrder
<1>7. Forward
  BY <1>1 DEF Forward
<1> QED BY <1>2, <1>3, <1>6, <1>7 DEF TablesOK, OrdersOK, IInv, TypeOK

-----------------------------------------------------------------------------
(* What a step may do to the brokers. *)

OthersWait(b) ==
    \A c \in Brokers \ {b} :
        pc'[c] = pc[c] /\ cur'[c] = cur[c] /\ resp'[c] = resp[c] /\ todo'[c] = todo[c]

LocalsTyped ==
    /\ validated' \in [Brokers -> BOOLEAN]
    /\ pc' \in [Brokers -> Points]
    /\ cur' \in [Brokers -> OrderIds \cup {NoOrder}]
    /\ resp' \in [Brokers -> Response]
    /\ held' \in [Brokers -> TradeRow]
    /\ todo' \in [Brokers -> SUBSET TodoRow]

\* A broker that does not move keeps what it knows about the tables.
LEMMA WaitingBroker ==
    ASSUME IInv, TablesOK, NEW c \in Brokers,
           pc'[c] = pc[c], cur'[c] = cur[c], resp'[c] = resp[c],
           todo'[c] = todo[c],
           pc[c] = "submit" => exch'[cur[c]].status = "NONE"
    PROVE  BrokerOK(c)'
<1>1. BrokerOK(c)
  BY DEF IInv
<1>2. todo[c] \subseteq TodoRow
  BY DEF IInv, TypeOK
<1>3. \A row \in todo[c] : row.id \in OrderIds
  BY <1>2 DEF TodoRow
<1>4. \A row \in todo'[c] : Recorded(orders[row.id])'
  BY <1>1, <1>3 DEF BrokerOK, TablesOK, Forward
<1>5. pc[c] \in AtOrder => Recorded(orders[cur[c]])'
  BY <1>1 DEF BrokerOK, TablesOK, Forward
<1>6. pc[c] \in AtResponse /\ resp[c].status \in ClosedStatuses
        => exch'[cur[c]] = exch[cur[c]]
  BY <1>1 DEF BrokerOK, TablesOK, Forward, AtResponse, AtOrder
<1> QED BY <1>1, <1>4, <1>5, <1>6 DEF BrokerOK

\* The call ended: the broker has nothing left to be wrong about.
LEMMA ReturnStep ==
    ASSUME IInv, NEW b \in Brokers, Return(b)
    PROVE  /\ OthersWait(b)
           /\ pc'[b] = "idle"
           /\ BrokerOK(b)'
           /\ validated' \in [Brokers -> BOOLEAN] => LocalsTyped
<1>1. pc'[b] = "idle" /\ todo'[b] = {} /\ OthersWait(b)
  BY DEF IInv, TypeOK, Return, Goto, OthersWait
<1>2. BrokerOK(b)'
  BY <1>1 DEF BrokerOK, AtOrder, AtResponse, AtFinal
<1>3. "idle" \in Points
  BY DEF Points
<1>4. validated' \in [Brokers -> BOOLEAN] => LocalsTyped
  BY <1>3, Constants DEF IInv, TypeOK, Return, Goto, LocalsTyped
<1> QED BY <1>1, <1>2, <1>4

\* The recovery loop goes on with the rows it has left.
LEMMA NextRowStep ==
    ASSUME IInv, NEW b \in Brokers, NEW id, NextRow(b, id), TablesOK,
           UNCHANGED validated
    PROVE  /\ OthersWait(b)
           /\ pc'[b] = "recover"
           /\ BrokerOK(b)'
           /\ LocalsTyped
<1>1. /\ pc'[b] = "recover" /\ OthersWait(b)
      /\ todo'[b] = {row \in todo[b] : row.id # id}
  BY DEF IInv, TypeOK, NextRow, Goto, OthersWait
<1>2. \A row \in todo[b] : row.id \in OrderIds /\ Recorded(orders[row.id])
  BY DEF IInv, TypeOK, TodoRow, BrokerOK
<1>3. BrokerOK(b)'
  BY <1>1, <1>2 DEF BrokerOK, AtOrder, AtResponse, AtFinal, TablesOK, Forward
<1>4. "recover" \in Points
  BY DEF Points, RecoveryPoints
<1>5. todo' \in [Brokers -> SUBSET TodoRow]
  BY DEF IInv, TypeOK, NextRow
<1> QED BY <1>1, <1>3, <1>4, <1>5, Constants
        DEF IInv, TypeOK, NextRow, Goto, LocalsTyped

\* One broker moved, and not to the point where it would send.
LEMMA BrokerMoves ==
    ASSUME IInv, NEW b \in Brokers, TablesOK, OthersWait(b), BrokerOK(b)',
           LocalsTyped, trade' \in TradeRow, base' \in Nat,
           pc'[b] # "submit", exch' = exch
    PROVE  IInv'
<1>1. ASSUME NEW c \in Brokers PROVE BrokerOK(c)'
  <2>1. CASE c = b
    BY <2>1
  <2>2. CASE c # b
    <3>1. pc[c] = "submit" => exch'[cur[c]].status = "NONE"
      BY DEF IInv, BrokerOK
    <3> QED BY <2>2, <3>1, WaitingBroker DEF OthersWait
  <2> QED BY <2>1, <2>2
<1>2. SubmitAlone'
  BY DEF IInv, SubmitAlone, OthersWait
<1>3. TypeOK'
  BY DEF TypeOK, TablesOK, LocalsTyped
<1> QED BY <1>1, <1>2, <1>3 DEF IInv, TablesOK, OrdersOK

\* Only the exchange moved.
LEMMA ExchangeMoves ==
    ASSUME IInv, TablesOK, UNCHANGED local, trade' \in TradeRow, base' \in Nat,
           NEW o \in OrderIds, exch[o].status # "NONE",
           \A p \in OrderIds \ {o} : exch'[p] = exch[p]
    PROVE  IInv'
<1>1. ASSUME NEW c \in Brokers PROVE BrokerOK(c)'
  <2>1. pc[c] = "submit" => exch'[cur[c]].status = "NONE"
    BY DEF IInv, BrokerOK, AtOrder
  <2> QED BY <2>1, WaitingBroker DEF local
<1>2. SubmitAlone'
  BY DEF IInv, SubmitAlone, local
<1>3. TypeOK'
  BY DEF IInv, TypeOK, TablesOK, local
<1> QED BY <1>1, <1>2, <1>3 DEF IInv, TablesOK, OrdersOK

-----------------------------------------------------------------------------
(* The actions, one by one. *)

\* A broker that leaves the tables alone and returns.
LEMMA GiveUp ==
    ASSUME IInv, NEW b \in Brokers, Return(b), UNCHANGED <<db, market>>,
           validated' \in [Brokers -> BOOLEAN]
    PROVE  IInv'
<1>1. TablesOK
  BY KeepTables DEF db, market
<1>2. trade' \in TradeRow /\ base' \in Nat /\ exch' = exch
  BY DEF db, market, IInv, TypeOK
<1>3. pc'[b] # "submit"
  BY ReturnStep
<1> QED BY <1>1, <1>2, <1>3, ReturnStep, BrokerMoves

\* A broker that leaves the tables alone and goes to a point where it holds
\* no order yet.
LEMMA MoveOn ==
    ASSUME IInv, NEW b \in Brokers, NEW point \in Points, Goto(b, point),
           point \notin AtOrder, UNCHANGED <<db, market, validated, cur, resp, todo>>,
           held' \in [Brokers -> TradeRow]
    PROVE  IInv'
<1>1. TablesOK
  BY KeepTables DEF db, market
<1>2. pc'[b] = point /\ OthersWait(b)
  BY DEF Goto, OthersWait, IInv, TypeOK
<1>3. BrokerOK(b)'
  BY <1>2, <1>1 DEF db, market, IInv, BrokerOK, AtOrder, AtResponse, AtFinal
<1>4. LocalsTyped
  BY DEF Goto, LocalsTyped, IInv, TypeOK
<1>5. trade' \in TradeRow /\ base' \in Nat /\ exch' = exch
  BY DEF db, market, IInv, TypeOK
<1>6. pc'[b] # "submit"
  BY <1>2 DEF AtOrder
<1> QED BY <1>1, <1>2, <1>3, <1>4, <1>5, <1>6, BrokerMoves

\* record_order_intent, for an entry or an exit.
LEMMA IntentStep ==
    ASSUME IInv, NEW b \in Brokers, NEW o \in OrderIds,
           NEW side \in {"BUY", "SELL"}, NEW q \in Qty,
           RecordIntent(b, o, side, q)
    PROVE  IInv'
<1>1. TablesOK
  BY WriteIntent
<1>2. /\ pc'[b] = "submit" /\ cur'[b] = o /\ resp'[b] = resp[b]
      /\ todo'[b] = todo[b] /\ OthersWait(b)
  BY DEF RecordIntent, Goto, OthersWait, IInv, TypeOK
<1>3. exch' = exch /\ trade' = trade /\ base' = base
  BY DEF RecordIntent, market
<1>4. "submit" \in Points
  BY DEF Points, EntryPoints
<1>5. LocalsTyped
  BY <1>4 DEF RecordIntent, Goto, LocalsTyped, IInv, TypeOK
<1>6. ~Recorded(orders[o]) /\ Recorded(orders[o])' /\ exch[o].status = "NONE"
  BY IntentRow DEF RecordIntent, Recorded, IInv, TypeOK, OrderOK
<1>7. \A row \in todo[b] : row.id \in OrderIds /\ Recorded(orders[row.id])
  BY DEF IInv, TypeOK, TodoRow, BrokerOK
<1>8. BrokerOK(b)'
  BY <1>1, <1>2, <1>3, <1>6, <1>7
  DEF BrokerOK, AtResponse, AtFinal, TablesOK, Forward
<1>9. ASSUME NEW c \in Brokers PROVE BrokerOK(c)'
  <2>1. CASE c = b
    BY <2>1, <1>8
  <2>2. CASE c # b
    <3>1. pc[c] = "submit" => exch'[cur[c]].status = "NONE"
      BY <1>3 DEF IInv, BrokerOK
    <3> QED BY <1>1, <1>2, <2>2, <3>1, WaitingBroker DEF OthersWait
  <2> QED BY <2>1, <2>2
<1>10. \A c \in Brokers : pc[c] = "submit" => cur[c] # o
  BY <1>6 DEF IInv, BrokerOK, AtOrder
<1>11. SubmitAlone'
  BY <1>2, <1>10 DEF IInv, SubmitAlone, OthersWait
<1>12. TypeOK'
  BY <1>1, <1>3, <1>5 DEF IInv, TypeOK, TablesOK, LocalsTyped
<1> QED BY <1>1, <1>9, <1>11, <1>12 DEF IInv, TablesOK, OrdersOK

\* Entry and exit, up to the intent.
LEMMA EnterExitStep ==
    ASSUME IInv, NEW b \in Brokers, EnterStep(b) \/ ExitStep(b)
    PROVE  IInv'
<1>1. CASE StartEnter(b)
  <2>1. "enter" \in Points /\ "enter" \notin AtOrder
    BY DEF Points, EntryPoints, AtOrder
  <2>2. held' \in [Brokers -> TradeRow]
    BY <1>1 DEF StartEnter, IInv, TypeOK
  <2> QED BY <1>1, <2>1, <2>2, MoveOn DEF StartEnter
<1>2. CASE SubmitBuy(b)
  BY <1>2, IntentStep DEF SubmitBuy
<1>3. CASE AbandonEntry(b)
  BY <1>3, GiveUp DEF AbandonEntry, IInv, TypeOK
<1>4. CASE StartExit(b)
  <2>1. "inventory" \in Points /\ "inventory" \notin AtOrder
    BY DEF Points, ExitPoints, AtOrder
  <2>2. held' \in [Brokers -> TradeRow]
    BY <1>4 DEF StartExit, IInv, TypeOK
  <2> QED BY <1>4, <2>1, <2>2, MoveOn DEF StartExit
<1>5. CASE ReadPosition(b)
  <2>1. "exit" \in Points /\ "exit" \notin AtOrder
    BY DEF Points, ExitPoints, AtOrder
  <2>2. held' \in [Brokers -> TradeRow]
    BY <1>5 DEF ReadPosition, IInv, TypeOK
  <2> QED BY <1>5, <2>1, <2>2, MoveOn DEF ReadPosition
<1>6. CASE SubmitSell(b)
  <2> DEFINE n == Lesser(held[b].qty, base)
  <2>1. PICK o \in OrderIds : RecordIntent(b, o, "SELL", Normalize[n])
    BY <1>6 DEF SubmitSell
  <2>2. held[b].qty \in Qty /\ base \in Nat
    BY DEF IInv, TypeOK, TradeRow
  <2>3. n \in Qty
    BY <2>2, QtyAssumption DEF Lesser, Qty
  <2>4. Normalize[n] \in Qty
    BY <2>3, NormalizeAssumption
  <2> QED BY <2>1, <2>4, IntentStep
<1>7. CASE AbandonExit(b)
  BY <1>7, GiveUp DEF AbandonExit, IInv, TypeOK
<1> QED BY <1>1, <1>2, <1>3, <1>4, <1>5, <1>6, <1>7 DEF EnterStep, ExitStep

\* A broker that goes on with the order it is working on.
LEMMA KeepGoing ==
    ASSUME IInv, NEW b \in Brokers, TablesOK, exch' = exch,
           pc[b] \in AtOrder, NEW point \in Points, point # "submit",
           Goto(b, point), UNCHANGED <<validated, cur, held, todo>>,
           resp' \in [Brokers -> Response],
           \A c \in Brokers \ {b} : resp'[c] = resp[c],
           trade' \in TradeRow, base' \in Nat,
           point \in AtResponse =>
               /\ resp'[b].status \in Visible
               /\ resp'[b].status \in ClosedStatuses =>
                    /\ exch[cur[b]].status \in ClosedStatuses
                    /\ resp'[b].exec = exch[cur[b]].exec,
           point \in AtFinal =>
               resp'[b].status \in FillStatuses /\ resp'[b].exec > 0
    PROVE  IInv'
<1>1. /\ pc'[b] = point /\ cur'[b] = cur[b] /\ todo'[b] = todo[b]
      /\ OthersWait(b)
  BY DEF Goto, OthersWait, IInv, TypeOK
<1>2. cur[b] \in OrderIds /\ Recorded(orders[cur[b]])'
  BY DEF IInv, BrokerOK, TablesOK, Forward
<1>3. \A row \in todo[b] : row.id \in OrderIds /\ Recorded(orders[row.id])
  BY DEF IInv, TypeOK, TodoRow, BrokerOK
<1>4. BrokerOK(b)'
  BY <1>1, <1>2, <1>3 DEF BrokerOK, TablesOK, Forward
<1>5. LocalsTyped
  BY DEF Goto, LocalsTyped, IInv, TypeOK
<1> QED BY <1>1, <1>4, <1>5, BrokerMoves

\* A broker that changed the tables as it may and returns.
LEMMA Finish ==
    ASSUME IInv, NEW b \in Brokers, TablesOK, exch' = exch, Return(b),
           UNCHANGED validated, trade' \in TradeRow, base' \in Nat
    PROVE  IInv'
<1>1. validated' \in [Brokers -> BOOLEAN]
  BY DEF IInv, TypeOK
<1>2. pc'[b] # "submit"
  BY ReturnStep
<1> QED BY <1>1, <1>2, ReturnStep, BrokerMoves

\* A broker that changed the tables as it may and takes the next row.
LEMMA TakeNextRow ==
    ASSUME IInv, NEW b \in Brokers, TablesOK, exch' = exch, NEW id,
           NextRow(b, id), UNCHANGED validated, trade' \in TradeRow, base' \in Nat
    PROVE  IInv'
<1>1. pc'[b] # "submit"
  BY NextRowStep
<1> QED BY <1>1, NextRowStep, BrokerMoves

\* What a broker holds while it works on an order.
LEMMA AtWork ==
    ASSUME IInv, NEW b \in Brokers, pc[b] \in AtOrder
    PROVE  /\ cur[b] \in OrderIds
           /\ Recorded(orders[cur[b]])
           /\ orders[cur[b]] \in OrderRow
           /\ exch[cur[b]] \in ExchangeState
           /\ resp[b] \in Response
           /\ resp[b].exec \in Qty
           /\ base \in Nat
           /\ trade \in TradeRow
           /\ trade.qty \in Qty
<1>1. cur[b] \in OrderIds /\ Recorded(orders[cur[b]])
  BY DEF IInv, BrokerOK
<1>2. resp[b] \in Response /\ trade \in TradeRow
  BY DEF IInv, TypeOK
<1> QED BY <1>1, <1>2 DEF IInv, TypeOK, Response, TradeRow

\* A response recorded as it is satisfies what WriteOutcome asks.
LEMMA HeldOutcome ==
    ASSUME IInv, NEW b \in Brokers, pc[b] \in AtResponse,
           orders' = [orders EXCEPT ![cur[b]] =
                        WithOutcome(@, resp[b].exec, resp[b].status)],
           exch' = exch
    PROVE  TablesOK
<1>1. pc[b] \in AtOrder
  BY DEF AtResponse, AtOrder
<1>2. resp[b].status \in RowStatuses \ {"ABSENT"}
  BY StatusFacts DEF IInv, BrokerOK
<1>3. resp[b].status \in ClosedStatuses =>
        /\ exch[cur[b]].status \in ClosedStatuses
        /\ resp[b].exec = exch[cur[b]].exec
  BY DEF IInv, BrokerOK
<1> QED BY <1>1, <1>2, <1>3, AtWork, WriteOutcome

\* open_trade and close_trade leave a well-formed trade.
LEMMA TradeTypes ==
    ASSUME NEW o \in OrderIds, NEW q \in Qty, NEW t \in TradeRow
    PROVE  /\ OpenedTrade(o, q) \in TradeRow
           /\ AfterSale(t, q) \in TradeRow
           /\ Net[q] \in Qty
           /\ Normalize[q] \in Qty
<1>1. OpenedTrade(o, q) \in TradeRow
  BY DEF OpenedTrade, TradeRow
<1>2. AfterSale(t, q) \in TradeRow
  <2>1. t.qty \in Qty /\ (q < t.qty => t.qty - q \in Qty)
    BY QtyAssumption DEF TradeRow, Qty
  <2> QED BY <2>1, Constants DEF AfterSale, TradeRow
<1> QED BY <1>1, <1>2, NetAssumption, NormalizeAssumption

\* The points a broker visits with an order in hand.
LEMMA OrderPoints ==
    /\ AtOrder \subseteq Points /\ AtResponse \subseteq AtOrder
    /\ AtFinal \subseteq AtResponse
    /\ "submit" \notin AtResponse /\ "sent" \notin AtResponse
    /\ "query" \notin AtResponse /\ "record" \notin AtFinal
  BY DEF AtOrder, AtResponse, AtFinal, Points, EntryPoints, RecoveryPoints

\* The request leaves: only the broker that recorded the intent stood there.
LEMMA SendStep ==
    ASSUME IInv, NEW b \in Brokers, Send(b)
    PROVE  IInv'
<1> DEFINE x == [exch[cur[b]] EXCEPT !.status = "INFLIGHT"]
<1>1. pc[b] = "submit" /\ pc[b] \in AtOrder
  BY DEF Send, AtOrder
<1>2. exch[cur[b]].status = "NONE"
  BY <1>1 DEF IInv, BrokerOK
<1>3. exch[cur[b]].exec = 0 /\ exch[cur[b]].exec <= orders[cur[b]].req
  BY <1>1, <1>2, AtWork DEF IInv, OrderOK
<1>4. x \in ExchangeState /\ x.exec = 0
  BY <1>1, <1>3, AtWork DEF ExchangeState
<1>5. exch' = [exch EXCEPT ![cur[b]] = x] /\ orders' = orders
  BY <1>1, AtWork DEF Send, db, IInv, TypeOK
<1>6. TablesOK
  BY <1>1, <1>2, <1>3, <1>4, <1>5, AtWork, StatusFacts, WriteExchange
<1>7. /\ pc'[b] = "sent" /\ cur'[b] = cur[b] /\ todo'[b] = todo[b]
      /\ OthersWait(b)
  BY DEF Send, Goto, OthersWait, IInv, TypeOK
<1>8. ASSUME NEW c \in Brokers PROVE BrokerOK(c)'
  <2>1. CASE c = b
    <3>1. cur[b] \in OrderIds /\ Recorded(orders[cur[b]])'
      BY <1>1, <1>5, <1>7, AtWork DEF Recorded
    <3>2. \A row \in todo[b] : row.id \in OrderIds /\ Recorded(orders[row.id])
      BY DEF IInv, TypeOK, TodoRow, BrokerOK
    <3> QED BY <2>1, <3>1, <3>2, <1>6, <1>7
            DEF BrokerOK, AtResponse, AtFinal, TablesOK, Forward
  <2>2. CASE c # b
    <3>1. pc[c] = "submit" => exch'[cur[c]].status = "NONE"
      <4>1. SUFFICES ASSUME pc[c] = "submit" PROVE exch'[cur[c]] = exch[cur[c]]
        BY DEF IInv, BrokerOK
      <4>2. cur[c] # cur[b]
        BY <1>1, <2>2, <4>1 DEF IInv, SubmitAlone
      <4> QED BY <1>5, <4>2
    <3> QED BY <1>6, <1>7, <2>2, <3>1, WaitingBroker DEF OthersWait
  <2> QED BY <2>1, <2>2
<1>9. SubmitAlone'
  BY <1>7 DEF IInv, SubmitAlone, OthersWait
<1>10. TypeOK'
  <2>1. /\ validated' \in [Brokers -> BOOLEAN] /\ base' \in Nat
        /\ trade' \in TradeRow
        /\ cur' \in [Brokers -> OrderIds \cup {NoOrder}]
        /\ resp' \in [Brokers -> Response] /\ held' \in [Brokers -> TradeRow]
        /\ todo' \in [Brokers -> SUBSET TodoRow]
    BY DEF Send, db, IInv, TypeOK
  <2>2. pc' \in [Brokers -> Points]
    BY DEF Send, Goto, IInv, TypeOK, Points, EntryPoints
  <2> QED BY <1>6, <2>1, <2>2 DEF TypeOK, TablesOK
<1> QED BY <1>6, <1>8, <1>9, <1>10 DEF IInv, TablesOK, OrdersOK

\* _submit_market_order, after the intent.
LEMMA SubmitInv ==
    ASSUME IInv, NEW b \in Brokers, SubmitStep(b)
    PROVE  IInv'
<1>1. CASE Send(b)
  BY <1>1, SendStep
<1>2. CASE SubmitAnswered(b)
  <2>1. pc[b] \in AtOrder /\ "record" \in AtOrder
    BY <1>2 DEF SubmitAnswered, AtOrder
  <2>2. PICK fills \in BOOLEAN : resp' = [resp EXCEPT ![b] = Answer(cur[b], fills)]
    BY <1>2 DEF SubmitAnswered
  <2>3. /\ Answer(cur[b], fills) \in Response
        /\ Answer(cur[b], fills).status = exch[cur[b]].status
        /\ Answer(cur[b], fills).exec = exch[cur[b]].exec
    BY <1>2, <2>1, AtWork, AnswerType DEF SubmitAnswered, IInv
  <2>4. /\ resp' \in [Brokers -> Response] /\ resp'[b] = Answer(cur[b], fills)
        /\ \A c \in Brokers \ {b} : resp'[c] = resp[c]
    BY <2>2, <2>3 DEF IInv, TypeOK
  <2>5. TablesOK /\ exch' = exch /\ trade' \in TradeRow /\ base' \in Nat
    BY <1>2, <2>1, AtWork, KeepTables DEF SubmitAnswered, db, market
  <2>6. Goto(b, "record") /\ UNCHANGED <<validated, cur, held, todo>>
    BY <1>2 DEF SubmitAnswered
  <2>7. resp'[b].status \in Visible
    BY <1>2, <2>3, <2>4 DEF SubmitAnswered
  <2> QED BY <2>1, <2>3, <2>4, <2>5, <2>6, <2>7, OrderPoints, KeepGoing
<1>3. CASE SubmitFails(b)
  <2>1. pc[b] \in AtOrder /\ "query" \in AtOrder
    BY <1>3 DEF SubmitFails, AtOrder
  <2>2. TablesOK /\ exch' = exch /\ trade' \in TradeRow /\ base' \in Nat
    BY <1>3, <2>1, AtWork, KeepTables DEF SubmitFails, db, market
  <2>3. /\ Goto(b, "query") /\ UNCHANGED <<validated, cur, held, todo>>
        /\ resp' \in [Brokers -> Response]
        /\ \A c \in Brokers \ {b} : resp'[c] = resp[c]
    BY <1>3 DEF SubmitFails, IInv, TypeOK
  <2> QED BY <2>1, <2>2, <2>3, OrderPoints, KeepGoing
<1>4. CASE QueryAnswered(b)
  <2>1. pc[b] \in AtOrder /\ "record" \in AtOrder
    BY <1>4 DEF QueryAnswered, AtOrder
  <2>2. resp' = [resp EXCEPT ![b] = Answer(cur[b], FALSE)]
    BY <1>4 DEF QueryAnswered
  <2>3. /\ Answer(cur[b], FALSE) \in Response
        /\ Answer(cur[b], FALSE).status = exch[cur[b]].status
        /\ Answer(cur[b], FALSE).exec = exch[cur[b]].exec
    BY <1>4, <2>1, AtWork, AnswerType DEF QueryAnswered, IInv
  <2>4. /\ resp' \in [Brokers -> Response] /\ resp'[b] = Answer(cur[b], FALSE)
        /\ \A c \in Brokers \ {b} : resp'[c] = resp[c]
    BY <2>2, <2>3 DEF IInv, TypeOK
  <2>5. TablesOK /\ exch' = exch /\ trade' \in TradeRow /\ base' \in Nat
    BY <1>4, <2>1, AtWork, KeepTables DEF QueryAnswered, db, market
  <2>6. Goto(b, "record") /\ UNCHANGED <<validated, cur, held, todo>>
    BY <1>4 DEF QueryAnswered
  <2>7. resp'[b].status \in Visible
    BY <1>4, <2>3, <2>4 DEF QueryAnswered
  <2> QED BY <2>1, <2>3, <2>4, <2>5, <2>6, <2>7, OrderPoints, KeepGoing
<1>5. CASE QueryFails(b)
  <2>1. pc[b] \in AtOrder
    BY <1>5 DEF QueryFails, AtOrder
  <2>2. "UNKNOWN" \in RowStatuses \ {"ABSENT"} /\ "UNKNOWN" \notin ClosedStatuses
    BY StatusFacts
  <2>3. TablesOK /\ exch' = exch /\ trade' \in TradeRow /\ base' \in Nat
    BY <1>5, <2>1, <2>2, AtWork, Constants, WriteOutcome DEF QueryFails, market
  <2> QED BY <1>5, <2>3, Finish DEF QueryFails
<1>6. CASE RejectResponse(b)
  BY <1>6, GiveUp DEF RejectResponse, IInv, TypeOK
<1>7. CASE RecordOutcome(b)
  <2>1. pc[b] \in AtResponse /\ pc[b] \in AtOrder
    BY <1>7 DEF RecordOutcome, AtOrder, AtResponse
  <2>2. TablesOK /\ exch' = exch /\ trade' \in TradeRow /\ base' \in Nat
    BY <1>7, <2>1, AtWork, HeldOutcome DEF RecordOutcome, market
  <2>3. CASE resp[b].exec > 0 /\ resp[b].status \in FillStatuses /\ resp[b].fills
    <3>1. /\ Goto(b, "commit") /\ UNCHANGED <<validated, cur, resp, held, todo>>
      BY <1>7, <2>3 DEF RecordOutcome
    <3>2. /\ resp[b].status \in Visible
          /\ resp[b].status \in ClosedStatuses =>
               /\ exch[cur[b]].status \in ClosedStatuses
               /\ resp[b].exec = exch[cur[b]].exec
      BY <2>1 DEF IInv, BrokerOK
    <3>3. "commit" \in AtOrder
      BY DEF AtOrder
    <3>4. resp' \in [Brokers -> Response]
      BY <3>1 DEF IInv, TypeOK
    <3> QED BY <2>1, <2>2, <2>3, <3>1, <3>2, <3>3, <3>4, OrderPoints, KeepGoing
  <2>4. CASE ~(resp[b].exec > 0 /\ resp[b].status \in FillStatuses /\ resp[b].fills)
    BY <1>7, <2>2, <2>4, Finish DEF RecordOutcome
  <2> QED BY <2>3, <2>4
<1>8. CASE CommitBuy(b)
  <2>1. pc[b] \in AtOrder
    BY <1>8 DEF CommitBuy, AtOrder
  <2>2. TablesOK /\ exch' = exch /\ base' \in Nat
    BY <1>8, <2>1, AtWork, WriteApplied DEF CommitBuy, CanOpenTrade, market
  <2>3. trade' \in TradeRow
    BY <1>8, <2>1, AtWork, TradeTypes DEF CommitBuy
  <2> QED BY <1>8, <2>2, <2>3, Finish DEF CommitBuy
<1>9. CASE CommitSell(b)
  <2>1. pc[b] \in AtOrder
    BY <1>9 DEF CommitSell, AtOrder
  <2>2. TablesOK /\ exch' = exch /\ base' \in Nat
    BY <1>9, <2>1, AtWork, WriteApplied DEF CommitSell, CanCloseTrade, market
  <2>3. trade' \in TradeRow
    BY <1>9, <2>1, AtWork, TradeTypes DEF CommitSell
  <2> QED BY <1>9, <2>2, <2>3, Finish DEF CommitSell
<1>10. CASE CommitFails(b)
  BY <1>10, GiveUp DEF CommitFails, IInv, TypeOK
<1> QED BY <1>1, <1>2, <1>3, <1>4, <1>5, <1>6, <1>7, <1>8, <1>9, <1>10
        DEF SubmitStep

\* Reconciliation.
LEMMA RecoverInv ==
    ASSUME IInv, NEW b \in Brokers, RecoverStep(b)
    PROVE  IInv'
<1>1. CASE StartReconcile(b)
  <2>1. TablesOK /\ exch' = exch /\ trade' \in TradeRow /\ base' \in Nat
    BY <1>1, KeepTables DEF StartReconcile, db, market, IInv, TypeOK
  <2>2. todo'[b] = {[id |-> o, exec |-> orders[o].exec] :
                      o \in {p \in OrderIds : Unresolved(orders[p])}}
    BY <1>1 DEF StartReconcile, IInv, TypeOK
  <2>3. ASSUME NEW row \in todo'[b]
        PROVE  row \in TodoRow /\ Recorded(orders[row.id])
    <3>1. PICK o \in OrderIds : /\ Unresolved(orders[o])
                                /\ row = [id |-> o, exec |-> orders[o].exec]
      BY <2>2
    <3>2. orders[o].exec \in Qty
      BY DEF IInv, TypeOK, OrderRow
    <3> QED BY <3>1, <3>2 DEF TodoRow, Unresolved
  <2>4. pc'[b] = "recover" /\ OthersWait(b)
    BY <1>1 DEF StartReconcile, Goto, OthersWait, IInv, TypeOK
  <2>5. BrokerOK(b)'
    <3>1. orders' = orders
      BY <1>1 DEF StartReconcile, db
    <3> QED BY <2>3, <2>4, <3>1
            DEF BrokerOK, AtOrder, AtResponse, AtFinal, Recorded
  <2>6. LocalsTyped
    <3>1. todo'[b] \in SUBSET TodoRow
      BY <2>3
    <3>2. todo' \in [Brokers -> SUBSET TodoRow]
      BY <1>1, <2>2, <3>1 DEF StartReconcile, IInv, TypeOK
    <3>3. "recover" \in Points
      BY DEF Points, RecoveryPoints
    <3> QED BY <1>1, <3>2, <3>3 DEF StartReconcile, Goto, LocalsTyped, IInv, TypeOK
  <2> QED BY <2>1, <2>4, <2>5, <2>6, BrokerMoves
<1>2. CASE RecoverQuery(b)
  <2>1. PICK row \in todo[b] :
          /\ exch[row.id].status \in Visible
          /\ cur' = [cur EXCEPT ![b] = row.id]
          /\ resp' = [resp EXCEPT ![b] = Answer(row.id, FALSE)]
    BY <1>2 DEF RecoverQuery
  <2>2. row.id \in OrderIds /\ Recorded(orders[row.id])
    BY DEF IInv, TypeOK, TodoRow, BrokerOK
  <2>3. /\ Answer(row.id, FALSE) \in Response
        /\ Answer(row.id, FALSE).status = exch[row.id].status
        /\ Answer(row.id, FALSE).exec = exch[row.id].exec
    BY <2>1, <2>2, AnswerType DEF IInv
  <2>4. TablesOK /\ exch' = exch /\ orders' = orders /\ trade' \in TradeRow
        /\ base' \in Nat
    BY <1>2, KeepTables DEF RecoverQuery, db, market, IInv, TypeOK
  <2>5. /\ pc'[b] = "recover_reply" /\ cur'[b] = row.id /\ todo'[b] = todo[b]
        /\ resp'[b] = Answer(row.id, FALSE) /\ OthersWait(b)
    BY <1>2, <2>1 DEF RecoverQuery, Goto, OthersWait, IInv, TypeOK
  <2>6. \A r \in todo[b] : Recorded(orders[r.id])
    BY DEF IInv, BrokerOK
  <2>7. BrokerOK(b)'
    BY <2>1, <2>2, <2>3, <2>4, <2>5, <2>6 DEF BrokerOK, AtFinal, Recorded
  <2>8. LocalsTyped
    <3>1. "recover_reply" \in Points
      BY DEF Points, RecoveryPoints
    <3> QED BY <1>2, <2>1, <2>2, <2>3, <3>1
            DEF RecoverQuery, Goto, LocalsTyped, IInv, TypeOK
  <2> QED BY <2>4, <2>5, <2>7, <2>8, BrokerMoves
<1>3. CASE RecoverQueryFails(b)
  <2>1. TablesOK /\ exch' = exch /\ trade' \in TradeRow /\ base' \in Nat
    BY <1>3, KeepTables DEF RecoverQueryFails, db, market, IInv, TypeOK
  <2> QED BY <1>3, <2>1, TakeNextRow DEF RecoverQueryFails
<1>4. CASE RecoverRejects(b)
  <2>1. TablesOK /\ exch' = exch /\ trade' \in TradeRow /\ base' \in Nat
    BY <1>4, KeepTables DEF RecoverRejects, db, market, IInv, TypeOK
  <2> QED BY <1>4, <2>1, TakeNextRow DEF RecoverRejects
<1>5. CASE RecoverUnfilled(b)
  <2>1. pc[b] \in AtResponse /\ pc[b] \in AtOrder
    BY <1>5 DEF RecoverUnfilled, AtOrder, AtResponse
  <2>2. exch' = exch /\ trade' \in TradeRow /\ base' \in Nat
    BY <1>5, <2>1, AtWork DEF RecoverUnfilled, market
  <2>3. TablesOK
    BY <1>5, <2>1, <2>2, HeldOutcome DEF RecoverUnfilled, RecoverRecord
  <2> QED BY <1>5, <2>2, <2>3, TakeNextRow DEF RecoverUnfilled
<1>6. CASE RecoverActive(b)
  <2>1. pc[b] \in AtOrder
    BY <1>6 DEF RecoverActive, AtOrder
  <2>2. "RECOVERY_REQUIRED" \in RowStatuses \ {"ABSENT"}
        /\ "RECOVERY_REQUIRED" \notin ClosedStatuses
    BY StatusFacts
  <2>3. exch' = exch /\ trade' \in TradeRow /\ base' \in Nat
    BY <1>6, <2>1, AtWork DEF RecoverActive, market
  <2>4. TablesOK
    BY <1>6, <2>1, <2>2, <2>3, AtWork, WriteOutcome DEF RecoverActive, RecoverRecord
  <2> QED BY <1>6, <2>3, <2>4, TakeNextRow DEF RecoverActive
<1>7. CASE RecoverTerminal(b)
  <2>1. pc[b] \in AtOrder /\ pc[b] \in AtResponse /\ "recover_fills" \in AtOrder
    BY <1>7 DEF RecoverTerminal, AtOrder, AtResponse
  <2>2. TablesOK /\ exch' = exch /\ trade' \in TradeRow /\ base' \in Nat
    BY <1>7, <2>1, AtWork, KeepTables DEF RecoverTerminal, db, market
  <2>3. /\ resp[b].status \in Visible
        /\ resp[b].status \in ClosedStatuses =>
             /\ exch[cur[b]].status \in ClosedStatuses
             /\ resp[b].exec = exch[cur[b]].exec
    BY <2>1 DEF IInv, BrokerOK
  <2>4. resp[b].status \in FillStatuses /\ resp[b].exec > 0
    BY <1>7 DEF RecoverTerminal
  <2>5. /\ Goto(b, "recover_fills")
        /\ UNCHANGED <<validated, cur, resp, held, todo>>
    BY <1>7 DEF RecoverTerminal
  <2>6. resp' \in [Brokers -> Response]
    BY <2>5 DEF IInv, TypeOK
  <2> QED BY <2>1, <2>2, <2>3, <2>4, <2>5, <2>6, OrderPoints, KeepGoing
<1>8. CASE RecoverFillsMissing(b)
  <2>1. pc[b] \in AtOrder
    BY <1>8 DEF RecoverFillsMissing, AtOrder
  <2>2. "RECOVERY_REQUIRED" \in RowStatuses \ {"ABSENT"}
        /\ "RECOVERY_REQUIRED" \notin ClosedStatuses
    BY StatusFacts
  <2>3. exch' = exch /\ trade' \in TradeRow /\ base' \in Nat
    BY <1>8, <2>1, AtWork DEF RecoverFillsMissing, market
  <2>4. TablesOK
    BY <1>8, <2>1, <2>2, <2>3, AtWork, WriteOutcome
    DEF RecoverFillsMissing, RecoverRecord
  <2> QED BY <1>8, <2>3, <2>4, TakeNextRow DEF RecoverFillsMissing
<1>9. CASE RecoverFillsComplete(b)
  <2>1. pc[b] = "recover_fills" /\ pc[b] \in AtOrder /\ pc[b] \in AtResponse
        /\ pc[b] \in AtFinal /\ "recover_apply" \in AtOrder
    BY <1>9 DEF RecoverFillsComplete, AtOrder, AtResponse, AtFinal
  <2>2. exch' = exch /\ trade' \in TradeRow /\ base' \in Nat
    BY <1>9, <2>1, AtWork DEF RecoverFillsComplete, market
  <2>3. TablesOK
    BY <1>9, <2>1, <2>2, HeldOutcome DEF RecoverFillsComplete, RecoverRecord
  <2>4. /\ resp[b].status \in Visible
        /\ resp[b].status \in ClosedStatuses =>
             /\ exch[cur[b]].status \in ClosedStatuses
             /\ resp[b].exec = exch[cur[b]].exec
        /\ resp[b].status \in FillStatuses /\ resp[b].exec > 0
    BY <2>1 DEF IInv, BrokerOK
  <2>5. /\ Goto(b, "recover_apply")
        /\ UNCHANGED <<validated, cur, resp, held, todo>>
    BY <1>9 DEF RecoverFillsComplete
  <2>6. resp' \in [Brokers -> Response]
    BY <2>5 DEF IInv, TypeOK
  <2> QED BY <2>1, <2>2, <2>3, <2>4, <2>5, <2>6, OrderPoints, KeepGoing
<1>10. CASE RecoverBuy(b)
  <2>1. pc[b] \in AtOrder
    BY <1>10 DEF RecoverBuy, AtOrder
  <2>2. TablesOK /\ exch' = exch /\ base' \in Nat
    BY <1>10, <2>1, AtWork, WriteApplied DEF RecoverBuy, CanOpenTrade, market
  <2>3. trade' \in TradeRow
    BY <1>10, <2>1, AtWork, TradeTypes DEF RecoverBuy
  <2> QED BY <1>10, <2>2, <2>3, TakeNextRow DEF RecoverBuy
<1>11. CASE RecoverSell(b)
  <2>1. pc[b] \in AtOrder
    BY <1>11 DEF RecoverSell, AtOrder
  <2>2. TablesOK /\ exch' = exch /\ base' \in Nat
    BY <1>11, <2>1, AtWork, WriteApplied DEF RecoverSell, CanCloseTrade, market
  <2>3. trade' \in TradeRow
    BY <1>11, <2>1, AtWork, TradeTypes DEF RecoverSell
  <2> QED BY <1>11, <2>2, <2>3, TakeNextRow DEF RecoverSell
<1>12. CASE RecoverFails(b)
  <2>1. TablesOK /\ exch' = exch /\ trade' \in TradeRow /\ base' \in Nat
    BY <1>12, KeepTables DEF RecoverFails, db, market, IInv, TypeOK
  <2> QED BY <1>12, <2>1, TakeNextRow DEF RecoverFails
<1>13. CASE FinishReconcile(b)
  <2>1. validated' \in [Brokers -> BOOLEAN]
    BY <1>13 DEF FinishReconcile, IInv, TypeOK
  <2> QED BY <1>13, <2>1, GiveUp DEF FinishReconcile
<1> QED BY <1>1, <1>2, <1>3, <1>4, <1>5, <1>6, <1>7, <1>8, <1>9, <1>10, <1>11,
           <1>12, <1>13 DEF RecoverStep

\* What the exchange does on its own.
LEMMA ExchangeInv ==
    ASSUME IInv, NEW o \in OrderIds, ExchangeStep(o)
    PROVE  IInv'
<1>1. exch[o] \in ExchangeState /\ orders[o] \in OrderRow /\ base \in Nat
      /\ trade \in TradeRow /\ OrderOK(o)
  BY DEF IInv, TypeOK
<1>2. ASSUME NEW x \in ExchangeState, exch[o].status \notin ClosedStatuses,
             exch[o].status # "NONE",
             x.status \in {"NONE", "INFLIGHT", "LOST", "NEW", "REJECTED"}
               => x.exec = 0,
             x.exec <= orders[o].req, exch' = [exch EXCEPT ![o] = x],
             UNCHANGED <<db, local>>, base' \in Nat
      PROVE  IInv'
  <2>1. Recorded(orders[o])
    BY <1>1, <1>2 DEF OrderOK
  <2>2. TablesOK
    BY <1>2, <2>1, WriteExchange DEF db
  <2>3. \A p \in OrderIds \ {o} : exch'[p] = exch[p]
    BY <1>2 DEF IInv, TypeOK
  <2>4. trade' \in TradeRow
    BY <1>1, <1>2 DEF db
  <2> QED BY <1>2, <2>2, <2>3, <2>4, ExchangeMoves
<1>3. ASSUME NEW s \in {"NEW", "LOST", "EXPIRED", "REJECTED"},
             exch[o].status \in {"INFLIGHT", "NEW", "PARTIALLY_FILLED"},
             s # "EXPIRED" => exch[o].status \in {"INFLIGHT", "NEW"},
             exch' = [exch EXCEPT ![o].status = s], UNCHANGED <<db, base, local>>
      PROVE  IInv'
  <2> DEFINE x == [exch[o] EXCEPT !.status = s]
  <2>1. s \in {"NONE", "INFLIGHT", "LOST"} \cup Visible
    BY <1>3 DEF Visible, ClosedStatuses, FillStatuses
  <2>2. x \in ExchangeState /\ x.exec = exch[o].exec /\ x.status = s
    BY <1>1, <2>1 DEF ExchangeState
  <2>3. exch' = [exch EXCEPT ![o] = x]
    BY <1>3 DEF IInv, TypeOK
  <2>4. x.exec <= orders[o].req
    BY <1>1, <2>2 DEF OrderOK
  <2>5. x.status \in {"NONE", "INFLIGHT", "LOST", "NEW", "REJECTED"} => x.exec = 0
    BY <1>1, <1>3, <2>2 DEF OrderOK
  <2>6. exch[o].status \notin ClosedStatuses /\ exch[o].status # "NONE"
    BY <1>3, StatusFacts
  <2>7. UNCHANGED <<db, local>> /\ base' \in Nat
    BY <1>1, <1>3
  <2> QED BY <1>2, <2>2, <2>3, <2>4, <2>5, <2>6, <2>7
<1>4. CASE Accept(o)
  BY <1>3, <1>4 DEF Accept
<1>5. CASE Lose(o)
  BY <1>3, <1>5 DEF Lose
<1>6. CASE Expire(o)
  BY <1>3, <1>6 DEF Expire
<1>7. CASE RejectOrder(o)
  BY <1>3, <1>7 DEF RejectOrder
<1>8. CASE Fill(o)
  <2> DEFINE X(e) == [status |-> IF e = orders[o].req THEN "FILLED"
                                                      ELSE "PARTIALLY_FILLED",
                      exec |-> e]
  <2>1. PICK q \in FillSizes :
          LET e == exch[o].exec + q IN
          /\ e <= orders[o].req
          /\ orders[o].side = "SELL" => q <= base
          /\ base' = IF orders[o].side = "BUY"
                       THEN base + (Net[e] - Net[exch[o].exec])
                       ELSE base - q
          /\ exch' = [exch EXCEPT ![o] = X(e)]
    BY <1>8 DEF Fill
  <2> DEFINE e == exch[o].exec + q
  <2>2. /\ exch[o].exec \in Qty /\ orders[o].req \in Qty /\ q \in Qty /\ q > 0
        /\ orders[o].side \in {"NONE", "BUY", "SELL"}
    BY <1>1, QtyAssumption DEF ExchangeState, OrderRow, Qty
  <2>3. e \in Qty /\ exch[o].exec <= e
    BY <2>1, <2>2, QtyAssumption DEF Qty
  <2>4. X(e) \in ExchangeState /\ X(e).exec = e
    BY <2>3 DEF ExchangeState, Visible, ClosedStatuses, FillStatuses
  <2>5. X(e).status \in {"FILLED", "PARTIALLY_FILLED"}
    OBVIOUS
  <2>6. Recorded(orders[o])
    BY <1>1, <1>8 DEF OrderOK, Fill
  <2>7. base' \in Nat
    <3>1. Net[e] \in Qty /\ Net[exch[o].exec] \in Qty
          /\ Net[exch[o].exec] <= Net[e]
      BY <2>2, <2>3, NetAssumption
    <3>2. CASE orders[o].side = "BUY"
      BY <1>1, <2>1, <3>1, <3>2, QtyAssumption DEF Qty
    <3>3. CASE orders[o].side # "BUY"
      <4>1. orders[o].side = "SELL"
        BY <1>1, <2>6, <3>3 DEF OrderOK
      <4> QED BY <1>1, <2>1, <2>2, <4>1, QtyAssumption DEF Qty
    <3> QED BY <3>2, <3>3
  <2>8. exch[o].status \notin ClosedStatuses /\ exch[o].status # "NONE"
    BY <1>8, StatusFacts DEF Fill
  <2>9. UNCHANGED <<db, local>>
    BY <1>8 DEF Fill
  <2>10. exch' = [exch EXCEPT ![o] = X(e)] /\ X(e).exec <= orders[o].req
    BY <2>1, <2>4
  <2> HIDE DEF X, e
  <2> QED BY <1>2, <2>4, <2>5, <2>7, <2>8, <2>9, <2>10
<1> QED BY <1>4, <1>5, <1>6, <1>7, <1>8 DEF ExchangeStep

-----------------------------------------------------------------------------
(* The theorems. *)

\* Nothing is recorded, nothing was sent.
LEMMA InitInv == Init => IInv
<1> SUFFICES ASSUME Init PROVE IInv
  OBVIOUS
<1>1. \A o \in OrderIds : orders[o] = AbsentRow
                          /\ exch[o] = [status |-> "NONE", exec |-> 0]
  BY DEF Init
<1>2. TypeOK
  <2>1. "idle" \in Points
    BY DEF Points
  <2>2. [status |-> "NONE", exec |-> 0] \in ExchangeState
    BY Constants DEF ExchangeState
  <2> QED BY <2>1, <2>2, Constants, QtyAssumption DEF Init, TypeOK
<1>3. ASSUME NEW o \in OrderIds PROVE OrderOK(o) /\ ~Outstanding(o)
  <2>1. /\ orders[o].status = "ABSENT" /\ orders[o].applied = FALSE
        /\ orders[o].req = 0 /\ exch[o].status = "NONE" /\ exch[o].exec = 0
    BY <1>1 DEF AbsentRow
  <2> QED BY <2>1, StatusFacts DEF OrderOK, Outstanding, Recorded
<1>4. \A b \in Brokers : BrokerOK(b) /\ pc[b] = "idle"
  BY DEF Init, BrokerOK, AtOrder, AtResponse, AtFinal
<1> QED BY <1>2, <1>3, <1>4 DEF IInv, SubmitAlone, OneOutstandingOrder

\* Every step keeps the invariant.
LEMMA NextInv == IInv /\ [Next]_vars => IInv'
<1> SUFFICES ASSUME IInv, [Next]_vars PROVE IInv'
  OBVIOUS
<1>1. ASSUME NEW b \in Brokers, EnterStep(b) \/ ExitStep(b) PROVE IInv'
  BY <1>1, EnterExitStep
<1>2. ASSUME NEW b \in Brokers, SubmitStep(b) PROVE IInv'
  BY <1>2, SubmitInv
<1>3. ASSUME NEW b \in Brokers, RecoverStep(b) PROVE IInv'
  BY <1>3, RecoverInv
<1>4. ASSUME NEW b \in Brokers, Cancel(b) PROVE IInv'
  BY <1>4, GiveUp DEF Cancel, IInv, TypeOK
<1>5. ASSUME NEW b \in Brokers, Crash(b) PROVE IInv'
  <2>1. validated' \in [Brokers -> BOOLEAN]
    BY <1>5 DEF Crash, IInv, TypeOK
  <2> QED BY <1>5, <2>1, GiveUp DEF Crash
<1>6. ASSUME NEW o \in OrderIds, ExchangeStep(o) PROVE IInv'
  BY <1>6, ExchangeInv
<1>7. CASE UNCHANGED vars
  BY <1>7 DEF vars, IInv, TypeOK, OrderOK, BrokerOK, SubmitAlone,
     OneOutstandingOrder, Outstanding, Settled, Recorded
<1> QED BY <1>1, <1>2, <1>3, <1>4, <1>5, <1>6, <1>7 DEF Next

\* The inductive invariant holds of every behaviour of the order lifecycle.
THEOREM Invariance == Spec => []IInv
  BY InitInv, NextInv, PTL DEF Spec

\* Every variable keeps its type.
THEOREM TypeCorrect == Spec => []TypeOK
<1>1. IInv => TypeOK
  BY DEF IInv
<1> QED BY <1>1, Invariance, PTL

\* However many brokers share the tables and however their steps, crashes and
\* late answers interleave, one order of the symbol is unsettled at most.
THEOREM OneOrderAtATime == Spec => []OneOutstandingOrder
<1>1. IInv => OneOutstandingOrder
  BY DEF IInv
<1> QED BY <1>1, Invariance, PTL

\* An execution that the ledger does not hold keeps its order unresolved, so
\* the symbol stays blocked until it is applied.
THEOREM UnappliedBlocks == Spec => []ExecutionStaysBlocked
<1>1. IInv => ExecutionStaysBlocked
  <2> SUFFICES ASSUME IInv, NEW o \in OrderIds,
                      exch[o].exec > 0, ~orders[o].applied
               PROVE  Unresolved(orders[o])
    BY DEF ExecutionStaysBlocked
  <2>1. exch[o] \in ExchangeState /\ OrderOK(o)
    BY DEF IInv, TypeOK
  <2>2. Recorded(orders[o])
    BY <2>1, QtyAssumption DEF OrderOK, ExchangeState, Qty
  <2>3. orders[o].status \in ClosedStatuses => orders[o].exec = exch[o].exec
    BY <2>1 DEF OrderOK
  <2> QED BY <2>2, <2>3 DEF Unresolved
<1> QED BY <1>1, Invariance, PTL

=============================================================================
