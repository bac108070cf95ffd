----------------------- MODULE OrderDisciplineProofs -----------------------
(***************************************************************************)
(* OrderLifecycle implements TradeDiscipline, for any set of brokers, any  *)
(* set of order ids and any quantities.                                    *)
(*                                                                         *)
(* An intent begins an order, a ledger transaction settles it, the         *)
(* exchange voids it when it ends unexecuted; every other step stutters.   *)
(* With one broker, the account backs what the discipline counts as held.  *)
(***************************************************************************)
EXTENDS OrderLifecycleProofs

\* The two arguments of the refinement mapping.
Outcomes == [o \in OrderIds |-> OutcomeOf(o)]
Book     == IF IsOpen(trade) THEN "open" ELSE "flat"

\* What each case of OutcomeOf comes down to.
OutcomeFact(o) ==
    /\ ~Recorded(orders[o]) => OutcomeOf(o) = "unused"
    /\ orders[o].applied /\ orders[o].side = "BUY" => OutcomeOf(o) = "bought"
    /\ orders[o].applied /\ orders[o].side = "SELL" => OutcomeOf(o) = "sold"
    /\ Recorded(orders[o]) /\ ~orders[o].applied /\ Settled(o)
         => OutcomeOf(o) = "void"
    /\ Outstanding(o) /\ orders[o].side = "BUY" => OutcomeOf(o) = "buying"
    /\ Outstanding(o) /\ orders[o].side = "SELL" => OutcomeOf(o) = "selling"
    /\ Recorded(orders[o]) => orders[o].side \in {"BUY", "SELL"}
    /\ orders[o].applied => Recorded(orders[o]) /\ ~Outstanding(o)

\* Under the invariant the cases of OutcomeOf are disjoint and cover a row.
LEMMA OutcomeFacts == IInv => \A o \in OrderIds : OutcomeFact(o)
<1> SUFFICES ASSUME IInv, NEW o \in OrderIds PROVE OutcomeFact(o)
  OBVIOUS
<1>1. Recorded(orders[o]) => orders[o].side \in {"BUY", "SELL"}
  BY DEF IInv, OrderOK
<1>2. orders[o].applied => Recorded(orders[o]) /\ Settled(o)
  BY DEF IInv, OrderOK, Settled
<1>3. Outstanding(o) <=> Recorded(orders[o]) /\ ~Settled(o)
  BY DEF Outstanding
<1>4. CASE ~Recorded(orders[o])
  BY <1>2, <1>3, <1>4 DEF OutcomeOf, OutcomeFact
<1>5. CASE orders[o].applied
  BY <1>1, <1>2, <1>3, <1>5 DEF OutcomeOf, OutcomeFact
<1>6. CASE Recorded(orders[o]) /\ ~orders[o].applied /\ Settled(o)
  BY <1>1, <1>3, <1>6 DEF OutcomeOf, OutcomeFact
<1>7. CASE Recorded(orders[o]) /\ ~orders[o].applied /\ ~Settled(o)
  BY <1>1, <1>3, <1>7 DEF OutcomeOf, OutcomeFact
<1> QED BY <1>4, <1>5, <1>6, <1>7, Zenon

\* The same of the next state.
LEMMA NextOutcomeFacts == (IInv => \A o \in OrderIds : OutcomeFact(o))'
  BY OutcomeFacts, PTL

\* An order that keeps its side, its place in the ledger and its standing with
\* the exchange keeps its outcome.
LEMMA SameOutcome ==
    ASSUME IInv, IInv', NEW o \in OrderIds,
           Recorded(orders[o])' <=> Recorded(orders[o]),
           orders'[o].applied <=> orders[o].applied,
           orders'[o].side = orders[o].side,
           Settled(o)' <=> Settled(o)
    PROVE  OutcomeOf(o)' = OutcomeOf(o)
<1>1. Outstanding(o)' <=> Outstanding(o)
  BY DEF Outstanding
<1>2. CASE ~Recorded(orders[o])
  BY <1>2, OutcomeFacts, NextOutcomeFacts DEF OutcomeFact
<1>3. CASE orders[o].applied
  <2>1. Recorded(orders[o]) /\ orders[o].side \in {"BUY", "SELL"}
    BY <1>3, OutcomeFacts DEF OutcomeFact
  <2> QED BY <1>3, <2>1, OutcomeFacts, NextOutcomeFacts DEF OutcomeFact
<1>4. CASE Recorded(orders[o]) /\ ~orders[o].applied /\ Settled(o)
  BY <1>4, OutcomeFacts, NextOutcomeFacts DEF OutcomeFact
<1>5. CASE Recorded(orders[o]) /\ ~orders[o].applied /\ ~Settled(o)
  <2>1. Outstanding(o) /\ orders[o].side \in {"BUY", "SELL"}
    BY <1>5, OutcomeFacts DEF Outstanding, OutcomeFact
  <2> QED BY <1>1, <2>1, OutcomeFacts, NextOutcomeFacts DEF OutcomeFact
<1> QED BY <1>2, <1>3, <1>4, <1>5, Zenon

\* A step of the abstract specification, or none.
Mapped ==
    \/ Outcomes' = Outcomes /\ Book' = Book
    \/ \E o \in OrderIds :
         \/ Discipline!BeginBuy(o) \/ Discipline!BeginSell(o)
         \/ Discipline!Void(o)
         \/ Discipline!SettleBuy(o) \/ Discipline!SettleSell(o)

\* A step that changes neither table nor the exchange's view stutters.
LEMMA MapKeep ==
    ASSUME IInv, IInv', UNCHANGED <<orders, trade, exch>>
    PROVE  Mapped
<1>1. \A o \in OrderIds : OutcomeOf(o)' = OutcomeOf(o)
  BY DEF OutcomeOf, Recorded, Settled, Outstanding
<1>2. Book' = Book
  BY DEF Book, IsOpen
<1> QED BY <1>1, <1>2 DEF Mapped, Outcomes

\* Recording an outcome stutters: the exchange settles orders, not the row.
LEMMA MapOutcome ==
    ASSUME IInv, IInv', NEW c \in OrderIds, NEW e \in Qty,
           NEW s \in RowStatuses \ {"ABSENT"}, Recorded(orders[c]),
           orders' = [orders EXCEPT ![c] = WithOutcome(@, e, s)],
           UNCHANGED <<trade, exch>>
    PROVE  Mapped
<1>1. ASSUME NEW o \in OrderIds PROVE OutcomeOf(o)' = OutcomeOf(o)
  <2>1. /\ Recorded(orders[o])' <=> Recorded(orders[o])
        /\ orders'[o].applied = orders[o].applied
        /\ orders'[o].side = orders[o].side
    <3>1. CASE o = c
      BY <3>1, OutcomeRow DEF IInv, TypeOK, Recorded
    <3>2. CASE o # c
      BY <3>2 DEF IInv, TypeOK, Recorded
    <3> QED BY <3>1, <3>2
  <2>2. Settled(o)' <=> Settled(o)
    BY <2>1 DEF Settled
  <2> QED BY <2>1, <2>2, SameOutcome
<1>2. Book' = Book
  BY DEF Book, IsOpen
<1> QED BY <1>1, <1>2 DEF Mapped, Outcomes

\* What the exchange does to one order it has not finished.
LEMMA MapExchange ==
    ASSUME IInv, IInv', NEW c \in OrderIds, Recorded(orders[c]),
           exch[c].status \notin ClosedStatuses,
           \A o \in OrderIds \ {c} : exch'[o] = exch[o],
           UNCHANGED <<orders, trade>>
    PROVE  Mapped
<1>1. \A o \in OrderIds \ {c} : OutcomeOf(o)' = OutcomeOf(o)
  BY DEF OutcomeOf, Recorded, Settled, Outstanding
<1>2. Book' = Book
  BY DEF Book, IsOpen
<1>3. ~Settled(c) /\ ~orders[c].applied
  BY DEF Settled, IInv, OrderOK
<1>4. CASE ~Settled(c)'
  <2>1. OutcomeOf(c)' = OutcomeOf(c)
    BY <1>3, <1>4 DEF OutcomeOf, Recorded, Outstanding
  <2> QED BY <1>1, <1>2, <2>1 DEF Mapped, Outcomes
<1>5. CASE Settled(c)'
  <2>1. OutcomeOf(c) \in {"buying", "selling"}
    BY <1>3, OutcomeFacts DEF Outstanding, OutcomeFact
  <2>2. OutcomeOf(c)' = "void"
    BY <1>3, <1>5, NextOutcomeFacts DEF Recorded, OutcomeFact
  <2>3. Discipline!Void(c)
    BY <1>1, <1>2, <2>1, <2>2
    DEF Discipline!Void, Discipline!Working, Book
  <2> QED BY <2>3 DEF Mapped
<1> QED BY <1>4, <1>5

\* An intent row begins an order from an idle book on the right side.
LEMMA MapIntent ==
    ASSUME IInv, IInv', NEW b \in Brokers, NEW c \in OrderIds,
           NEW side \in {"BUY", "SELL"}, NEW q \in Qty,
           RecordIntent(b, c, side, q)
    PROVE  Mapped
<1>1. /\ exch' = exch /\ trade' = trade
      /\ orders' = [orders EXCEPT ![c] = NewIntent(side, q)]
      /\ ~Recorded(orders[c])
  BY DEF RecordIntent, market
<1>2. \A o \in OrderIds \ {c} : orders'[o] = orders[o]
  BY <1>1 DEF IInv, TypeOK
<1>3. \A o \in OrderIds \ {c} : OutcomeOf(o)' = OutcomeOf(o)
  BY <1>1, <1>2 DEF OutcomeOf, Recorded, Settled, Outstanding
<1>4. OutcomeOf(c) = "unused"
  BY <1>1, OutcomeFacts DEF OutcomeFact
<1>5. /\ orders'[c].side = side /\ ~orders'[c].applied
      /\ orders'[c].status = "PENDING_SUBMIT"
  BY <1>1, IntentRow DEF IInv, TypeOK
<1>6. Outstanding(c)'
  <2>1. exch[c].status \notin ClosedStatuses
    BY <1>1, StatusFacts DEF IInv, OrderOK
  <2> QED BY <1>1, <1>5, <2>1 DEF Outstanding, Settled, Recorded
<1>7. OutcomeOf(c)' = IF side = "BUY" THEN "buying" ELSE "selling"
  BY <1>5, <1>6, NextOutcomeFacts DEF OutcomeFact
<1>8. Discipline!Idle
  <2> SUFFICES ASSUME NEW o \in OrderIds
               PROVE  OutcomeOf(o) \notin {"buying", "selling"}
    BY DEF Discipline!Idle, Discipline!Working
  <2>1. ~Outstanding(o)
    BY ResolvedIsSettled DEF RecordIntent, IntentAllowed
  <2>2. CASE ~Recorded(orders[o])
    BY <2>2, OutcomeFacts DEF OutcomeFact
  <2>3. CASE Recorded(orders[o]) /\ ~orders[o].applied
    BY <2>1, <2>3, OutcomeFacts DEF Outstanding, OutcomeFact
  <2>4. CASE Recorded(orders[o]) /\ orders[o].applied
    BY <2>4, OutcomeFacts DEF OutcomeFact
  <2> QED BY <2>2, <2>3, <2>4, Zenon
<1>9. (side = "BUY") = ~IsOpen(trade)
  BY DEF RecordIntent, IntentAllowed
<1>10. Book' = Book
  BY <1>1 DEF Book, IsOpen
<1>11. CASE side = "BUY"
  <2>1. Discipline!BeginBuy(c)
    BY <1>3, <1>4, <1>7, <1>8, <1>9, <1>10, <1>11 DEF Discipline!BeginBuy, Book
  <2> QED BY <2>1 DEF Mapped
<1>12. CASE side = "SELL"
  <2>1. Discipline!BeginSell(c)
    BY <1>3, <1>4, <1>7, <1>8, <1>9, <1>10, <1>12 DEF Discipline!BeginSell, Book
  <2> QED BY <2>1 DEF Mapped
<1> QED BY <1>11, <1>12

\* Applying an order settles it.
LEMMA AppliedOutcome ==
    ASSUME IInv, IInv', NEW c \in OrderIds, NEW side \in {"BUY", "SELL"},
           Applicable(orders[c], side),
           orders' = [orders EXCEPT ![c] = WithApplied(@)], exch' = exch
    PROVE  /\ OutcomeOf(c) = IF side = "BUY" THEN "buying" ELSE "selling"
           /\ OutcomeOf(c)' = IF side = "BUY" THEN "bought" ELSE "sold"
           /\ \A o \in OrderIds \ {c} : OutcomeOf(o)' = OutcomeOf(o)
<1>1. \A o \in OrderIds \ {c} : orders'[o] = orders[o]
  BY DEF IInv, TypeOK
<1>2. \A o \in OrderIds \ {c} : OutcomeOf(o)' = OutcomeOf(o)
  BY <1>1 DEF OutcomeOf, Recorded, Settled, Outstanding
<1>3. orders'[c].applied /\ orders'[c].side = side
  BY AppliedRow DEF IInv, TypeOK, Applicable
<1>4. Outstanding(c) /\ orders[c].side = side
  <2>1. /\ orders[c].status \in FillStatuses /\ orders[c].exec > 0
        /\ ~orders[c].applied /\ orders[c].side = side
    BY DEF Applicable
  <2>2. exch[c].exec = orders[c].exec /\ Recorded(orders[c])
    BY <2>1, StatusFacts DEF IInv, OrderOK, Recorded
  <2> QED BY <2>1, <2>2 DEF Outstanding, Settled
<1>5. OutcomeOf(c) = IF side = "BUY" THEN "buying" ELSE "selling"
  BY <1>4, OutcomeFacts DEF OutcomeFact
<1>6. OutcomeOf(c)' = IF side = "BUY" THEN "bought" ELSE "sold"
  BY <1>3, NextOutcomeFacts DEF OutcomeFact
<1> QED BY <1>2, <1>5, <1>6

\* open_trade settles a BUY on a flat book.
LEMMA MapBought ==
    ASSUME IInv, IInv', NEW c \in OrderIds, NEW q,
           CanOpenTrade(orders, trade, c), trade' = OpenedTrade(c, q),
           orders' = [orders EXCEPT ![c] = WithApplied(@)], exch' = exch
    PROVE  Mapped
<1>1. Applicable(orders[c], "BUY") /\ Book = "flat"
  BY DEF CanOpenTrade, Book
<1>2. Book' = "open"
  BY NoOrderAssumption DEF Book, IsOpen, OpenedTrade
<1>3. /\ OutcomeOf(c) = "buying" /\ OutcomeOf(c)' = "bought"
      /\ \A o \in OrderIds \ {c} : OutcomeOf(o)' = OutcomeOf(o)
  BY <1>1, AppliedOutcome
<1>4. Discipline!SettleBuy(c)
  BY <1>1, <1>2, <1>3 DEF Discipline!SettleBuy, Book
<1> QED BY <1>4 DEF Mapped

\* close_trade settles a SELL against the open book.
LEMMA MapSold ==
    ASSUME IInv, IInv', NEW c \in OrderIds, NEW id,
           CanCloseTrade(orders, trade, c, id),
           orders' = [orders EXCEPT ![c] = WithApplied(@)], exch' = exch
    PROVE  Mapped
<1>1. Applicable(orders[c], "SELL") /\ Book = "open"
  BY DEF CanCloseTrade, Book
<1>2. Book' \in {"open", "flat"}
  BY DEF Book
<1>3. /\ OutcomeOf(c) = "selling" /\ OutcomeOf(c)' = "sold"
      /\ \A o \in OrderIds \ {c} : OutcomeOf(o)' = OutcomeOf(o)
  BY <1>1, AppliedOutcome
<1>4. Discipline!SettleSell(c)
  BY <1>1, <1>2, <1>3 DEF Discipline!SettleSell, Book
<1> QED BY <1>4 DEF Mapped

-----------------------------------------------------------------------------
(* The actions, one by one. *)

\* Every step of the order lifecycle is a step of the discipline or stutters.
LEMMA MapNext ==
    ASSUME IInv, IInv', [Next]_vars
    PROVE  Mapped
<1>1. CASE UNCHANGED <<orders, trade, exch>>
  BY <1>1, MapKeep
<1>2. ASSUME NEW b \in Brokers, NEW e \in Qty, NEW s \in RowStatuses \ {"ABSENT"},
             pc[b] \in AtOrder, UNCHANGED <<trade, exch>>,
             orders' = [orders EXCEPT ![cur[b]] = WithOutcome(@, e, s)]
      PROVE  Mapped
  BY <1>2, AtWork, MapOutcome
<1>3. ASSUME NEW b \in Brokers, pc[b] \in AtResponse, UNCHANGED <<trade, exch>>,
             orders' = [orders EXCEPT ![cur[b]] =
                          WithOutcome(@, resp[b].exec, resp[b].status)]
      PROVE  Mapped
  <2>1. pc[b] \in AtOrder /\ resp[b].exec \in Qty
    BY <1>3, OrderPoints, AtWork
  <2>2. resp[b].status \in RowStatuses \ {"ABSENT"}
    BY <1>3, StatusFacts DEF IInv, BrokerOK
  <2> QED BY <1>2, <1>3, <2>1, <2>2
<1>4. ASSUME NEW b \in Brokers, EnterStep(b) \/ ExitStep(b) PROVE Mapped
  <2>1. CASE SubmitBuy(b)
    BY <2>1, MapIntent DEF SubmitBuy
  <2>2. CASE SubmitSell(b)
    <3> DEFINE n == Lesser(held[b].qty, base)
    <3>1. PICK o \in OrderIds : RecordIntent(b, o, "SELL", Normalize[n])
      BY <2>2 DEF SubmitSell
    <3>2. held[b].qty \in Qty /\ base \in Nat
      BY DEF IInv, TypeOK, TradeRow
    <3>3. n \in Qty
      BY <3>2, QtyAssumption DEF Lesser, Qty
    <3>4. Normalize[n] \in Qty
      BY <3>3, NormalizeAssumption
    <3> QED BY <3>1, <3>4, MapIntent
  <2>3. CASE StartEnter(b) \/ AbandonEntry(b) \/ StartExit(b)
             \/ ReadPosition(b) \/ AbandonExit(b)
    BY <1>1, <2>3 DEF StartEnter, AbandonEntry, StartExit, ReadPosition,
       AbandonExit, db, market
  <2> QED BY <1>4, <2>1, <2>2, <2>3 DEF EnterStep, ExitStep
<1>5. ASSUME NEW b \in Brokers, SubmitStep(b) PROVE Mapped
  <2>1. CASE Send(b)
    <3>1. pc[b] \in AtOrder /\ exch[cur[b]].status = "NONE"
      BY <2>1 DEF Send, AtOrder, IInv, BrokerOK
    <3>2. \A o \in OrderIds \ {cur[b]} : exch'[o] = exch[o]
      BY <2>1 DEF Send, IInv, TypeOK
    <3> QED BY <2>1, <3>1, <3>2, AtWork, StatusFacts, MapExchange DEF Send, db
  <2>2. CASE QueryFails(b)
    <3>1. pc[b] \in AtOrder /\ "UNKNOWN" \in RowStatuses \ {"ABSENT"}
      BY <2>2, StatusFacts DEF QueryFails, AtOrder
    <3> QED BY <1>2, <2>2, <3>1, Constants DEF QueryFails, market
  <2>3. CASE RecordOutcome(b)
    <3>1. pc[b] \in AtResponse
      BY <2>3 DEF RecordOutcome, AtResponse
    <3> QED BY <1>3, <2>3, <3>1 DEF RecordOutcome, market
  <2>4. CASE CommitBuy(b)
    <3>1. cur[b] \in OrderIds
      BY <2>4, AtWork DEF CommitBuy, AtOrder
    <3> QED BY <2>4, <3>1, MapBought DEF CommitBuy, market
  <2>5. CASE CommitSell(b)
    <3>1. cur[b] \in OrderIds
      BY <2>5, AtWork DEF CommitSell, AtOrder
    <3> QED BY <2>5, <3>1, MapSold DEF CommitSell, market
  <2>6. CASE SubmitAnswered(b) \/ SubmitFails(b) \/ QueryAnswered(b)
             \/ RejectResponse(b) \/ CommitFails(b)
    BY <1>1, <2>6 DEF SubmitAnswered, SubmitFails, QueryAnswered,
       RejectResponse, CommitFails, db, market
  <2> QED BY <1>5, <2>1, <2>2, <2>3, <2>4, <2>5, <2>6 DEF SubmitStep
<1>6. ASSUME NEW b \in Brokers, RecoverStep(b) PROVE Mapped
  <2>1. CASE RecoverUnfilled(b)
    <3>1. pc[b] \in AtResponse
      BY <2>1 DEF RecoverUnfilled, AtResponse
    <3> QED BY <1>3, <2>1, <3>1 DEF RecoverUnfilled, RecoverRecord, market
  <2>2. CASE RecoverActive(b) \/ RecoverFillsMissing(b)
    <3>1. pc[b] \in AtOrder /\ "RECOVERY_REQUIRED" \in RowStatuses \ {"ABSENT"}
      BY <2>2, StatusFacts DEF RecoverActive, RecoverFillsMissing, AtOrder
    <3> QED BY <1>2, <2>2, <3>1, AtWork
            DEF RecoverActive, RecoverFillsMissing, RecoverRecord, market
  <2>3. CASE RecoverFillsComplete(b)
    <3>1. pc[b] \in AtResponse
      BY <2>3 DEF RecoverFillsComplete, AtResponse
    <3> QED BY <1>3, <2>3, <3>1 DEF RecoverFillsComplete, RecoverRecord, market
  <2>4. CASE RecoverBuy(b)
    <3>1. cur[b] \in OrderIds
      BY <2>4, AtWork DEF RecoverBuy, AtOrder
    <3> QED BY <2>4, <3>1, MapBought DEF RecoverBuy, market
  <2>5. CASE RecoverSell(b)
    <3>1. cur[b] \in OrderIds
      BY <2>5, AtWork DEF RecoverSell, AtOrder
    <3> QED BY <2>5, <3>1, MapSold DEF RecoverSell, market
  <2>6. CASE \/ StartReconcile(b) \/ RecoverQuery(b) \/ RecoverQueryFails(b)
             \/ RecoverRejects(b) \/ RecoverTerminal(b) \/ RecoverFails(b)
             \/ FinishReconcile(b)
    BY <1>1, <2>6 DEF StartReconcile, RecoverQuery, RecoverQueryFails,
       RecoverRejects, RecoverTerminal, RecoverFails, FinishReconcile, db, market
  <2> QED BY <1>6, <2>1, <2>2, <2>3, <2>4, <2>5, <2>6 DEF RecoverStep
<1>7. ASSUME NEW b \in Brokers, Cancel(b) \/ Crash(b) PROVE Mapped
  BY <1>1, <1>7 DEF Cancel, Crash, db, market
<1>8. ASSUME NEW o \in OrderIds, ExchangeStep(o) PROVE Mapped
  <2>1. exch[o].status \in {"INFLIGHT", "NEW", "PARTIALLY_FILLED"}
    BY <1>8 DEF ExchangeStep, Accept, Lose, Fill, Expire, RejectOrder
  <2>2. Recorded(orders[o])
    BY <2>1 DEF IInv, OrderOK
  <2>3. \A p \in OrderIds \ {o} : exch'[p] = exch[p]
    BY <1>8 DEF ExchangeStep, Accept, Lose, Fill, Expire, RejectOrder, IInv, TypeOK
  <2>4. UNCHANGED <<orders, trade>>
    BY <1>8 DEF ExchangeStep, Accept, Lose, Fill, Expire, RejectOrder, db
  <2> QED BY <2>1, <2>2, <2>3, <2>4, StatusFacts, MapExchange
<1>9. CASE UNCHANGED vars
  BY <1>1, <1>9 DEF vars
<1> QED BY <1>4, <1>5, <1>6, <1>7, <1>8, <1>9 DEF Next

\* The brokers, with all their crashes, retries and recoveries, implement the
\* trade discipline: orders one at a time, and one change of the book for each
\* order that executed.
THEOREM Refinement == Spec => ImplementsDiscipline
<1>1. Init => Discipline!Init
  <2> SUFFICES ASSUME Init PROVE Discipline!Init
    OBVIOUS
  <2>1. IInv
    BY InitInv
  <2>2. \A o \in OrderIds : ~Recorded(orders[o])
    BY DEF Init, Recorded, AbsentRow
  <2>3. \A o \in OrderIds : OutcomeOf(o) = "unused"
    BY <2>1, <2>2, OutcomeFacts DEF OutcomeFact
  <2>4. ~IsOpen(trade)
    BY DEF Init, IsOpen, NoTrade
  <2> QED BY <2>3, <2>4 DEF Discipline!Init
<1>2. IInv /\ IInv' /\ [Next]_vars => [Discipline!Next]_<<Outcomes, Book>>
  BY MapNext DEF Mapped, Discipline!Next
<1>3. Spec => []IInv
  BY Invariance
<1>4. [Discipline!Next]_<<Outcomes, Book>>
        => [Discipline!Next]_<<[o \in OrderIds |-> OutcomeOf(o)],
                              IF IsOpen(trade) THEN "open" ELSE "flat">>
  BY DEF Outcomes, Book
<1> QED BY <1>1, <1>2, <1>3, <1>4, PTL DEF Spec, ImplementsDiscipline, Discipline!Spec

-----------------------------------------------------------------------------
(* What OrderLifecycle guarantees of the account when one broker trades the *)
(* symbol: the recorded position is backed by base asset in the account,    *)
(* and base asset that the bot did not buy is never sold.                   *)
(*                                                                          *)
(* Two brokers do not have these properties: the position one of them read  *)
(* before a SELL may have been closed and replaced by the other.            *)


OneBroker == \A b, c \in Brokers : b = c

\* The inductive invariant of the account, on top of IInv.
AccountInv == ExitFits /\ PositionBacked /\ ForeignBaseKept

ExitHeld == \A b \in Brokers : pc'[b] = "exit" => held'[b] = trade'

\* The quantities are numbers, so that arithmetic on them makes sense.
Sized ==
    /\ base \in Nat /\ trade \in TradeRow
    /\ trade.qty \in Nat /\ trade.qty \in Qty /\ InitialBase \in Nat
    /\ \A o \in OrderIds :
         /\ orders[o].req \in Nat /\ exch[o].exec \in Nat
         /\ exch[o].exec \in Qty
         /\ Net[exch[o].exec] \in Nat
         /\ exch[o].exec <= orders[o].req

\* The type invariant and the filters make them so.
LEMMA Quantities == IInv => Sized
<1> SUFFICES ASSUME IInv PROVE Sized
  OBVIOUS
<1>1. Qty \subseteq Nat
  BY QtyAssumption DEF Qty
<1>2. /\ base \in Nat /\ trade \in TradeRow
      /\ trade.qty \in Qty /\ InitialBase \in Nat
  BY QtyAssumption DEF IInv, TypeOK, TradeRow
<1>3. ASSUME NEW o \in OrderIds
      PROVE  /\ orders[o].req \in Qty /\ exch[o].exec \in Qty
             /\ exch[o].exec <= orders[o].req
  BY DEF IInv, TypeOK, OrderRow, ExchangeState, OrderOK
<1>4. \A q \in Qty : Net[q] \in Qty
  BY NetAssumption
<1> QED BY <1>1, <1>2, <1>3, <1>4 DEF Sized

\* Steps that leave position, account and the standing of the orders alone.
LEMMA AccountKept ==
    ASSUME IInv, AccountInv, ExitHeld, UNCHANGED <<trade, base, exch>>,
           \A o \in OrderIds :
             /\ Outstanding(o)' <=> Outstanding(o)
             /\ Outstanding(o) =>
                  orders'[o].side = orders[o].side /\ orders'[o].req = orders[o].req
    PROVE  AccountInv'
<1>1. ExitFits'
  BY DEF AccountInv, ExitFits, ExitHeld, IsOpen
<1>2. PositionBacked'
  BY DEF AccountInv, PositionBacked, IsOpen
<1>3. ForeignBaseKept'
  BY DEF AccountInv, ForeignBaseKept
<1> QED BY <1>1, <1>2, <1>3 DEF AccountInv

\* update_order_record changes none of that.
LEMMA AccountOutcome ==
    ASSUME IInv, AccountInv, ExitHeld, NEW c \in OrderIds, NEW e \in Qty,
           NEW s \in RowStatuses \ {"ABSENT"}, Recorded(orders[c]),
           orders' = [orders EXCEPT ![c] = WithOutcome(@, e, s)],
           UNCHANGED <<trade, base, exch>>
    PROVE  AccountInv'
<1>1. ASSUME NEW o \in OrderIds
      PROVE  /\ Recorded(orders[o])' <=> Recorded(orders[o])
             /\ orders'[o].applied = orders[o].applied
             /\ orders'[o].side = orders[o].side
             /\ orders'[o].req = orders[o].req
  <2>1. CASE o = c
    BY <2>1, OutcomeRow DEF IInv, TypeOK, Recorded
  <2>2. CASE o # c
    BY <2>2 DEF IInv, TypeOK, Recorded
  <2> QED BY <2>1, <2>2
<1>2. \A o \in OrderIds : Outstanding(o)' <=> Outstanding(o)
  BY <1>1 DEF Outstanding, Settled
<1> QED BY <1>1, <1>2, AccountKept

\* The new order has executed nothing; a SELL is no larger than the position.
LEMMA AccountIntent ==
    ASSUME IInv, IInv', AccountInv, ExitHeld, NEW b \in Brokers,
           NEW c \in OrderIds, NEW side \in {"BUY", "SELL"}, NEW q \in Qty,
           RecordIntent(b, c, side, q), side = "SELL" => q <= trade.qty
    PROVE  AccountInv'
<1>1. /\ UNCHANGED <<trade, base, exch>>
      /\ orders' = [orders EXCEPT ![c] = NewIntent(side, q)]
  BY DEF RecordIntent, market
<1>2. orders'[c].side = side /\ orders'[c].req = q
  BY <1>1, IntentRow DEF IInv, TypeOK
<1>3. \A o \in OrderIds \ {c} : orders'[o] = orders[o]
  BY <1>1 DEF IInv, TypeOK
<1>4. \A o \in OrderIds : ~Outstanding(o)
  BY ResolvedIsSettled DEF RecordIntent, IntentAllowed
<1>5. \A o \in OrderIds \ {c} : ~Outstanding(o)'
  BY <1>1, <1>3, <1>4 DEF Outstanding, Settled, Recorded
<1>6. InitialBase + trade.qty <= base
  BY <1>4 DEF AccountInv, PositionBacked
<1>7. exch[c].exec = 0 /\ Net[0] = 0
  <2>1. exch[c].exec = 0
    BY DEF RecordIntent, IInv, OrderOK
  <2>2. Net[0] \in Nat /\ Net[0] <= 0
    BY Constants, NetAssumption, QtyAssumption DEF Qty
  <2> QED BY <2>1, <2>2
<1>8. (side = "BUY") = ~IsOpen(trade)
  BY DEF RecordIntent, IntentAllowed
<1>9. Outstanding(c)'
  <2>1. exch[c].status \notin ClosedStatuses /\ ~Recorded(orders[c])
    BY StatusFacts DEF RecordIntent, IInv, OrderOK
  <2>2. Recorded(orders[c])'
    BY <1>1, IntentRow DEF IInv, TypeOK, Recorded
  <2> QED BY <1>1, <2>1, <2>2 DEF Outstanding, Settled
<1>10. ExitFits'
  BY <1>1, <1>2, <1>5 DEF AccountInv, ExitFits, ExitHeld, IsOpen
<1>11. PositionBacked'
  <2>1. CASE side = "BUY"
    <3>1. ~IsOpen(trade)' /\ InitialBase <= base
      BY <1>1, <1>8, <2>1 DEF AccountInv, ForeignBaseKept, IsOpen
    <3>2. InitialBase + 0 <= base
      BY <3>1, Quantities DEF Sized
    <3> QED BY <1>1, <1>2, <1>5, <1>7, <1>9, <2>1, <3>1, <3>2
            DEF PositionBacked
  <2>2. CASE side = "SELL"
    <3>1. InitialBase + trade.qty <= base + 0
      BY <1>6, Quantities DEF Sized
    <3> QED BY <1>1, <1>2, <1>5, <1>7, <1>9, <2>2, <3>1 DEF PositionBacked
  <2> QED BY <2>1, <2>2
<1>12. ForeignBaseKept'
  BY <1>1 DEF AccountInv, ForeignBaseKept
<1> QED BY <1>10, <1>11, <1>12 DEF AccountInv

\* What is true of an order that a transaction is about to apply.
LEMMA Applied ==
    ASSUME IInv, IInv', NEW c \in OrderIds, NEW side \in {"BUY", "SELL"},
           Applicable(orders[c], side),
           orders' = [orders EXCEPT ![c] = WithApplied(@)], exch' = exch
    PROVE  /\ Outstanding(c) /\ orders[c].side = side
           /\ \A o \in OrderIds : ~Outstanding(o)'
<1>1. /\ orders[c].status \in FillStatuses /\ orders[c].exec > 0
      /\ ~orders[c].applied /\ orders[c].side = side
  BY DEF Applicable
<1>2. /\ exch[c].exec = orders[c].exec /\ Recorded(orders[c])
      /\ exch[c].status \in ClosedStatuses
  BY <1>1, StatusFacts DEF IInv, OrderOK, Recorded
<1>3. Outstanding(c)
  BY <1>1, <1>2 DEF Outstanding, Settled
<1>4. orders'[c].applied
  BY AppliedRow DEF IInv, TypeOK
<1>5. ~Outstanding(c)'
  BY <1>2, <1>4 DEF Outstanding, Settled
<1>6. \A o \in OrderIds \ {c} : ~Outstanding(o)'
  <2>1. \A o \in OrderIds \ {c} : orders'[o] = orders[o]
    BY DEF IInv, TypeOK
  <2> QED BY <1>3, <2>1 DEF IInv, OneOutstandingOrder, Outstanding, Settled, Recorded
<1> QED BY <1>1, <1>3, <1>5, <1>6

\* A BUY is applied: the position is no more than what it left in the account.
LEMMA AccountBought ==
    ASSUME IInv, IInv', AccountInv, ExitHeld, NEW c \in OrderIds, NEW q \in Qty,
           q <= Net[exch[c].exec], CanOpenTrade(orders, trade, c),
           trade' = OpenedTrade(c, q),
           orders' = [orders EXCEPT ![c] = WithApplied(@)],
           UNCHANGED <<base, exch>>
    PROVE  AccountInv'
<1>1. /\ Outstanding(c) /\ orders[c].side = "BUY"
      /\ \A o \in OrderIds : ~Outstanding(o)'
  BY Applied DEF CanOpenTrade
<1>2. InitialBase + Net[exch[c].exec] <= base
  BY <1>1 DEF AccountInv, PositionBacked
<1>3. trade'.id = c /\ trade'.qty = q
  BY DEF OpenedTrade
<1>4. InitialBase + trade'.qty <= base
  BY <1>2, <1>3, Quantities, QtyAssumption DEF Qty, Sized
<1>5. ExitFits'
  BY <1>1, <1>3, NoOrderAssumption DEF ExitFits, ExitHeld, IsOpen
<1>6. PositionBacked'
  BY <1>1, <1>4 DEF PositionBacked
<1>7. ForeignBaseKept'
  BY DEF AccountInv, ForeignBaseKept
<1> QED BY <1>5, <1>6, <1>7 DEF AccountInv

\* A SELL is applied: it fits the position, so the remainder is still backed.
LEMMA AccountSold ==
    ASSUME IInv, IInv', AccountInv, ExitHeld, NEW c \in OrderIds, NEW id,
           CanCloseTrade(orders, trade, c, id),
           trade' = AfterSale(trade, exch[c].exec),
           orders' = [orders EXCEPT ![c] = WithApplied(@)],
           UNCHANGED <<base, exch>>
    PROVE  AccountInv'
<1>1. /\ Outstanding(c) /\ orders[c].side = "SELL"
      /\ \A o \in OrderIds : ~Outstanding(o)'
  BY Applied DEF CanCloseTrade
<1>2. /\ InitialBase + trade.qty <= base + exch[c].exec
      /\ orders[c].req <= trade.qty
  BY <1>1 DEF AccountInv, PositionBacked, ExitFits
<1>3. CASE exch[c].exec < trade.qty
  <2>1. trade'.id = trade.id /\ trade'.qty = trade.qty - exch[c].exec
    BY <1>3, Quantities DEF AfterSale, TradeRow, Sized
  <2>2. InitialBase + trade'.qty <= base
    BY <1>2, <2>1, Quantities DEF Sized
  <2>3. ExitFits'
    BY <1>1, <2>1 DEF ExitFits, ExitHeld, IsOpen, CanCloseTrade
  <2>4. PositionBacked' /\ ForeignBaseKept'
    BY <1>1, <2>2 DEF PositionBacked, AccountInv, ForeignBaseKept
  <2> QED BY <2>3, <2>4 DEF AccountInv
<1>4. CASE ~(exch[c].exec < trade.qty)
  <2>1. trade' = NoTrade /\ trade'.qty = 0
    BY <1>4 DEF AfterSale, NoTrade
  <2>2. InitialBase + 0 <= base
    BY Quantities DEF AccountInv, ForeignBaseKept, Sized
  <2>3. ExitFits'
    BY <1>1, <2>1 DEF ExitFits, ExitHeld
  <2>4. PositionBacked' /\ ForeignBaseKept'
    BY <1>1, <2>1, <2>2 DEF PositionBacked, AccountInv, ForeignBaseKept
  <2> QED BY <2>3, <2>4 DEF AccountInv
<1> QED BY <1>3, <1>4

\* The exchange leaves an order as much executed as it was.
LEMMA AccountMoved ==
    ASSUME IInv, AccountInv, ExitHeld, NEW c \in OrderIds, Recorded(orders[c]),
           exch[c].status \notin ClosedStatuses,
           exch'[c].exec = exch[c].exec,
           \/ exch'[c].status \in ClosedStatuses /\ exch[c].exec = 0
           \/ ~Settled(c)',
           \A o \in OrderIds \ {c} : exch'[o] = exch[o],
           UNCHANGED <<orders, trade, base>>
    PROVE  AccountInv'
<1>1. Outstanding(c)
  BY DEF Outstanding, Settled
<1>2. \A o \in OrderIds \ {c} : ~Outstanding(o) /\ ~Outstanding(o)'
  BY <1>1 DEF IInv, OneOutstandingOrder, Outstanding, Settled, Recorded
<1>3. ExitFits'
  BY <1>1, <1>2 DEF AccountInv, ExitFits, ExitHeld, IsOpen
<1>4. ForeignBaseKept'
  BY DEF AccountInv, ForeignBaseKept
<1>5. CASE ~Settled(c)'
  <2>1. Outstanding(c)'
    BY <1>5 DEF Outstanding, Recorded
  <2>2. PositionBacked'
    BY <1>1, <1>2, <2>1 DEF AccountInv, PositionBacked, IsOpen
  <2> QED BY <1>3, <1>4, <2>2 DEF AccountInv
<1>6. CASE exch'[c].status \in ClosedStatuses /\ exch[c].exec = 0
  <2>1. \A o \in OrderIds : ~Outstanding(o)'
    BY <1>2, <1>6 DEF Outstanding, Settled
  <2>2. InitialBase + trade.qty <= base
    <3>1. CASE orders[c].side = "BUY"
      <4>1. trade.qty = 0 /\ InitialBase <= base
        BY <1>1, <3>1 DEF AccountInv, PositionBacked, ExitFits, ForeignBaseKept
      <4> QED BY <4>1, Quantities DEF Sized
    <3>2. CASE orders[c].side # "BUY"
      <4>1. InitialBase + trade.qty <= base + exch[c].exec
        BY <1>1, <3>2 DEF AccountInv, PositionBacked
      <4> QED BY <1>6, <4>1, Quantities DEF Sized
    <3> QED BY <3>1, <3>2
  <2>3. PositionBacked'
    BY <2>1, <2>2 DEF PositionBacked
  <2> QED BY <1>3, <1>4, <2>3 DEF AccountInv
<1> QED BY <1>5, <1>6

\* The exchange executes q more of an order: what a BUY adds and what a SELL
\* takes is accounted for by the order, which is still to be applied.
LEMMA AccountFilled ==
    ASSUME IInv, AccountInv, ExitHeld, NEW c \in OrderIds, Fill(c)
    PROVE  AccountInv'
<1>1. PICK q \in FillSizes :
        LET e == exch[c].exec + q IN
        /\ e <= orders[c].req
        /\ orders[c].side = "SELL" => q <= base
        /\ base' = IF orders[c].side = "BUY"
                     THEN base + (Net[e] - Net[exch[c].exec])
                     ELSE base - q
        /\ exch' = [exch EXCEPT ![c] =
                      [status |-> IF e = orders[c].req THEN "FILLED"
                                                      ELSE "PARTIALLY_FILLED",
                       exec |-> e]]
  BY DEF Fill
<1>2. q \in Nat /\ q > 0
  BY QtyAssumption DEF Qty
<1>3. exch'[c].exec = exch[c].exec + q
  BY <1>1 DEF IInv, TypeOK
<1>4. \A o \in OrderIds \ {c} : exch'[o] = exch[o]
  BY <1>1 DEF IInv, TypeOK
<1>5. UNCHANGED <<orders, trade>>
  BY DEF Fill, db
<1>6. /\ Recorded(orders[c]) /\ ~orders[c].applied
      /\ exch[c].status \notin ClosedStatuses
  BY StatusFacts DEF Fill, IInv, OrderOK
<1>7. Outstanding(c)
  BY <1>6 DEF Outstanding, Settled
<1>8. Outstanding(c)'
  BY <1>2, <1>3, <1>5, <1>6, Quantities DEF Outstanding, Settled, Recorded, Sized
<1>9. \A o \in OrderIds \ {c} : ~Outstanding(o)'
  BY <1>4, <1>5, <1>7 DEF IInv, OneOutstandingOrder, Outstanding, Settled, Recorded
<1>10. ExitFits'
  BY <1>5, <1>7, <1>9 DEF AccountInv, ExitFits, ExitHeld, IsOpen
<1>11. CASE orders[c].side = "BUY"
  <2> DEFINE e == exch[c].exec + q
  <2>1. /\ ~IsOpen(trade) /\ InitialBase + Net[exch[c].exec] <= base
        /\ base' = base + (Net[e] - Net[exch[c].exec])
    BY <1>1, <1>7, <1>11 DEF AccountInv, PositionBacked
  <2>2. e \in Qty /\ exch[c].exec \in Qty /\ exch[c].exec <= e
    <3>1. orders[c].req \in Qty /\ e <= orders[c].req
      BY <1>1 DEF IInv, TypeOK, OrderRow
    <3> QED BY <1>2, <3>1, Quantities, QtyAssumption DEF Sized, Qty
  <2>3. Net[e] \in Nat /\ Net[exch[c].exec] <= Net[e]
    <3>1. Net[e] \in Qty
      BY <2>2, NetAssumption
    <3> QED BY <2>2, <3>1, NetAssumption, QtyAssumption DEF Qty
  <2>4. InitialBase + Net[e] <= base' /\ InitialBase <= base'
    <3> DEFINE n == Net[e]
               m == Net[exch[c].exec]
    <3>1. n \in Nat /\ m \in Nat /\ base \in Nat /\ InitialBase \in Nat
      BY <2>3, Quantities DEF Sized
    <3>2. InitialBase + m <= base /\ base' = base + (n - m) /\ m <= n
      BY <2>1, <2>3
    <3> HIDE DEF n, m
    <3>3. InitialBase + n <= base' /\ InitialBase <= base'
      BY <3>1, <3>2
    <3> QED BY <3>3 DEF n
  <2>5. PositionBacked'
    BY <1>3, <1>5, <1>8, <1>9, <1>11, <2>1, <2>4 DEF PositionBacked, IsOpen
  <2> QED BY <1>10, <2>4, <2>5 DEF AccountInv, ForeignBaseKept
<1>12. CASE orders[c].side # "BUY"
  <2>1. orders[c].side = "SELL"
    BY <1>6, <1>12 DEF IInv, OrderOK
  <2>2. /\ InitialBase + trade.qty <= base + exch[c].exec
        /\ orders[c].req <= trade.qty
        /\ base' = base - q /\ exch[c].exec + q <= orders[c].req
    BY <1>1, <1>7, <2>1 DEF AccountInv, PositionBacked, ExitFits
  <2>3. InitialBase + trade.qty <= base' + exch'[c].exec /\ InitialBase <= base'
    BY <1>2, <1>3, <2>2, Quantities DEF Sized
  <2>4. PositionBacked'
    BY <1>5, <1>8, <1>9, <2>1, <2>3 DEF PositionBacked
  <2> QED BY <1>10, <2>3, <2>4 DEF AccountInv, ForeignBaseKept
<1> QED BY <1>11, <1>12

-----------------------------------------------------------------------------
(* The actions, one by one. *)

\* A step that touches nothing but the broker's locals.
LEMMA AccountLocal ==
    ASSUME IInv, AccountInv, ExitHeld, UNCHANGED <<orders, trade, base, exch>>
    PROVE  AccountInv'
<1>1. \A o \in OrderIds : Outstanding(o)' <=> Outstanding(o)
  BY DEF Outstanding, Settled, Recorded
<1> QED BY <1>1, AccountKept

\* Entry and exit.  The exit sells the position it read, which nobody else
\* can have changed meanwhile.
LEMMA AccountEnterExit ==
    ASSUME OneBroker, IInv, IInv', AccountInv, NEW b \in Brokers,
           EnterStep(b) \/ ExitStep(b)
    PROVE  AccountInv'
<1>1. ASSUME pc'[b] # "exit" PROVE ExitHeld
  BY <1>1 DEF ExitHeld, OneBroker
<1>2. CASE StartEnter(b)
  <2>1. pc'[b] = "enter"
    BY <1>2 DEF StartEnter, Goto, IInv, TypeOK
  <2> QED BY <1>1, <1>2, <2>1, AccountLocal DEF StartEnter, db, market
<1>3. CASE SubmitBuy(b)
  <2>1. PICK o \in OrderIds, q \in Qty \ {0} : RecordIntent(b, o, "BUY", q)
    BY <1>3 DEF SubmitBuy
  <2>2. pc'[b] = "submit"
    BY <2>1 DEF RecordIntent, Goto, IInv, TypeOK
  <2> QED BY <1>1, <2>1, <2>2, AccountIntent
<1>4. CASE AbandonEntry(b) \/ AbandonExit(b)
  <2>1. pc'[b] = "idle"
    BY <1>4, ReturnStep DEF AbandonEntry, AbandonExit
  <2> QED BY <1>1, <1>4, <2>1, AccountLocal DEF AbandonEntry, AbandonExit, db, market
<1>5. CASE StartExit(b)
  <2>1. pc'[b] = "inventory"
    BY <1>5 DEF StartExit, Goto, IInv, TypeOK
  <2> QED BY <1>1, <1>5, <2>1, AccountLocal DEF StartExit, db, market
<1>6. CASE ReadPosition(b)
  <2>1. held'[b] = trade /\ trade' = trade
    BY <1>6 DEF ReadPosition, IInv, TypeOK, db
  <2>2. ExitHeld
    BY <2>1 DEF ExitHeld, OneBroker
  <2> QED BY <1>6, <2>2, AccountLocal DEF ReadPosition, db, market
<1>7. CASE SubmitSell(b)
  <2> DEFINE n == Lesser(held[b].qty, base)
             q == Normalize[n]
  <2>1. PICK o \in OrderIds : RecordIntent(b, o, "SELL", q)
    BY <1>7 DEF SubmitSell
  <2>2. held[b] = trade
    BY <1>7 DEF SubmitSell, AccountInv, ExitFits
  <2>3. n \in Qty /\ n <= trade.qty
    BY <2>2, Quantities, QtyAssumption DEF Lesser, Sized, Qty
  <2>4. q \in Qty /\ q <= n
    BY <2>3, NormalizeAssumption
  <2>5. q <= trade.qty
    <3> HIDE DEF n, q
    <3> QED BY <2>3, <2>4, Quantities, QtyAssumption DEF Sized, Qty
  <2>6. pc'[b] = "submit"
    BY <2>1 DEF RecordIntent, Goto, IInv, TypeOK
  <2> QED BY <1>1, <2>1, <2>4, <2>5, <2>6, AccountIntent
<1> QED BY <1>2, <1>3, <1>4, <1>5, <1>6, <1>7 DEF EnterStep, ExitStep

\* A response that is final says what the exchange executed.
LEMMA FinalResponse ==
    ASSUME IInv, NEW b \in Brokers, pc[b] \in AtFinal
    PROVE  /\ cur[b] \in OrderIds
           /\ resp[b].exec = exch[cur[b]].exec
           /\ resp[b].exec \in Qty
<1>1. pc[b] \in AtOrder /\ pc[b] \in AtResponse
  BY OrderPoints
<1>2. resp[b].status \in ClosedStatuses
  BY StatusFacts DEF IInv, BrokerOK
<1> QED BY <1>1, <1>2, AtWork DEF IInv, BrokerOK

\* _submit_market_order, after the intent.
LEMMA AccountSubmit ==
    ASSUME OneBroker, IInv, IInv', AccountInv, NEW b \in Brokers, SubmitStep(b)
    PROVE  AccountInv'
<1>1. ASSUME pc'[b] # "exit" PROVE ExitHeld
  BY <1>1 DEF ExitHeld, OneBroker
<1>2. ASSUME Return(b) PROVE ExitHeld
  <2>1. pc'[b] = "idle"
    BY <1>2, ReturnStep
  <2> QED BY <1>1, <2>1
<1>3. CASE Send(b)
  <2>1. pc[b] \in AtOrder /\ exch[cur[b]].status = "NONE"
    BY <1>3 DEF Send, AtOrder, IInv, BrokerOK
  <2>2. cur[b] \in OrderIds /\ Recorded(orders[cur[b]])
    BY <2>1, AtWork
  <2>3. /\ exch'[cur[b]].status = "INFLIGHT"
        /\ exch'[cur[b]].exec = exch[cur[b]].exec
        /\ \A o \in OrderIds \ {cur[b]} : exch'[o] = exch[o]
    BY <1>3, <2>2 DEF Send, IInv, TypeOK, ExchangeState
  <2>4. pc'[b] = "sent" /\ cur'[b] = cur[b]
    BY <1>3 DEF Send, Goto, IInv, TypeOK
  <2>5. UNCHANGED <<orders, trade, base>>
    BY <1>3 DEF Send, db
  <2>6. \A o \in OrderIds : exch'[o].status = "INFLIGHT" => ~Settled(o)'
    BY StatusFacts DEF Settled
  <2>7. exch[cur[b]].status \notin ClosedStatuses
    BY <2>1, StatusFacts
  <2>8. PICK c \in OrderIds : c = cur[b]
    BY <2>2
  <2> QED BY <1>1, <2>2, <2>3, <2>4, <2>5, <2>6, <2>7, <2>8, AccountMoved
<1>4. CASE SubmitAnswered(b) \/ QueryAnswered(b)
  <2>1. pc'[b] = "record"
    BY <1>4 DEF SubmitAnswered, QueryAnswered, Goto, IInv, TypeOK
  <2> QED BY <1>1, <1>4, <2>1, AccountLocal
          DEF SubmitAnswered, QueryAnswered, db, market
<1>5. CASE SubmitFails(b)
  <2>1. pc'[b] = "query"
    BY <1>5 DEF SubmitFails, Goto, IInv, TypeOK
  <2> QED BY <1>1, <1>5, <2>1, AccountLocal DEF SubmitFails, db, market
<1>6. CASE QueryFails(b)
  <2>1. pc[b] \in AtOrder /\ "UNKNOWN" \in RowStatuses \ {"ABSENT"}
    BY <1>6, StatusFacts DEF QueryFails, AtOrder
  <2> QED BY <1>2, <1>6, <2>1, AtWork, Constants, AccountOutcome
          DEF QueryFails, market
<1>7. CASE RejectResponse(b) \/ CommitFails(b)
  BY <1>2, <1>7, AccountLocal DEF RejectResponse, CommitFails, db, market
<1>8. CASE RecordOutcome(b)
  <2>1. pc[b] \in AtOrder /\ pc[b] \in AtResponse
    BY <1>8 DEF RecordOutcome, AtOrder, AtResponse
  <2>2. resp[b].status \in RowStatuses \ {"ABSENT"}
    BY <2>1, StatusFacts DEF IInv, BrokerOK
  <2>3. ExitHeld
    <3>1. CASE Return(b)
      BY <1>2, <3>1
    <3>2. CASE Goto(b, "commit")
      <4>1. pc'[b] = "commit"
        BY <3>2 DEF Goto, IInv, TypeOK
      <4> QED BY <1>1, <4>1
    <3> QED BY <1>8, <3>1, <3>2 DEF RecordOutcome
  <2> QED BY <1>8, <2>1, <2>2, <2>3, AtWork, AccountOutcome DEF RecordOutcome, market
<1>9. CASE CommitBuy(b)
  <2> DEFINE n == Net[resp[b].exec]
             q == Normalize[n]
  <2>1. /\ cur[b] \in OrderIds /\ resp[b].exec = exch[cur[b]].exec
        /\ resp[b].exec \in Qty
    BY <1>9, FinalResponse DEF CommitBuy, AtFinal
  <2>2. n \in Qty /\ q \in Qty /\ q <= n /\ n = Net[exch[cur[b]].exec]
    BY <2>1, NetAssumption, NormalizeAssumption
  <2>3. /\ CanOpenTrade(orders, trade, cur[b]) /\ trade' = OpenedTrade(cur[b], q)
        /\ orders' = [orders EXCEPT ![cur[b]] = WithApplied(@)]
        /\ UNCHANGED <<base, exch>> /\ Return(b)
    BY <1>9 DEF CommitBuy, market
  <2> HIDE DEF n, q
  <2> QED BY <1>2, <2>1, <2>2, <2>3, AccountBought
<1>10. CASE CommitSell(b)
  <2>1. /\ cur[b] \in OrderIds /\ resp[b].exec = exch[cur[b]].exec
    BY <1>10, FinalResponse DEF CommitSell, AtFinal
  <2> QED BY <1>2, <1>10, <2>1, AccountSold DEF CommitSell, market
<1> QED BY <1>3, <1>4, <1>5, <1>6, <1>7, <1>8, <1>9, <1>10
        DEF SubmitStep

\* Reconciliation.
LEMMA AccountRecover ==
    ASSUME OneBroker, IInv, IInv', AccountInv, NEW b \in Brokers, RecoverStep(b)
    PROVE  AccountInv'
<1>1. ASSUME pc'[b] # "exit" PROVE ExitHeld
  BY <1>1 DEF ExitHeld, OneBroker
<1>2. ASSUME NEW id, NextRow(b, id) PROVE ExitHeld
  <2>1. pc'[b] = "recover"
    BY <1>2 DEF NextRow, Goto, IInv, TypeOK
  <2> QED BY <1>1, <2>1
<1>3. ASSUME NEW point \in RecoveryPoints, Goto(b, point) PROVE ExitHeld
  <2>1. pc'[b] = point
    BY <1>3 DEF Goto, IInv, TypeOK
  <2> QED BY <1>1, <2>1 DEF RecoveryPoints
<1>4. ASSUME pc[b] \in AtResponse,
             orders' = [orders EXCEPT ![cur[b]] =
                          WithOutcome(@, resp[b].exec, resp[b].status)],
             UNCHANGED <<trade, base, exch>>, ExitHeld
      PROVE  AccountInv'
  <2>1. pc[b] \in AtOrder
    BY <1>4, OrderPoints
  <2>2. resp[b].status \in RowStatuses \ {"ABSENT"}
    BY <1>4, StatusFacts DEF IInv, BrokerOK
  <2> QED BY <1>4, <2>1, <2>2, AtWork, AccountOutcome
<1>5. CASE StartReconcile(b) \/ RecoverQuery(b) \/ RecoverTerminal(b)
  <2>1. Goto(b, "recover") \/ Goto(b, "recover_reply") \/ Goto(b, "recover_fills")
    BY <1>5 DEF StartReconcile, RecoverQuery, RecoverTerminal
  <2>2. ExitHeld
    BY <1>3, <2>1 DEF RecoveryPoints
  <2> QED BY <1>5, <2>2, AccountLocal
          DEF StartReconcile, RecoverQuery, RecoverTerminal, db, market
<1>6. CASE RecoverQueryFails(b) \/ RecoverRejects(b) \/ RecoverFails(b)
  BY <1>2, <1>6, AccountLocal
  DEF RecoverQueryFails, RecoverRejects, RecoverFails, db, market
<1>7. CASE RecoverUnfilled(b)
  <2>1. pc[b] \in AtResponse
    BY <1>7 DEF RecoverUnfilled, AtResponse
  <2> QED BY <1>2, <1>4, <1>7, <2>1 DEF RecoverUnfilled, RecoverRecord, market
<1>8. CASE RecoverActive(b) \/ RecoverFillsMissing(b)
  <2>1. pc[b] \in AtOrder /\ "RECOVERY_REQUIRED" \in RowStatuses \ {"ABSENT"}
    BY <1>8, StatusFacts DEF RecoverActive, RecoverFillsMissing, AtOrder
  <2>2. ExitHeld
    BY <1>2, <1>8 DEF RecoverActive, RecoverFillsMissing
  <2> QED BY <1>8, <2>1, <2>2, AtWork, AccountOutcome
          DEF RecoverActive, RecoverFillsMissing, RecoverRecord, market
<1>9. CASE RecoverFillsComplete(b)
  <2>1. pc[b] \in AtResponse
    BY <1>9 DEF RecoverFillsComplete, AtResponse
  <2>2. ExitHeld
    BY <1>3, <1>9 DEF RecoverFillsComplete, RecoveryPoints
  <2> QED BY <1>4, <1>9, <2>1, <2>2 DEF RecoverFillsComplete, RecoverRecord, market
<1>10. CASE RecoverBuy(b)
  <2> DEFINE n == Net[resp[b].exec]
  <2>1. /\ cur[b] \in OrderIds /\ resp[b].exec = exch[cur[b]].exec
        /\ resp[b].exec \in Qty
    BY <1>10, FinalResponse DEF RecoverBuy, AtFinal
  <2>2. n \in Qty /\ n <= n /\ n = Net[exch[cur[b]].exec]
    BY <2>1, NetAssumption, QtyAssumption DEF Qty
  <2>3. /\ CanOpenTrade(orders, trade, cur[b]) /\ trade' = OpenedTrade(cur[b], n)
        /\ orders' = [orders EXCEPT ![cur[b]] = WithApplied(@)]
        /\ UNCHANGED <<base, exch>> /\ NextRow(b, cur[b])
    BY <1>10 DEF RecoverBuy, market
  <2> HIDE DEF n
  <2> QED BY <1>2, <2>1, <2>2, <2>3, AccountBought
<1>11. CASE RecoverSell(b)
  <2>1. /\ cur[b] \in OrderIds /\ resp[b].exec = exch[cur[b]].exec
    BY <1>11, FinalResponse DEF RecoverSell, AtFinal
  <2> QED BY <1>2, <1>11, <2>1, AccountSold DEF RecoverSell, market
<1>12. CASE FinishReconcile(b)
  <2>1. pc'[b] = "idle"
    BY <1>12, ReturnStep DEF FinishReconcile
  <2> QED BY <1>1, <1>12, <2>1, AccountLocal DEF FinishReconcile, db, market
<1> QED BY <1>5, <1>6, <1>7, <1>8, <1>9, <1>10, <1>11, <1>12 DEF RecoverStep

\* What the exchange does on its own.
LEMMA AccountExchange ==
    ASSUME IInv, AccountInv, NEW o \in OrderIds, ExchangeStep(o)
    PROVE  AccountInv'
<1>1. ExitHeld
  <2>1. UNCHANGED <<trade, pc, held>>
    BY DEF ExchangeStep, Accept, Lose, Fill, Expire, RejectOrder, db, local
  <2> QED BY <2>1 DEF ExitHeld, AccountInv, ExitFits
<1>2. CASE Fill(o)
  BY <1>1, <1>2, AccountFilled
<1>3. CASE Accept(o) \/ Lose(o) \/ Expire(o) \/ RejectOrder(o)
  <2>1. /\ exch[o].status \in {"INFLIGHT", "NEW", "PARTIALLY_FILLED"}
        /\ exch[o].status \notin ClosedStatuses
    BY <1>3, StatusFacts DEF Accept, Lose, Expire, RejectOrder
  <2>2. Recorded(orders[o]) /\ ~orders[o].applied
    BY <2>1 DEF IInv, OrderOK
  <2>3. /\ \A p \in OrderIds \ {o} : exch'[p] = exch[p]
        /\ exch'[o].exec = exch[o].exec
        /\ exch'[o].status \in {"NEW", "LOST"} \cup ClosedStatuses
    BY <1>3 DEF Accept, Lose, Expire, RejectOrder, IInv, TypeOK, ExchangeState,
       ClosedStatuses, FillStatuses
  <2>4. UNCHANGED <<orders, trade, base>>
    BY <1>3 DEF Accept, Lose, Expire, RejectOrder, db
  <2>5. CASE exch'[o].status \in ClosedStatuses /\ exch[o].exec = 0
    BY <1>1, <2>1, <2>2, <2>3, <2>4, <2>5, AccountMoved
  <2>6. CASE ~(exch'[o].status \in ClosedStatuses /\ exch[o].exec = 0)
    <3>1. ~Settled(o)'
      BY <2>2, <2>3, <2>4, <2>6, Quantities DEF Settled, Sized
    <3> QED BY <1>1, <2>1, <2>2, <2>3, <2>4, <3>1, AccountMoved
  <2> QED BY <2>5, <2>6
<1> QED BY <1>2, <1>3 DEF ExchangeStep

\* Every step keeps the account invariant.
LEMMA AccountNext ==
    ASSUME OneBroker
    PROVE  IInv /\ IInv' /\ AccountInv /\ [Next]_vars => AccountInv'
<1> SUFFICES ASSUME IInv, IInv', AccountInv, [Next]_vars PROVE AccountInv'
  OBVIOUS
<1>1. ASSUME NEW b \in Brokers, EnterStep(b) \/ ExitStep(b) PROVE AccountInv'
  BY <1>1, AccountEnterExit
<1>2. ASSUME NEW b \in Brokers, SubmitStep(b) PROVE AccountInv'
  BY <1>2, AccountSubmit
<1>3. ASSUME NEW b \in Brokers, RecoverStep(b) PROVE AccountInv'
  BY <1>3, AccountRecover
<1>4. ASSUME NEW b \in Brokers, Cancel(b) \/ Crash(b) PROVE AccountInv'
  <2>1. pc'[b] = "idle"
    BY <1>4, ReturnStep DEF Cancel, Crash
  <2>2. ExitHeld
    BY <2>1 DEF ExitHeld, OneBroker
  <2> QED BY <1>4, <2>2, AccountLocal DEF Cancel, Crash, db, market
<1>5. ASSUME NEW o \in OrderIds, ExchangeStep(o) PROVE AccountInv'
  BY <1>5, AccountExchange
<1>6. CASE UNCHANGED vars
  <2>1. UNCHANGED <<orders, trade, base, exch, pc, held>>
    BY <1>6 DEF vars
  <2>2. ExitHeld
    BY <2>1 DEF ExitHeld, AccountInv, ExitFits
  <2> QED BY <2>1, <2>2, AccountLocal
<1> QED BY <1>1, <1>2, <1>3, <1>4, <1>5, <1>6 DEF Next

\* Nothing is recorded and the account holds what is not the bot's.
LEMMA AccountInit == Init => AccountInv
<1> SUFFICES ASSUME Init PROVE AccountInv
  OBVIOUS
<1>1. trade.qty = 0 /\ base = InitialBase /\ InitialBase \in Nat
  BY QtyAssumption DEF Init, NoTrade
<1>2. \A o \in OrderIds : ~Outstanding(o)
  BY DEF Init, Outstanding, Recorded, AbsentRow
<1>3. \A b \in Brokers : pc[b] # "exit"
  BY DEF Init
<1> QED BY <1>1, <1>2, <1>3 DEF AccountInv, ExitFits, PositionBacked, ForeignBaseKept

\* The account invariant holds of every behaviour of a single broker.
LEMMA AccountInvariance ==
    ASSUME OneBroker
    PROVE  Spec => []AccountInv
  BY AccountInit, AccountNext, Invariance, PTL DEF Spec

\* A single broker's recorded position is always backed by base asset in the
\* account, whatever is lost, delayed, crashes or is recovered twice.
THEOREM PositionIsBacked ==
    ASSUME OneBroker
    PROVE  Spec => []PositionBacked
<1>1. AccountInv => PositionBacked
  BY DEF AccountInv
<1> QED BY <1>1, AccountInvariance, PTL

\* A single broker's software exits never sell base asset it did not buy.
THEOREM ForeignBaseIsKept ==
    ASSUME OneBroker
    PROVE  Spec => []ForeignBaseKept
<1>1. AccountInv => ForeignBaseKept
  BY DEF AccountInv
<1> QED BY <1>1, AccountInvariance, PTL

=============================================================================
