---------------------- MODULE ProtectionDisciplineProofs ----------------------
(***************************************************************************)
(* Which steps of Protection let go of a list or change who may sell: a    *)
(* list is dropped only when it is finished and booked, and the whole      *)
(* implements PositionDiscipline, for any number of lists and any          *)
(* quantities; both up to a lapse, a list placed beside a market SELL      *)
(* whose outcome start-up did not find.                                    *)
(***************************************************************************)
EXTENDS ProtectionProofs

\* What DropOnlyFinished says of a step.
DropOK ==
    ~lapsed /\ row.list # NoList /\ row'.list # row.list =>
      /\ lists[row.list].state = "ACCEPTED" /\ ~Outstanding(row.list)
      /\ row'.open => row'.applied = row.from + Executed(row.list)

\* Fills are applied of a list that the exchange has accepted.
LEMMA BookedIsAccepted ==
    ASSUME Data, Control, FillsAgree
    PROVE  row.list # NoList /\ lists[row.list].state = "ACCEPTED"
<1>1. Answered
  BY DEF FillsAgree, Answered
<1>2. row.list # NoList /\ row.status = seen.list
  BY <1>1 DEF Control, SeenOK
<1>3. row.status # "NONE"
  BY <1>2 DEF Data, RowOK
<1>4. row.status \in {"EXECUTING", "TERMINAL"}
  BY <1>2, <1>3 DEF Control, ControlType
<1> QED BY <1>2, <1>4 DEF Data, StatusIsTrue

\* Clearing the identity, closing the position by a fill and closing it by a
\* SELL are the only steps after which the row names another list.
LEMMA StepDrops ==
    ASSUME Data, Control, Next
    PROVE  DropOK
<1>1. CASE PlaceRearms \/ HoldAndRearm \/ VerifiedTerminal \/ CancelChecked
  <2>1. Settled
    BY <1>1 DEF PlaceRearms, HoldAndRearm, VerifiedTerminal, CancelChecked, Control,
       SeenOK, Answered, Legs
  <2>2. row' = Cleared(row)
    BY <1>1 DEF PlaceRearms, HoldAndRearm, VerifiedTerminal, CancelChecked, Rearm
  <2>3. row'.applied = row.applied
    BY <2>2 DEF Cleared, Data, DataType, RowType
  <2> QED BY <2>1, <2>3 DEF Settled, Over, DropOK
<1>2. CASE BookFill \/ BookFillTorn
  <2>1. /\ FillsAgree /\ UNCHANGED <<lists, base, rate, sale, lapsed>>
        /\ \/ row' = Booked
           \/ Booked.open /\ row' = [Booked EXCEPT !.status = "UNKNOWN"]
    BY <1>2 DEF BookFill, BookFillTorn, Torn, exchange
  <2>2. row.list # NoList /\ lists[row.list].state = "ACCEPTED"
    BY <2>1, BookedIsAccepted
  <2>3. row'.open => row'.list = row.list
    BY <2>1, <2>2, DataBook
  <2>4. CASE ~lapsed /\ ~row'.open
    <3>1. row.open /\ row \in RowType
      BY <2>2 DEF Data, DataType, RowOK
    <3>2. Total - row.applied = row.qty
      BY <2>1, <2>4, <3>1 DEF Booked, AfterFill, RowType
    <3>3. Untold = row.qty
      <4>1. Executed(row.list) = SeenExecuted
        BY <2>1 DEF FillsAgree
      <4>2. Total = row.from + Executed(row.list)
        BY <4>1 DEF Total
      <4>3. /\ Untold = row.from + Executed(row.list) - row.applied
            /\ Executed(row.list) \in Nat
        BY <2>2, UntoldShape
      <4> QED BY <3>2, <4>2, <4>3, Numbers DEF Data
    <3>4. Over(row.list)
      BY <2>2, <2>4, <3>3, SoldOutIsOver
    <3> QED BY <2>4, <3>4 DEF Over, DropOK
  <2> QED BY <2>3, <2>4 DEF DropOK
<1>3. CASE SellSettled \/ RecoverSale
  <2>1. HasUnresolved
    <3>1. sale.state = "OVER"
      BY <1>3 DEF SellSettled, RecoverSale, SettleSale
    <3> QED BY <3>1 DEF HasUnresolved, NoSale
  <2>2. lapsed \/ row.list = NoList
    BY <2>1 DEF Control, SaleOK, SalePending
  <2> QED BY <2>2 DEF DropOK
<1>4. CASE Place \/ Enter \/ RecoverBuy
  <2>1. row.list = NoList
    BY <1>4 DEF Place, Enter, RecoverBuy, OpenPosition, Control, SeenOK, Data, RowOK,
       FlatRow
  <2> QED BY <2>1 DEF DropOK
<1>5. ASSUME NEW s, row' = [row EXCEPT !.status = s] PROVE DropOK
  BY <1>5, StatusRow DEF Data, DropOK
<1>6. ASSUME UNCHANGED row PROVE DropOK
  BY <1>6 DEF DropOK
<1>7. CASE PlaceStep
  <2>1. CASE Place \/ PlaceRearms
    BY <1>1, <1>4, <2>1
  <2>2. CASE LookupFails \/ ConfirmRejects \/ ConfirmActive \/ ConfirmTerminal \/ PlaceGivesUp
    BY <1>5, <2>2 DEF LookupFails, ConfirmRejects, ConfirmActive, ConfirmTerminal,
       PlaceGivesUp, Unverified, SetStatus
  <2>3. CASE Send \/ PlaceFails \/ PlaceAnswered \/ PlaceClosed
    BY <1>6, <2>3 DEF Send, PlaceFails, PlaceAnswered, PlaceClosed
  <2> QED BY <1>7, <2>1, <2>2, <2>3 DEF PlaceStep
<1>8. CASE FillStep
  <2>1. CASE QueryList \/ AnswerRejected \/ LegsTorn
    BY <1>5, <2>1 DEF QueryList, AnswerRejected, LegsTorn, Unverified, SetStatus
  <2>2. CASE QueryListFails
    BY <1>5, <1>6, <2>2 DEF QueryListFails, SetStatus
  <2>3. CASE (\E g \in Legs : QueryLeg(g)) \/ LegsQuiet \/ LegsExecuted
    BY <1>6, <2>3 DEF QueryLeg, LegsQuiet, LegsExecuted
  <2> QED BY <1>2, <1>8, <2>1, <2>2, <2>3 DEF FillStep
<1>9. CASE ExitStep
  <2>1. CASE \/ StartExit \/ ExitFilled \/ ExitChecked \/ Hold \/ HoldAndPlace \/ ExitDue
             \/ CancelList \/ CancelFails \/ CancelRefused
             \/ SubmitSell \/ AbandonSell \/ SellUncertain
    BY <1>6, <2>1 DEF StartExit, ExitFilled, ExitChecked, Hold, HoldAndPlace, ExitDue,
       CancelList, CancelFails, CancelRefused, SubmitSell, AbandonSell, SellUncertain
  <2> QED BY <1>1, <1>3, <1>9, <2>1 DEF ExitStep
<1>10. CASE StartStep
  <2>1. CASE \/ StartUp \/ OrdersReconciled \/ StartFlat \/ StartVerify \/ StartInstall
             \/ Verified
    BY <1>6, <2>1 DEF StartUp, OrdersReconciled, StartFlat, StartVerify, StartInstall,
       Verified
  <2> QED BY <1>1, <1>3, <1>4, <1>10, <2>1 DEF StartStep
<1>11. CASE Cancel \/ Crash \/ ExchangeStep
  BY <1>6, <1>11 DEF Cancel, Crash, ExchangeStep, RateMoves, SaleExecutes, SaleEnds,
     ListStep, Accept, Lose, FillLeg, EndLeg
<1> QED BY <1>4, <1>7, <1>8, <1>9, <1>10, <1>11 DEF Next, BrokerStep

\* Up to a lapse, the row lets go of a list only when the exchange is done with
\* it and all it executed has been applied.
THEOREM DropsFinished == Spec => DropOnlyFinished
<1>1. IInv /\ [Next]_vars => [DropOK]_vars
  BY Parts, StepDrops
<1>2. DropOnlyFinished <=> [][DropOK]_vars
  BY DEF DropOnlyFinished, DropOK
<1> QED BY <1>1, <1>2, ProtectionInvariance, PTL DEF Spec

-----------------------------------------------------------------------------
(* PositionDiscipline: what the bot holds, and who may sell it. *)

Selling == \E l \in Lists : Outstanding(l)

Held   == base - InitialBase
Seller == IF Selling THEN "list" ELSE IF sale.state = "SENT" THEN "market" ELSE "none"

Mapped == [Discipline!Next]_<<Held, Seller>>

\* The steps of PositionDiscipline in these terms.
LEMMA Stutters ==
    ASSUME UNCHANGED base, Seller' = Seller
    PROVE  Mapped
BY DEF Mapped, Held

LEMMA Acquires ==
    ASSUME base = InitialBase, Seller = "none", Seller' = "none",
           NEW q \in Nat \ {0}, base' = base + q
    PROVE  Mapped
<1>1. Held = 0 /\ Held' \in Nat \ {0}
  BY NoListShape DEF Held
<1>2. Discipline!Acquire
  BY <1>1 DEF Discipline!Acquire, Held, Seller, Selling
<1> QED BY <1>2 DEF Mapped, Discipline!Next

LEMMA Offers ==
    ASSUME base \in Nat, base > InitialBase, UNCHANGED base,
           Seller = "none", Seller' \in {"list", "market"}
    PROVE  Mapped
<1>1. Held > 0 /\ Held' = Held
  BY NoListShape DEF Held
<1>2. Discipline!Offer
  BY <1>1 DEF Discipline!Offer, Held, Seller, Selling
<1> QED BY <1>2 DEF Mapped, Discipline!Next

LEMMA Sells ==
    ASSUME base \in Nat, base' \in Nat, base' < base, base' >= InitialBase,
           Seller # "none", Seller' \in {Seller, "none"}
    PROVE  Mapped
<1>1. Held' < Held /\ Held' \in Nat
  <2>1. \A m, n, i \in Nat : n < m /\ n >= i => n - i < m - i /\ n - i \in Nat
    OBVIOUS
  <2> QED BY <2>1, NoListShape DEF Held
<1>2. Discipline!Sell
  BY <1>1 DEF Discipline!Sell, Held, Seller, Selling
<1> QED BY <1>2 DEF Mapped, Discipline!Next

LEMMA Withdraws ==
    ASSUME UNCHANGED base, Seller # "none", Seller' = "none"
    PROVE  Mapped
<1>1. Discipline!Withdraw
  BY DEF Discipline!Withdraw, Held, Seller, Selling
<1> QED BY <1>1 DEF Mapped, Discipline!Next

\* A lapse is never forgotten.
LEMMA LapseStays ==
    ASSUME [Next]_vars, ~lapsed', lapsed \in BOOLEAN
    PROVE  ~lapsed
<1>1. CASE Place
  BY <1>1 DEF Place
<1>2. CASE Next /\ ~Place
  BY <1>2, OnlyPlaceLapses
<1> QED BY <1>1, <1>2 DEF vars

\* Up to a lapse, the bot never holds less than nothing, and exactly its row
\* when no list is named.
LEMMA HeldIsCounted ==
    ASSUME Data, Control, ~lapsed
    PROVE  /\ base >= InitialBase
           /\ row.list = NoList => base + sale.exec = InitialBase + row.qty
<1>1. base + Untold + sale.exec = InitialBase + row.qty
  BY DEF Data, LedgerExact
<1>2. CASE row.list = NoList
  <2>1. Untold = 0
    BY <1>2, UntoldShape
  <2>2. sale.exec <= row.qty
    <3>1. CASE HasUnresolved
      BY <3>1, Numbers DEF Data, Control, SaleOK, SalePending
    <3>2. CASE ~HasUnresolved
      BY <3>2, Numbers DEF HasUnresolved, NoSale, Data
    <3> QED BY <3>1, <3>2
  <2> QED BY <1>1, <2>1, <2>2, Numbers DEF Data
<1>3. CASE row.list # NoList
  <2>1. sale.exec = 0
    BY <1>3, NoSalePending DEF NoneBeside, NoSale
  <2>2. /\ row.list \in Lists /\ ListOK(row.list)
        /\ lists[row.list].qty = row.qty + (row.applied - row.from)
    BY <1>3, RowShape DEF Data, RowOK, ListsFit, ListsOK
  <2>3. Executed(row.list) <= lists[row.list].qty
    <3>1. /\ lists[row.list].legs["tp"].exec \in Nat
          /\ lists[row.list].legs["sl"].exec \in Nat
          /\ lists[row.list].qty \in Nat
      BY <2>2, ListShape, NoListShape DEF Data, Qty
    <3> QED BY <2>2, <3>1 DEF ListOK, Executed, Legs
  <2>4. Untold <= row.qty
    BY <1>3, <2>2, <2>3, UntoldShape, Numbers DEF Data
  <2> QED BY <1>1, <1>3, <2>1, <2>4, UntoldShape, Numbers DEF Data
<1> QED BY <1>2, <1>3

\* The same of the next state.
LEMMA NextIsCounted == (Data /\ Control /\ ~lapsed => base >= InitialBase)'
<1>1. Data /\ Control /\ ~lapsed => base >= InitialBase
  BY HeldIsCounted
<1> QED BY <1>1, PTL

\* No list can sell while the row names none.
LEMMA NoneSelling ==
    ASSUME Data, ~lapsed, row.list = NoList
    PROVE  ~Selling
BY OnlyTheNamed, NoListShape DEF Selling

LEMMA SellerKept ==
    ASSUME UNCHANGED <<lists, sale>>
    PROVE  Seller' = Seller
BY DEF Seller, Selling, Outstanding

\* A list starts to sell when its request leaves.
LEMMA MapPlace ==
    ASSUME Data, Control, ~lapsed, Place \/ Send
    PROVE  Mapped
<1>1. CASE Place
  <2>1. PICK l \in Lists :
          /\ lists[l].state = "NONE"
          /\ lists' = [lists EXCEPT ![l].state = "MINTED", ![l].qty = row.qty]
    BY <1>1 DEF Place
  <2>2. /\ lists'[l].state = "MINTED"
        /\ \A k \in Lists \ {l} : lists'[k] = lists[k]
    BY <2>1 DEF Data, DataType, ListState
  <2>3. Selling' <=> Selling
    BY <2>1, <2>2 DEF Selling, Outstanding
  <2> QED BY <1>1, <2>3, Stutters DEF Place, Seller
<1>2. CASE Send
  <2>1. /\ row.list # NoList /\ row.list \in Lists /\ lists[row.list].state = "MINTED"
        /\ sale = NoSale
    BY <1>2, Standing, NoSalePending DEF Send, Control, SeenOK, NoneBeside
  <2>2. ~Selling
    BY <2>1, OnlyTheNamed DEF Selling, Outstanding
  <2>3. lists'[row.list].state = "INFLIGHT"
    BY <1>2, <2>1 DEF Send, Data, DataType, ListState
  <2>4. Selling'
    BY <2>1, <2>3 DEF Selling, Outstanding
  <2>5. Seller = "none" /\ Seller' = "list"
    BY <2>1, <2>2, <2>4 DEF Seller, NoSale
  <2>6. base > InitialBase
    <3>1. lists[row.list].legs = FreshLegs
      BY <2>1 DEF Data, ListsOK, ListOK
    <3>2. Executed(row.list) = 0
      BY <3>1 DEF Executed, FreshLegs, Legs
    <3>3. row.applied <= row.from + 0 /\ row.from <= row.applied /\ row.open
      BY <2>1, <3>2, Standing DEF Data, RowOK
    <3>4. row.qty > 0
      BY <3>3 DEF Data, RowOK
    <3>5. Untold = 0
      BY <2>1, <3>2, <3>3, UntoldShape, Numbers DEF Data
    <3>6. base + 0 + 0 = InitialBase + row.qty
      BY <2>1, <3>5 DEF Data, LedgerExact, NoSale
    <3> QED BY <3>4, <3>6, Numbers DEF Data
  <2> QED BY <1>2, <2>5, <2>6, Numbers, Offers DEF Send, Data
<1> QED BY <1>1, <1>2

\* A list that ends or is lost sells no more; no SELL takes its place at once.
LEMMA MapListEnds ==
    ASSUME Data, Control, ~lapsed, UNCHANGED <<base, sale>>, Selling' => Selling
    PROVE  Mapped
<1>1. CASE Selling' <=> Selling
  BY <1>1, Stutters DEF Seller
<1>2. CASE Selling /\ ~Selling'
  <2>1. sale = NoSale
    BY <1>2, OnlyTheNamed, NoListShape, NoSalePending DEF Selling, NoneBeside
  <2>2. Seller = "list" /\ Seller' = "none"
    BY <1>2, <2>1 DEF Seller, NoSale
  <2> QED BY <2>2, Withdraws
<1> QED BY <1>1, <1>2

\* A bought position is acquired with nothing held and nobody selling.
LEMMA MapOpen ==
    ASSUME Data, Control, ~lapsed, Enter \/ RecoverBuy
    PROVE  Mapped
<1>1. PICK q \in Qty \ {0} : OpenPosition(q)
  BY DEF Enter, RecoverBuy
<1>2. UNCHANGED <<lists, sale>>
  BY DEF Enter, RecoverBuy
<1>3. row = FlatRow /\ sale = NoSale
  BY <1>1 DEF OpenPosition, HasUnresolved, Data, RowOK
<1>4. row.list = NoList /\ row.qty = 0 /\ sale.exec = 0 /\ sale.state = "NONE"
  BY <1>3 DEF FlatRow, NoSale
<1>5. Seller = "none" /\ Seller' = "none"
  BY <1>2, <1>4, NoneSelling, SellerKept DEF Seller
<1>6. base = InitialBase
  BY <1>4, HeldIsCounted, Numbers DEF Data
<1>7. q \in Nat \ {0} /\ base' = base + q
  BY <1>1, NoListShape DEF Qty, OpenPosition
<1> QED BY <1>5, <1>6, <1>7, Acquires

\* A SELL is offered, executes, ends and is booked.
LEMMA MapSale ==
    ASSUME Data, Control, ~lapsed, Data', Control', ~lapsed',
           SubmitSell \/ SaleExecutes \/ SaleEnds \/ SellSettled \/ RecoverSale
    PROVE  Mapped
<1>1. CASE SubmitSell
  <2>1. sale = NoSale /\ row.list = NoList /\ row.open
    BY <1>1, NoSalePending DEF SubmitSell, Control, SeenOK, NoneBeside
  <2>2. ~Selling /\ UNCHANGED <<lists, base>> /\ sale'.state = "SENT"
    BY <1>1, <2>1, NoneSelling DEF SubmitSell, exchange
  <2>3. Seller = "none" /\ Seller' = "market"
    BY <2>1, <2>2 DEF Seller, Selling, Outstanding, NoSale
  <2>4. row.qty > 0 /\ sale.exec = 0
    BY <2>1 DEF Data, RowOK, NoSale
  <2>5. base > InitialBase /\ base \in Nat
    BY <2>1, <2>4, HeldIsCounted, Numbers DEF Data
  <2> QED BY <2>2, <2>3, <2>5, Offers
<1>2. CASE SaleExecutes
  <2>1. row.list = NoList /\ sale.state = "SENT"
    BY <1>2 DEF SaleExecutes, HasUnresolved, NoSale, Control, SaleOK,
       SalePending
  <2>2. sale'.state = "SENT" /\ UNCHANGED lists
    BY <1>2, <2>1 DEF SaleExecutes, Data, DataType, SaleType
  <2>3. ~Selling
    BY <2>1, NoneSelling
  <2>4. Seller = "market" /\ Seller' = "market"
    BY <2>1, <2>2, <2>3 DEF Seller, Selling, Outstanding
  <2>5. base' < base /\ base \in Nat /\ base' \in Nat
    <3>1. PICK q \in Qty \ {0} : q <= base /\ base' = base - q
      BY <1>2 DEF SaleExecutes
    <3> QED BY <3>1, Numbers, NoListShape DEF Data, Qty
  <2>6. base' >= InitialBase
    BY NextIsCounted
  <2> QED BY <2>4, <2>5, <2>6, Sells
<1>3. CASE SaleEnds
  <2>1. row.list = NoList /\ sale.state = "SENT"
    BY <1>3 DEF SaleEnds, HasUnresolved, NoSale, Control, SaleOK, SalePending
  <2>2. sale'.state = "OVER" /\ UNCHANGED <<lists, base>>
    BY <1>3, <2>1 DEF SaleEnds, exchange, Data, DataType, SaleType
  <2>3. ~Selling
    BY <2>1, NoneSelling
  <2>4. Seller = "market" /\ Seller' = "none"
    BY <2>1, <2>2, <2>3 DEF Seller, Selling, Outstanding
  <2> QED BY <2>2, <2>4, Withdraws
<1>4. CASE SellSettled \/ RecoverSale
  <2>1. sale.state = "OVER" /\ sale' = NoSale /\ UNCHANGED <<lists, base>>
    BY <1>4 DEF SellSettled, RecoverSale, SettleSale, exchange
  <2>2. Seller' = Seller
    BY <2>1 DEF Seller, Selling, Outstanding, NoSale
  <2> QED BY <2>1, <2>2, Stutters
<1> QED BY <1>1, <1>2, <1>3, <1>4

\* The exchange decides about a list and executes it.
LEMMA MapList ==
    ASSUME Data, Control, ~lapsed, Data', Control', ~lapsed', NEW l \in Lists, ListStep(l)
    PROVE  Mapped
<1>1. CASE Accept(l)
  <2>1. /\ lists[l].state = "INFLIGHT" /\ lists'[l].state = "ACCEPTED"
        /\ lists'[l].legs = lists[l].legs
        /\ \A k \in Lists \ {l} : lists'[k] = lists[k]
    BY <1>1 DEF Accept, Data, DataType, ListState
  <2>2. lists[l].legs = FreshLegs
    BY <2>1 DEF Data, ListsOK, ListOK
  <2>3. Outstanding(l) /\ Outstanding(l)'
    BY <2>1, <2>2 DEF Outstanding, FreshLegs, Legs, Sibling, Active
  <2>4. Selling /\ Selling'
    BY <2>3 DEF Selling
  <2> QED BY <1>1, <2>4, MapListEnds DEF Accept
<1>2. CASE Lose(l)
  <2>1. /\ lists[l].state = "INFLIGHT"
        /\ \A k \in Lists \ {l} : lists'[k] = lists[k]
    BY <1>2 DEF Lose, Data, DataType, ListState
  <2>2. Selling
    BY <2>1 DEF Selling, Outstanding
  <2> QED BY <1>2, <2>2, MapListEnds DEF Lose
<1>3. ASSUME NEW g \in Legs, FillLeg(l, g) PROVE Mapped
  <2>1. Selling
    BY <1>3 DEF FillLeg, Selling, Outstanding
  <2>2. sale = NoSale /\ sale' = sale
    BY <1>3, <2>1, OnlyTheNamed, NoListShape, NoSalePending
       DEF Selling, FillLeg, NoneBeside
  <2>3. Seller = "list" /\ Seller' \in {"list", "none"}
    BY <2>1, <2>2 DEF Seller, NoSale
  <2>4. base' < base /\ base \in Nat /\ base' \in Nat
    <3>1. PICK q \in Qty \ {0} : q <= base /\ base' = base - q
      BY <1>3 DEF FillLeg
    <3> QED BY <3>1, Numbers, NoListShape DEF Data, Qty
  <2>5. base' >= InitialBase
    BY NextIsCounted
  <2> QED BY <2>3, <2>4, <2>5, Sells
<1>4. ASSUME NEW g \in Legs, EndLeg(l, g) PROVE Mapped
  <2> DEFINE legs == [lists[l].legs EXCEPT ![g].status = "CANCELED"]
  <2>1. lists[l].legs \in [Legs -> LegState] /\ lists \in [Lists -> ListState]
    BY ListShape DEF Data, DataType
  <2>2. /\ legs \in [Legs -> LegState]
        /\ \A h \in Legs : /\ legs[h].exec = lists[l].legs[h].exec
                           /\ legs[h].status \in {lists[l].legs[h].status, "CANCELED"}
    BY <2>1 DEF LegState, LegStatus
  <2>3. lists[l].state = "ACCEPTED" /\ lists' = [lists EXCEPT ![l].legs = legs]
    BY <1>4, <2>1 DEF EndLeg, ListState
  <2> HIDE DEF legs
  <2>4. \A k \in Lists : ~Outstanding(k) => ~Outstanding(k)'
    BY <1>4, <2>2, <2>3, DataLegsEnd DEF EndLeg
  <2>5. Selling' => Selling
    BY <2>4 DEF Selling
  <2> QED BY <1>4, <2>5, MapListEnds DEF EndLeg
<1> QED BY <1>1, <1>2, <1>3, <1>4 DEF ListStep

\* A cancelled list sells no more.
LEMMA MapCancelList ==
    ASSUME Data, Control, ~lapsed, CancelList
    PROVE  Mapped
<1> DEFINE legs == CancelledLegs(row.list)
<1>1. row.list \in Lists /\ lists \in [Lists -> ListState]
  BY Standing DEF CancelList, Control, SeenOK, Data, DataType
<1>2. lists' = [lists EXCEPT ![row.list].legs = legs]
  BY DEF CancelList
<1>3. \A g \in Legs : legs[g].status \notin Active
  <2>1. lists[row.list].legs \in [Legs -> LegState]
    BY <1>1, ListShape DEF Data
  <2> QED BY <2>1 DEF CancelledLegs, LegState, Active
<1> HIDE DEF legs
<1>4. /\ lists'[row.list].legs = legs /\ lists'[row.list].state = "ACCEPTED"
      /\ \A k \in Lists \ {row.list} : lists'[k] = lists[k]
  BY <1>1, <1>2 DEF CancelList, Live, ListState
<1>5. ~Outstanding(row.list)'
  <2>1. row' = row
    BY DEF CancelList
  <2> QED BY <1>3, <1>4, <2>1 DEF Outstanding
<1>6. Selling' => Selling
  BY <1>4, <1>5 DEF Selling, Outstanding, CancelList
<1> QED BY <1>6, MapListEnds DEF CancelList

LEMMA MapNext ==
    ASSUME Data, Control, Data', Control', ~lapsed', [Next]_vars
    PROVE  Mapped
<1>0. ~lapsed
  BY LapseStays DEF Data, DataType
<1>1. ASSUME UNCHANGED <<lists, base, sale>> PROVE Mapped
  BY <1>1, SellerKept, Stutters
<1>2. CASE PlaceStep
  <2>1. CASE \/ PlaceFails \/ PlaceAnswered \/ LookupFails \/ ConfirmRejects
             \/ ConfirmActive \/ ConfirmTerminal \/ PlaceClosed \/ PlaceRearms
             \/ PlaceGivesUp
    BY <1>1, <2>1 DEF PlaceFails, PlaceAnswered, LookupFails, ConfirmRejects,
       ConfirmActive, ConfirmTerminal, PlaceClosed, PlaceRearms, PlaceGivesUp, exchange
  <2> QED BY <1>0, <1>2, <2>1, MapPlace DEF PlaceStep
<1>3. CASE FillStep
  BY <1>1, <1>3 DEF FillStep, QueryList, QueryListFails, AnswerRejected, QueryLeg,
     LegsQuiet, LegsTorn, LegsExecuted, BookFill, BookFillTorn, exchange
<1>4. CASE ExitStep
  <2>1. CASE \/ StartExit \/ ExitFilled \/ ExitChecked \/ Hold \/ HoldAndRearm
             \/ HoldAndPlace \/ ExitDue \/ CancelFails \/ CancelChecked
             \/ CancelRefused \/ AbandonSell \/ SellUncertain
    BY <1>1, <2>1 DEF StartExit, ExitFilled, ExitChecked, Hold, HoldAndRearm,
       HoldAndPlace, ExitDue, CancelFails, CancelChecked, CancelRefused, AbandonSell,
       SellUncertain, exchange
  <2> QED BY <1>0, <1>4, <2>1, MapSale, MapCancelList DEF ExitStep
<1>5. CASE StartStep \/ Enter
  <2>1. CASE \/ StartUp \/ OrdersReconciled \/ StartFlat \/ StartVerify \/ StartInstall
             \/ Verified \/ VerifiedTerminal
    BY <1>1, <2>1 DEF StartUp, OrdersReconciled, StartFlat, StartVerify, StartInstall,
       Verified, VerifiedTerminal, exchange
  <2> QED BY <1>0, <1>5, <2>1, MapOpen, MapSale DEF StartStep
<1>6. CASE Cancel \/ Crash \/ RateMoves \/ UNCHANGED vars
  BY <1>1, <1>6 DEF Cancel, Crash, RateMoves, vars, exchange
<1> QED BY <1>0, <1>2, <1>3, <1>4, <1>5, <1>6, MapSale, MapList
        DEF Next, BrokerStep, ExchangeStep

\* One seller at a time sells what the bot bought and no more: up to a lapse,
\* protection, with its crashes, lost requests and races, implements the
\* position discipline.
THEOREM ProtectionRefinement == Spec => ImplementsDiscipline
<1>1. Init => Discipline!Init
  <2> SUFFICES ASSUME Init PROVE Discipline!Init
    OBVIOUS
  <2>1. Data /\ ~lapsed
    BY InitInvariant, Parts DEF Init
  <2>2. row.list = NoList /\ base = InitialBase /\ sale.state = "NONE"
    BY DEF Init, FlatRow, NoSale
  <2>3. ~Selling /\ base - InitialBase = 0
    BY <2>1, <2>2, NoneSelling, NoListShape
  <2> QED BY <2>2, <2>3 DEF Discipline!Init, Selling
<1>2. IInv /\ IInv' /\ [Next]_vars => lapsed' \/ Mapped
  <2>1. Data /\ Control /\ Data' /\ Control' /\ [Next]_vars => lapsed' \/ Mapped
    BY MapNext
  <2> QED BY <2>1, Parts, PTL
<1>3. lapsed' \/ Mapped => [Discipline!Next \/ lapsed']_(Discipline!vars)
  BY DEF Mapped, Held, Seller, Selling, Discipline!vars
<1> QED BY <1>1, <1>2, <1>3, ProtectionInvariance, PTL DEF Spec, ImplementsDiscipline

=============================================================================
