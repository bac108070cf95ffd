------------------------ MODULE ValidationToolProofs ------------------------
(***************************************************************************)
(* What ValidationTool guarantees for any number of lists, any quantities  *)
(* and any commission: "ok" is said only of an account that is as it was,  *)
(* or of a position that is all there and has its list.                    *)
(*                                                                         *)
(* The Broker's steps keep the invariant of Protection, and no command     *)
(* runs the start-up in which a lapse can happen.  What is left to prove   *)
(* is where a command stands while the Broker works for it.                *)
(***************************************************************************)
EXTENDS ValidationTool, ProtectionProofs

ToolShape ==
    /\ cmd \in Commands \cup {"none"}
    /\ at \in {"none", "checks", "enter", "entering", "verify", "ready",
               "reconciling", "due", "closing"}
    /\ buy \in [state : {"NONE", "SENT", "OVER"}, req : Qty, exec : Qty]
    /\ report \in Commands \cup {"none", "failed"}

\* Where the command is, whatever the account holds.
CommandInv == ToolShape /\ CommandOK /\ VerifyOK /\ ReportOK

\* What the account holds: the Broker's, or a BUY in doubt.
AccountInv ==
    /\ ~lapsed
    /\ IF buy = NoSale THEN Data /\ Control ELSE DataType /\ ControlType /\ BuyAlone

\* The invariant, as what the command is at and what the account holds.
LEMMA ToolParts == ToolIInv <=> CommandInv /\ AccountInv
<1>1. IInv <=> Data /\ Control
  BY Parts
<1>2. TypeOK <=> DataType /\ ControlType
  BY DEF TypeOK, DataType, ControlType, SaleType
<1>3. Data /\ Control => DataType /\ ControlType
  BY DEF Data, Control
<1>4. ToolTypeOK <=> TypeOK /\ ToolShape
  BY DEF ToolTypeOK, ToolShape
<1> QED BY <1>1, <1>2, <1>3, <1>4 DEF ToolIInv, CommandInv, AccountInv

\* The same of the next state.
LEMMA NextToolParts == (ToolIInv <=> CommandInv /\ AccountInv)'
<1>1. ToolIInv <=> CommandInv /\ AccountInv
  BY ToolParts
<1> QED BY <1>1, PTL

-----------------------------------------------------------------------------
(* The account. *)

\* What the commands have the Broker do.
BrokerCall == PlaceStep \/ FillStep \/ ExitStep \/ Enter

\* The Broker's steps keep its invariant, and none is a lapse: only start-up
\* places a list while a SELL is pending.
LEMMA CallSteps ==
    ASSUME Data, Control, ~lapsed, call # "install", BrokerCall
    PROVE  Data' /\ Control' /\ ~lapsed'
<1>1. Data' /\ Control'
  BY PlaceSteps, FillSteps, ExitSteps, OpenSteps DEF BrokerCall
<1>2. CASE Place
  <2>1. ~HasUnresolved
    BY <1>2 DEF Place, Control, SaleOK, SalePending
  <2> QED BY <1>1, <1>2, <2>1 DEF Place
<1>3. CASE ~Place
  <2>1. Next
    BY DEF BrokerCall, Next, BrokerStep
  <2> QED BY <1>1, <1>3, <2>1, OnlyPlaceLapses
<1> QED BY <1>2, <1>3

\* A command that dies leaves the data and forgets the rest.
LEMMA DieStep ==
    ASSUME Data, Control, Die
    PROVE  Data' /\ Control'
<1>1. Data'
  BY DataSame DEF Die, exchange
<1>2. ControlType'
  BY NotSeenType DEF Die, Control, ControlType
<1>3. SaleOK'
  BY DEF Die, exchange, Control, SaleOK, SalePending, HasUnresolved, NoSale
<1>4. SeenOK' /\ CallOK'
  BY DEF Die, SeenOK, CallOK, Answered, Legs
<1> QED BY <1>1, <1>2, <1>3, <1>4 DEF Control

\* Every call of the Broker is one of Protection's steps.
LEMMA CommandCalls ==
    ASSUME \/ StartEnter \/ StartProbe \/ StartReconciling \/ StartClosing
           \/ CallReturns \/ CallRaises \/ CallGoesOn
    PROVE  BrokerCall
<1>1. CASE StartEnter \/ StartProbe \/ StartReconciling \/ StartClosing
  BY <1>1 DEF StartEnter, StartProbe, StartReconciling, StartClosing, BrokerCall, ExitStep
<1>2. CASE CallGoesOn
  BY <1>2 DEF CallGoesOn, BrokerCall, PlaceStep, FillStep, ExitStep
<1>3. CASE CallRaises
  BY <1>3 DEF CallRaises, BrokerCall, PlaceStep, FillStep, ExitStep
<1>4. CASE CallReturns
  BY <1>4 DEF CallReturns, BrokerCall, PlaceStep, ExitStep
<1> QED BY <1>1, <1>2, <1>3, <1>4

\* Nothing of a list that is over can execute: a BUY in doubt stays alone.
LEMMA MarketAside ==
    ASSUME DataType, ControlType, BuyAlone, Market
    PROVE  DataType' /\ ControlType' /\ BuyAlone'
<1>1. UNCHANGED <<row, control, lapsed, tool>>
  BY DEF Market, ExchangeStep, RateMoves, SaleExecutes, SaleEnds, ListStep, Accept, Lose,
         FillLeg, EndLeg
<1>2. sale.state = "NONE"
  BY DEF BuyAlone, NoSale
<1>3. ControlType'
  BY <1>1 DEF control, ControlType
<1>4. CASE RateMoves
  BY <1>1, <1>3, <1>4 DEF RateMoves, DataType, BuyAlone, Over, Outstanding, control, tool
<1>5. ASSUME NEW l \in Lists, ListStep(l)
      PROVE  DataType' /\ BuyAlone'
  <2>1. lists[l].state = "NONE" \/ Over(l)
    BY DEF BuyAlone
  <2>2. lists[l].state \in {"NONE", "ACCEPTED"}
    BY <2>1 DEF Over
  <2>3. PICK g \in Legs : EndLeg(l, g)
    <3>1. ~Accept(l) /\ ~Lose(l)
      BY <2>2 DEF Accept, Lose
    <3>2. ASSUME NEW g \in Legs PROVE ~FillLeg(l, g)
      BY <2>1 DEF Over, FillLeg, Outstanding
    <3> QED BY <1>5, <3>1, <3>2 DEF ListStep
  <2>4. /\ lists \in [Lists -> ListState] /\ lists[l] \in ListState
        /\ lists[l].legs \in [Legs -> LegState]
    BY ListShape DEF DataType
  <2> DEFINE legs == [lists[l].legs EXCEPT ![g].status = "CANCELED"]
  <2>5. /\ legs \in [Legs -> LegState]
        /\ \A h \in Legs : /\ legs[h].exec = lists[l].legs[h].exec
                           /\ legs[h].status \in {lists[l].legs[h].status, "CANCELED"}
    BY <2>4 DEF LegState, LegStatus
  <2>6. /\ lists' = [lists EXCEPT ![l].legs = legs]
        /\ UNCHANGED <<row, base, rate, sale, lapsed>>
    BY <2>3, <2>4 DEF EndLeg, ListState
  <2> HIDE DEF legs
  <2>7. /\ lists' \in [Lists -> ListState]
        /\ lists'[l].state = lists[l].state /\ lists'[l].legs = legs
        /\ \A k \in Lists \ {l} : lists'[k] = lists[k]
    BY <2>4, <2>5, <2>6 DEF ListState
  <2>8. ASSUME NEW k \in Lists PROVE lists'[k].state = "NONE" \/ Over(k)'
    <3>1. lists[k].state = "NONE" \/ Over(k)
      BY DEF BuyAlone
    <3>2. CASE k # l
      BY <2>7, <3>1, <3>2 DEF Over, Outstanding
    <3>3. CASE k = l
      <4>1. \A h \in Legs : Sibling(h) \in Legs
        BY DEF Legs, Sibling
      <4> QED BY <2>5, <2>7, <3>1, <3>3, <4>1 DEF Over, Outstanding, Active
    <3> QED BY <3>2, <3>3
  <2> QED BY <1>1, <2>6, <2>7, <2>8 DEF DataType, BuyAlone, control, tool
<1>6. ~SaleExecutes /\ ~SaleEnds
  BY <1>2 DEF SaleExecutes, SaleEnds
<1> QED BY <1>3, <1>4, <1>5, <1>6 DEF Market, ExchangeStep

-----------------------------------------------------------------------------
(* The commands. *)

\* A command that ends says "ok" where what it says of the row is true.
LEMMA Ends ==
    ASSUME ToolShape, NEW ok \in BOOLEAN,
           cmd' = "none" /\ at' = "none" /\ report' = IF ok THEN cmd ELSE "failed",
           buy' \in [state : {"NONE", "SENT", "OVER"}, req : Qty, exec : Qty],
           pc' = "idle", call' \in {"none", "enter", "exit"},
           ok /\ cmd \in Leavers => Whole' /\ lists'[row'.list].state = "ACCEPTED",
           ok /\ cmd \notin Leavers => ~row'.open /\ (buy' # NoSale => cmd = "resume")
    PROVE  CommandInv'
<1>1. ToolShape'
  BY DEF ToolShape
<1>2. CommandOK' /\ VerifyOK'
  BY DEF CommandOK, VerifyOK
<1>3. ReportOK'
  BY DEF ReportOK, Commands, Openers, Recovers, Leavers
<1> QED BY <1>1, <1>2, <1>3 DEF CommandInv

\* A command goes on to a point between two calls of the Broker.
LEMMA Continues ==
    ASSUME ToolShape, cmd # "none", report = "none",
           NEW point \in {"enter", "verify", "ready", "due"}, GoOn(point),
           pc' = "idle", call' \in {"none", "enter", "exit"},
           point = "enter" => cmd \in Openers /\ ~row'.open,
           point = "verify" => cmd \in Openers /\ Whole',
           point \in {"ready", "due"} => cmd \notin Leavers
    PROVE  CommandInv'
<1>1. at' = point /\ cmd' = cmd /\ buy' = buy /\ report' = "none"
  BY DEF GoOn
<1>2. ToolShape'
  BY <1>1 DEF ToolShape
<1>3. CommandOK' /\ VerifyOK'
  BY <1>1 DEF CommandOK, VerifyOK
<1>4. ReportOK'
  BY <1>1 DEF ReportOK, Commands, Openers, Recovers, Leavers
<1> QED BY <1>2, <1>3, <1>4 DEF CommandInv

\* While the Broker works for a command, the command has not reported.
LEMMA AtWork ==
    ASSUME CommandInv, at # "none" \/ pc # "idle"
    PROVE  /\ cmd # "none" /\ report = "none"
           /\ pc # "idle" => at \in {"entering", "verify", "reconciling", "closing"}
BY DEF CommandInv, CommandOK, ReportOK

\* Inside a call the command stays where it is, and so does what it counts on.
LEMMA Inside ==
    ASSUME CommandInv, UNCHANGED tool, pc # "idle" /\ pc' # "idle", call' = call,
           pc' \in {"send", "sent", "lookup", "confirm"} => row'.applied = row'.from,
           pc' = "fills" => SeenExecuted' > 0,
           at = "verify" =>
             /\ pc' # "filled" => Whole'
             /\ stage' = "check"
             /\ pc' \in Legs \cup {"list", "legs", "fills", "filled", "quiet"}
    PROVE  CommandInv'
<1>1. UNCHANGED <<cmd, at, buy, report>>
  BY DEF tool
<1>2. ToolShape'
  BY <1>1 DEF CommandInv, ToolShape
<1>3. /\ cmd # "none" /\ report = "none"
      /\ at \in {"entering", "verify", "reconciling", "closing"}
  BY AtWork
<1>4. CommandOK'
  BY <1>1, <1>3 DEF CommandInv, CommandOK
<1>5. VerifyOK'
  BY <1>1, <1>3 DEF CommandInv, VerifyOK
<1>6. ReportOK'
  BY <1>1, <1>3 DEF ReportOK, Commands, Openers, Recovers, Leavers
<1> QED BY <1>2, <1>4, <1>5, <1>6 DEF CommandInv

\* The row keeps what the command counts on.
LEMMA SameWhole ==
    ASSUME DataType, row' = row \/ \E s : SetStatus(s)
    PROVE  /\ Whole' <=> Whole
           /\ row'.applied = row'.from <=> row.applied = row.from
BY DEF SetStatus, DataType, RowType, Whole

\* A call that goes on keeps what the command counts on.
LEMMA GoesOn ==
    ASSUME Data, Control, CommandInv, CallGoesOn
    PROVE  CommandInv'
<1>1. UNCHANGED tool
  BY DEF CallGoesOn
<1>2. at = "verify" /\ pc # "idle" =>
        /\ pc # "filled" => Whole
        /\ call = "exit" /\ stage = "check"
        /\ pc \in Legs \cup {"list", "legs", "fills", "filled", "quiet"}
  BY DEF CommandInv, VerifyOK
<1>3. /\ pc \in {"send", "sent", "lookup", "confirm"} => row.applied = row.from
      /\ pc = "fills" => SeenExecuted > 0
  BY DEF CommandInv, CommandOK
<1>4. DataType
  BY DEF Data
<1>5. CASE Place
  <2>1. row'.applied = row'.from
    BY <1>4, <1>5 DEF Place, NewIdentity, DataType, RowType
  <2>2. pc = "place" /\ pc' = "send" /\ call' = call
    BY <1>5 DEF Place, Goto
  <2> QED BY <1>1, <1>2, <2>1, <2>2, Inside DEF Legs
<1>6. CASE Send \/ PlaceFails \/ PlaceAnswered
  <2>1. /\ pc \in {"send", "sent", "lookup"} /\ pc' \in {"sent", "lookup", "confirm"}
        /\ call' = call /\ row' = row
    BY <1>6 DEF Send, PlaceFails, PlaceAnswered, Goto
  <2> QED BY <1>1, <1>2, <1>3, <2>1, Inside DEF Legs
<1>7. CASE ConfirmTerminal \/ PlaceRearms
  <2>1. /\ pc = "confirm" \/ stage = "place"
        /\ pc \in {"confirm", "filled", "quiet"} /\ pc' \in {"list", "place"}
        /\ call' = call
    BY <1>7 DEF ConfirmTerminal, PlaceRearms, AskFill, Rearm
  <2> QED BY <1>1, <1>2, <2>1, Inside DEF Legs
<1>8. CASE QueryList
  <2>1. /\ pc = "list" /\ pc' = "tp" /\ call' = call /\ stage' = stage
        /\ SetStatus(ListStatus(row.list))
    BY <1>8 DEF QueryList
  <2>2. Whole' <=> Whole
    BY <1>4, <2>1, SameWhole
  <2> QED BY <1>1, <1>2, <2>1, <2>2, Inside DEF Legs
<1>9. ASSUME NEW g \in Legs, QueryLeg(g) PROVE CommandInv'
  <2>1. /\ pc \in Legs /\ pc' \in {"sl", "legs"} /\ call' = call /\ stage' = stage
        /\ row' = row
    BY <1>9 DEF QueryLeg
  <2>2. Whole' <=> Whole
    BY <1>4, <2>1, SameWhole
  <2> QED BY <1>1, <1>2, <2>1, <2>2, Inside DEF Legs
<1>10. CASE LegsQuiet \/ LegsExecuted
  <2>1. /\ pc = "legs" /\ pc' \in {"quiet", "fills"} /\ call' = call /\ stage' = stage
        /\ row' = row /\ seen' = seen
        /\ pc' = "fills" => SeenExecuted > 0
    BY <1>10 DEF LegsQuiet, LegsExecuted, Goto
  <2>2. (Whole' <=> Whole) /\ SeenExecuted' = SeenExecuted
    BY <1>4, <2>1, SameWhole DEF SeenExecuted
  <2> QED BY <1>1, <1>2, <2>1, <2>2, Inside DEF Legs
<1>11. CASE BookFill
  <2>1. /\ pc = "fills" /\ pc' \in {"filled", "quiet"} /\ call' = call /\ stage' = stage
        /\ row.applied < Total => pc' = "filled"
    BY <1>11 DEF BookFill, FillsAgree, Goto
  <2>2. ASSUME Whole PROVE row.applied < Total
    <3>1. row.from \in Nat /\ seen.legs \in [Legs -> LegState]
      BY RowShape, NoListShape DEF Data, Qty, Control, ControlType
    <3>2. SeenExecuted \in Nat /\ SeenExecuted > 0
      <4>1. seen.legs["tp"].exec \in Nat /\ seen.legs["sl"].exec \in Nat
        BY <3>1, NoListShape DEF LegState, Legs, Qty
      <4> QED BY <1>3, <2>1, <4>1 DEF SeenExecuted
    <3> QED BY <2>2, <3>1, <3>2 DEF Total, Whole
  <2> QED BY <1>1, <1>2, <2>1, <2>2, Inside DEF Legs
<1>12. CASE at # "verify" /\ ExitChecked
  <2>1. pc = "quiet" /\ pc' = "decide" /\ call' = call
    BY <1>12 DEF ExitChecked
  <2> QED BY <1>1, <1>12, <2>1, Inside
<1>13. CASE \/ HoldAndRearm \/ HoldAndPlace \/ ExitDue
            \/ CancelList \/ CancelFails \/ CancelChecked \/ SubmitSell
  <2>1. /\ \/ pc \in {"decide", "cancel", "balance"}
           \/ pc = "quiet" /\ stage \in {"cancel", "uncancelled"}
        /\ pc' \in {"place", "balance", "cancel", "list", "sell"} /\ call' = call
    BY <1>13 DEF HoldAndRearm, HoldAndPlace, ExitDue, CancelList, CancelFails,
                 CancelChecked, SubmitSell, Rearm, Goto, AskFill
  <2> QED BY <1>1, <1>2, <2>1, Inside DEF Legs
<1> QED BY <1>5, <1>6, <1>7, <1>8, <1>9, <1>10, <1>11, <1>12, <1>13 DEF CallGoesOn

\* The Broker's call is over, and with it nothing stays of its own state.
LEMMA CallOver ==
    ASSUME Control, CommandInv, NEW ok, Leave(ok)
    PROVE  pc' = "idle" /\ call' = "none"
BY DEF Leave, CommandInv, CommandOK

\* A call that raises ends the command, which says "failed".
LEMMA Raises ==
    ASSUME Data, Control, CommandInv, buy = NoSale, CallRaises
    PROVE  CommandInv' /\ buy' = buy
<1>1. pc' = "idle" /\ call' = "none"
  <2>1. \E ok \in BOOLEAN : Leave(ok)
    BY DEF CallRaises, LookupFails, ConfirmRejects, PlaceGivesUp, QueryListFails,
           AnswerRejected, LegsTorn, BookFillTorn, CancelRefused, AbandonSell,
           SellUncertain, Unverified
  <2> QED BY <2>1, CallOver
<1>2. End(FALSE)
  BY DEF CallRaises
<1> QED BY <1>1, <1>2, Ends DEF End, CommandInv, ToolShape

\* A call that returns to the opener has placed a list, or found the position
\* sold; one that returns to the others is judged by the row.
LEMMA Returns ==
    ASSUME Data, Control, CommandInv, buy = NoSale, CallReturns
    PROVE  CommandInv' /\ buy' = buy
<1>1. pc # "idle" /\ pc' = "idle" /\ call' = "none"
  <2>1. Leave(TRUE) \/ Leave(call = "verify")
    BY DEF CallReturns, ConfirmActive, PlaceClosed, ExitFilled, Hold, AbandonSell,
           SellSettled
  <2>2. pc' = "idle" /\ call' = "none"
    BY <2>1, CallOver
  <2>3. pc # "idle"
    BY DEF CallReturns, ConfirmActive, PlaceClosed, ExitFilled, Hold, AbandonSell,
           SellSettled
  <2> QED BY <2>2, <2>3
<1>2. /\ cmd # "none" /\ report = "none"
      /\ at \in {"entering", "verify", "reconciling", "closing"}
  BY <1>1, AtWork
<1>3. PICK b \in BOOLEAN : Returned(b)
  BY DEF CallReturns
<1>4. ToolShape
  BY DEF CommandInv
<1>5. CASE at = "entering"
  <2>1. call = "enter" /\ cmd \in Openers
    BY <1>5 DEF CommandInv, CommandOK
  <2>2. ConfirmActive \/ PlaceClosed
    BY <2>1 DEF CallReturns, ExitFilled, Hold, AbandonSell, SellSettled, Control, CallOK
  <2>3. Entered
    BY <1>3, <1>5 DEF Returned
  <2>4. row'.list # NoList => Whole'
    <3>1. CASE ConfirmActive
      <4>1. row.list # NoList /\ row.applied = row.from
        BY <3>1 DEF ConfirmActive, Control, SeenOK, CommandInv, CommandOK
      <4>2. Whole
        BY <4>1, Standing DEF Whole
      <4> QED BY <3>1, <4>2, SameWhole DEF ConfirmActive, Data
    <3>2. CASE PlaceClosed
      BY <3>2 DEF PlaceClosed, Data, RowOK, FlatRow
    <3> QED BY <2>2, <3>1, <3>2
  <2>5. CASE row'.list = NoList
    BY <1>1, <1>4, <2>3, <2>5, Ends DEF Entered, End, ToolShape
  <2>6. CASE row'.list # NoList
    BY <1>1, <1>2, <1>4, <2>1, <2>3, <2>4, <2>6, Continues DEF Entered, GoOn
  <2> QED BY <2>5, <2>6, <1>4 DEF Entered
<1>6. CASE at = "verify"
  BY <1>1, <1>3, <1>4, <1>6, Ends DEF Returned, End, ToolShape
<1>7. CASE at = "reconciling"
  <2>1. cmd \notin Leavers
    BY <1>7 DEF CommandInv, CommandOK
  <2>2. Reconciled(b)
    BY <1>3, <1>7 DEF Returned
  <2>3. \/ GoOn("due")
        \/ \E ok \in BOOLEAN : End(ok) /\ (ok => ~row'.open)
    BY <2>2 DEF Reconciled
  <2>4. CASE GoOn("due")
    BY <1>1, <1>2, <1>4, <2>1, <2>4, Continues DEF GoOn
  <2>5. ASSUME NEW ok \in BOOLEAN, End(ok), ok => ~row'.open
        PROVE  CommandInv' /\ buy' = buy
    BY <1>1, <1>4, <2>1, <2>5, Ends DEF End, ToolShape
  <2> QED BY <2>3, <2>4, <2>5
<1>8. CASE at = "closing"
  <2>1. cmd \notin Leavers
    BY <1>8 DEF CommandInv, CommandOK
  <2>2. End(~row'.open)
    BY <1>3, <1>8 DEF Returned, Closed
  <2> QED BY <1>1, <1>4, <2>1, <2>2, Ends DEF End, ToolShape
<1> QED BY <1>2, <1>5, <1>6, <1>7, <1>8

\* A command has the Broker do its part.
LEMMA Starts ==
    ASSUME Data, Control, CommandInv, buy = NoSale,
           StartEnter \/ StartProbe \/ StartReconciling \/ StartClosing
    PROVE  CommandInv' /\ buy' = buy
<1>1. at \in {"enter", "verify", "ready", "due"} /\ cmd # "none" /\ report = "none"
  <2>1. at \in {"enter", "verify", "ready", "due"}
    BY DEF StartEnter, StartProbe, StartReconciling, StartClosing
  <2> QED BY <2>1, AtWork
<1>2. CASE StartEnter
  <2>1. /\ at' = "entering" /\ UNCHANGED <<cmd, buy, report>>
        /\ pc' = "place" /\ call' = "enter" /\ cmd \in Openers
    BY <1>2 DEF StartEnter, GoOn, Enter, OpenPosition, CommandInv, CommandOK
  <2> QED BY <1>1, <2>1 DEF CommandInv, ToolShape, CommandOK, VerifyOK, ReportOK, Legs,
                            Commands, Openers, Recovers, Leavers
<1>3. CASE StartProbe
  <2>1. UNCHANGED <<cmd, at, buy, report, row>> /\ at = "verify" /\ pc = "idle"
    BY <1>3 DEF StartProbe, StartExit, tool
  <2>2. Whole /\ cmd = "open_offline_fill"
    BY <1>3, <2>1 DEF StartProbe, CommandInv, VerifyOK
  <2>3. pc' = "list" /\ stage' = "check" /\ call' = "exit"
    BY <1>3, <2>2 DEF StartProbe, StartExit, Whole
  <2>4. Whole'
    BY <2>1, <2>2 DEF Whole
  <2> QED BY <1>1, <2>1, <2>2, <2>3, <2>4
          DEF CommandInv, ToolShape, CommandOK, VerifyOK, ReportOK, Legs,
              Commands, Openers, Recovers, Leavers
<1>4. CASE StartReconciling \/ StartClosing
  <2>1. /\ at \in {"ready", "due"} /\ at' \in {"reconciling", "closing"}
        /\ UNCHANGED <<cmd, buy, report>>
        /\ pc' \in {"decide", "list"} /\ call' = "exit"
    BY <1>4 DEF StartReconciling, StartClosing, StartExit, GoOn
  <2>2. cmd \notin Leavers
    BY <2>1 DEF CommandInv, CommandOK
  <2> QED BY <1>1, <2>1, <2>2 DEF CommandInv, ToolShape, CommandOK, VerifyOK, ReportOK, Legs,
                                  Commands, Openers, Recovers, Leavers
<1> QED BY <1>2, <1>3, <1>4

\* What a command does between two calls changes nothing but the command.
LEMMA Between ==
    ASSUME AccountInv, CommandInv,
           \/ OpenersCheck \/ ListVerified \/ ListRediscovered
           \/ ResumeFlat \/ ResumeOpen \/ ExitBlocked
    PROVE  /\ CommandInv' /\ UNCHANGED vars /\ buy' = buy
           /\ buy # NoSale => at' \in {"none", "checks", "enter"}
<1>1. UNCHANGED vars
  BY DEF OpenersCheck, ListVerified, ListRediscovered, ResumeFlat, ResumeOpen, ExitBlocked
<1>2. /\ UNCHANGED <<row, lists, sale, pc, call, stage>>
      /\ Whole' <=> Whole
  BY <1>1 DEF vars, Whole
<1>3. /\ at \in {"checks", "verify", "ready", "due"}
      /\ cmd # "none" /\ report = "none"
  <2>1. at \in {"checks", "verify", "ready", "due"}
    BY DEF OpenersCheck, ListVerified, ListRediscovered, ResumeFlat, ResumeOpen, ExitBlocked
  <2> QED BY <2>1, AtWork
<1>4. pc' = "idle" /\ call' \in {"none", "enter", "exit"}
  <2>1. at \in {"checks", "ready", "due"} \/ cmd \in {"run", "open_and_exit"}
    BY DEF OpenersCheck, ListVerified, ListRediscovered, ResumeFlat, ResumeOpen, ExitBlocked
  <2> QED BY <1>2, <1>3, <2>1 DEF CommandInv, CommandOK, VerifyOK
<1>5. ToolShape
  BY DEF CommandInv
<1>6. buy # NoSale => row = FlatRow /\ at \in {"none", "checks", "enter"}
  BY DEF AccountInv, BuyAlone
<1>7. CASE OpenersCheck
  BY <1>1, <1>2, <1>3, <1>4, <1>5, <1>7, Continues DEF OpenersCheck, GoOn
<1>8. CASE ListVerified
  <2>1. Whole /\ lists[row.list].state = "ACCEPTED" /\ at = "verify"
    BY <1>4, <1>2, <1>8 DEF ListVerified, CommandInv, VerifyOK
  <2>2. buy = NoSale
    BY <1>6, <2>1
  <2>3. CASE cmd = "run"
    BY <1>1, <1>3, <1>4, <1>5, <1>8, <2>2, <2>3, Continues
       DEF ListVerified, GoOn, Leavers, Openers
  <2>4. CASE cmd # "run"
    <3>1. End(Live(row.list)) /\ cmd \in Leavers
      BY <1>8, <2>4 DEF ListVerified, Leavers, Openers
    <3>2. Whole' /\ lists'[row'.list].state = "ACCEPTED" /\ Live(row.list) \in BOOLEAN
      BY <1>2, <2>1 DEF Live
    <3> QED BY <1>1, <1>4, <1>5, <2>2, <3>1, <3>2, Ends DEF End, ToolShape
  <2> QED BY <2>3, <2>4
<1>9. CASE ListRediscovered
  <2>1. buy = NoSale
    BY <1>6, <1>9 DEF ListRediscovered, FlatRow
  <2> QED BY <1>1, <1>3, <1>4, <1>5, <1>9, <2>1, Continues
          DEF ListRediscovered, GoOn, Leavers, Openers, Recovers
<1>10. CASE ResumeFlat
  BY <1>1, <1>2, <1>4, <1>5, <1>10, Ends DEF ResumeFlat, End, ToolShape, Leavers, Openers
<1>11. CASE ResumeOpen
  <2>1. buy = NoSale
    BY <1>6, <1>11 DEF ResumeOpen, FlatRow
  <2> QED BY <1>1, <1>3, <1>4, <1>5, <1>11, <2>1, Continues
          DEF ResumeOpen, GoOn, Leavers, Openers
<1>12. CASE ExitBlocked
  <2>1. at \in {"ready", "due"} /\ Returned(FALSE)
    BY <1>12 DEF ExitBlocked
  <2>2. buy = NoSale /\ cmd \notin Leavers
    BY <1>6, <2>1 DEF CommandInv, CommandOK
  <2>3. \/ GoOn("due")
        \/ \E ok \in BOOLEAN : End(ok) /\ (ok => ~row'.open)
    BY <2>1 DEF Returned, Reconciled, Closed
  <2>4. CASE GoOn("due")
    BY <1>1, <1>3, <1>4, <1>5, <2>2, <2>4, Continues DEF GoOn
  <2>5. ASSUME NEW ok \in BOOLEAN, End(ok), ok => ~row'.open
        PROVE  CommandInv' /\ buy' = buy
    BY <1>4, <1>5, <2>2, <2>5, Ends DEF End, ToolShape
  <2> QED BY <1>1, <2>2, <2>3, <2>4, <2>5
<1> QED BY <1>7, <1>8, <1>9, <1>10, <1>11, <1>12

\* Where nothing changes but the command, neither does the account.
LEMMA AccountSame ==
    ASSUME AccountInv, UNCHANGED vars, buy' = buy,
           buy # NoSale => at' \in {"none", "checks", "enter"}
    PROVE  AccountInv'
<1>1. CASE buy = NoSale
  <2>1. Data'
    BY <1>1, DataSame DEF AccountInv, vars
  <2>2. Control'
    BY <1>1 DEF AccountInv, vars, Control, ControlType, SaleOK, SalePending, SeenOK,
       CallOK, Live, Over, Outstanding, Executed, Settled, Answered, HasUnresolved
  <2> QED BY <1>1, <2>1, <2>2 DEF AccountInv, vars
<1>2. CASE buy # NoSale
  BY <1>2 DEF AccountInv, vars, BuyAlone, DataType, ControlType, Over, Outstanding
<1> QED BY <1>1, <1>2

\* The exchange does not know of commands.
LEMMA CommandSame ==
    ASSUME CommandInv, UNCHANGED <<row, control, cmd, at, report>>,
           buy' \in [state : {"NONE", "SENT", "OVER"}, req : Qty, exec : Qty],
           buy # NoSale \/ buy' = buy,
           row.list # NoList /\ lists[row.list].state = "ACCEPTED" =>
             lists'[row.list].state = "ACCEPTED"
    PROVE  CommandInv'
<1>1. UNCHANGED <<row, pc, call, stage, seen, cmd, at, report>>
  BY DEF control
<1>2. ToolShape'
  BY <1>1 DEF CommandInv, ToolShape
<1>3. /\ Whole' <=> Whole
      /\ SeenExecuted' = SeenExecuted
  BY <1>1 DEF Whole, SeenExecuted
<1>4. CommandOK' /\ VerifyOK'
  BY <1>1, <1>3 DEF CommandInv, CommandOK, VerifyOK
<1>5. ReportOK'
  BY <1>1, <1>3 DEF CommandInv, ReportOK, Whole
<1> QED BY <1>2, <1>4, <1>5 DEF CommandInv

\* The exchange moves, with or without the tool.
LEMMA MarketSteps ==
    ASSUME AccountInv, CommandInv, Market
    PROVE  AccountInv' /\ CommandInv'
<1>1. UNCHANGED <<row, control, lapsed, tool>>
  BY DEF Market, ExchangeStep, RateMoves, SaleExecutes, SaleEnds, ListStep, Accept, Lose,
         FillLeg, EndLeg
<1>2. AccountInv'
  <2>1. CASE buy = NoSale
    BY <1>1, <2>1, ExchangeSteps DEF AccountInv, Market, tool
  <2>2. CASE buy # NoSale
    BY <1>1, <2>2, MarketAside DEF AccountInv, tool
  <2> QED BY <2>1, <2>2
<1>3. DataType
  BY DEF AccountInv, Data
<1>4. ASSUME NEW k \in Lists, lists[k].state = "ACCEPTED"
      PROVE  lists'[k].state = "ACCEPTED"
  <2>1. lists \in [Lists -> ListState]
    BY <1>3 DEF DataType
  <2>2. CASE RateMoves \/ SaleExecutes \/ SaleEnds
    BY <1>4, <2>2 DEF RateMoves, SaleExecutes, SaleEnds, exchange
  <2>3. ASSUME NEW l \in Lists, ListStep(l) PROVE lists'[k].state = "ACCEPTED"
    <3>1. CASE Accept(l) \/ Lose(l)
      BY <1>4, <2>1, <3>1 DEF Accept, Lose, ListState
    <3>2. ASSUME NEW g \in Legs, FillLeg(l, g) \/ EndLeg(l, g)
          PROVE  lists'[k].state = "ACCEPTED"
      <4>1. \E legs : lists' = [lists EXCEPT ![l].legs = legs]
        BY <2>1, <3>2 DEF FillLeg, EndLeg, ListState
      <4> QED BY <1>4, <2>1, <4>1 DEF ListState
    <3> QED BY <2>3, <3>1, <3>2 DEF ListStep
  <2> QED BY <2>2, <2>3 DEF Market, ExchangeStep
<1>5. row.list # NoList => row.list \in Lists
  BY <1>3, RowShape
<1>6. CommandInv'
  BY <1>1, <1>4, <1>5, CommandSame DEF tool, CommandInv, ToolShape
<1> QED BY <1>2, <1>6

\* A BUY in doubt executes or ends.
LEMMA BuySteps ==
    ASSUME AccountInv, CommandInv, BuyExecutes \/ BuyEnds
    PROVE  AccountInv' /\ CommandInv'
<1>1. buy.state = "SENT" /\ buy # NoSale
  BY DEF BuyExecutes, BuyEnds, NoSale
<1>2. DataType /\ ControlType /\ BuyAlone
  BY <1>1 DEF AccountInv
<1>3. buy \in [state : {"NONE", "SENT", "OVER"}, req : Qty, exec : Qty]
  BY DEF CommandInv, ToolShape
<1>4. /\ UNCHANGED <<row, lists, rate, sale, control, lapsed, cmd, at, report>>
      /\ buy' \in [state : {"NONE", "SENT", "OVER"}, req : Qty, exec : Qty]
      /\ buy' # NoSale /\ buy'.exec <= buy'.req
      /\ base' = InitialBase + buy'.exec
  <2>1. CASE BuyExecutes
    <3>1. PICK q \in Qty \ {0} :
            /\ buy.exec + q <= buy.req
            /\ buy' = [buy EXCEPT !.exec = @ + q]
            /\ base' = base + q
      BY <2>1 DEF BuyExecutes
    <3>2. buy.exec + q \in Qty
      BY <1>3, <3>1, NoListShape DEF Qty
    <3>3. /\ buy' \in [state : {"NONE", "SENT", "OVER"}, req : Qty, exec : Qty]
          /\ buy'.state = "SENT" /\ buy'.exec = buy.exec + q /\ buy'.req = buy.req
      BY <1>1, <1>3, <3>1, <3>2
    <3>4. base' = InitialBase + buy'.exec
      BY <1>2, <1>3, <3>1, <3>3, NoListShape DEF BuyAlone, Qty
    <3> QED BY <2>1, <3>1, <3>3, <3>4 DEF BuyExecutes, NoSale
  <2>2. CASE BuyEnds
    BY <1>2, <1>3, <2>2 DEF BuyEnds, vars, control, BuyAlone, NoSale
  <2> QED BY <2>1, <2>2
<1>5. base' \in 0 .. InitialBase + MaxQty
  BY <1>4, NoListShape DEF Qty
<1>6. DataType' /\ ControlType' /\ BuyAlone'
  BY <1>2, <1>4, <1>5
     DEF DataType, ControlType, BuyAlone, control, Over, Outstanding
<1>7. CommandInv'
  BY <1>1, <1>4, CommandSame
<1> QED BY <1>4, <1>6, <1>7 DEF AccountInv

-----------------------------------------------------------------------------
(* The invariant. *)

\* The tool begins flat and idle.
LEMMA ToolInitInvariant == ToolInit => ToolIInv
<1> SUFFICES ASSUME ToolInit PROVE ToolIInv
  OBVIOUS
<1>1. buy = NoSale /\ cmd = "none" /\ at = "none" /\ report = "none"
  BY DEF ToolInit
<1>2. ToolShape
  BY <1>1, NoListShape DEF ToolShape, NoSale, Qty
<1>3. CommandOK /\ VerifyOK /\ ReportOK
  BY <1>1 DEF ToolInit, CommandOK, VerifyOK, ReportOK, Commands, Openers, Recovers, Leavers,
     Legs
<1>4. \A l \in Lists : lists[l] = AbsentList
  BY DEF ToolInit
<1>5. AbsentList \in ListState
  BY NothingSeen, NoListShape DEF AbsentList, ListState, NotSeen, Qty
<1>6. DataType /\ ~lapsed
  <2>1. FlatRow \in RowType /\ NoSale \in SaleType
    BY NoListShape DEF RowType, FlatRow, SaleType, NoSale, Qty
  <2>2. lists \in [Lists -> ListState]
    BY <1>5 DEF ToolInit
  <2>3. base \in 0 .. InitialBase + MaxQty
    BY NoListShape DEF ToolInit
  <2> QED BY <2>1, <2>2, <2>3 DEF ToolInit, DataType
<1>7. ListsOK
  <2>1. /\ AbsentList.state = "NONE" /\ AbsentList.qty = 0
        /\ AbsentList.legs = FreshLegs
        /\ \A g \in Legs : FreshLegs[g].exec = 0
    BY DEF AbsentList, FreshLegs
  <2>2. ASSUME NEW l \in Lists PROVE ListOK(l)
    BY <1>4, <2>1 DEF ListOK, Legs
  <2> QED BY <2>2 DEF ListsOK
<1>8. RowOK
  BY <1>4, NoListShape DEF ToolInit, RowOK, ListsFit, FlatRow, AbsentList
<1>9. LedgerExact /\ StatusIsTrue
  BY NoListShape DEF ToolInit, LedgerExact, Untold, StatusIsTrue, FlatRow, NoSale
<1>10. Control
  <2>1. ControlType
    BY NotSeenType DEF ToolInit, ControlType
  <2>2. SaleOK
    BY DEF ToolInit, SaleOK, NoSale, HasUnresolved
  <2>3. SeenOK /\ CallOK
    BY DEF ToolInit, SeenOK, CallOK, Answered, Legs
  <2> QED BY <2>1, <2>2, <2>3 DEF Control
<1> QED BY <1>1, <1>2, <1>3, <1>6, <1>7, <1>8, <1>9, <1>10, ToolParts
        DEF Data, CommandInv, AccountInv

\* A BUY without an outcome is recorded where nothing else is left to trade.
LEMMA BuyLost ==
    ASSUME AccountInv, CommandInv, BuyUncertain
    PROVE  AccountInv' /\ CommandInv'
<1>1. /\ at = "enter" /\ buy = NoSale /\ sale = NoSale /\ UNCHANGED vars
      /\ cmd' = "none" /\ at' = "none" /\ report' = "failed"
  BY DEF BuyUncertain, HasUnresolved
<1>2. PICK q \in Qty \ {0} : buy' = [state |-> "SENT", req |-> q, exec |-> 0]
  BY DEF BuyUncertain
<1>3. Data /\ Control
  BY <1>1 DEF AccountInv
<1>4. pc = "idle" /\ ~row.open
  BY <1>1 DEF CommandInv, CommandOK
<1>5. row = FlatRow /\ \A l \in Lists : lists[l].state = "NONE" \/ Over(l)
  <2>1. /\ row = FlatRow
        /\ \A l \in Lists \ {row.list} : lists[l].state = "NONE" \/ Over(l)
    BY <1>1, <1>3, <1>4 DEF AccountInv, Data, RowOK, ListsFit
  <2> QED BY <2>1, NoListShape DEF FlatRow
<1>6. base = InitialBase
  <2>1. Untold = 0 /\ row.qty = 0 /\ sale.exec = 0
    BY <1>1, <1>5 DEF Untold, FlatRow, NoSale
  <2> QED BY <1>1, <1>3, <2>1, Numbers DEF AccountInv, Data, LedgerExact
<1>7. /\ buy' \in [state : {"NONE", "SENT", "OVER"}, req : Qty, exec : Qty]
      /\ buy' # NoSale /\ buy'.exec = 0 /\ buy'.exec <= buy'.req
  BY <1>2, NoListShape DEF Qty, NoSale
<1>8. DataType' /\ ControlType' /\ BuyAlone' /\ ~lapsed'
  BY <1>1, <1>3, <1>4, <1>5, <1>6, <1>7, NoListShape
     DEF vars, AccountInv, Data, Control, DataType, ControlType, BuyAlone, Over,
         Outstanding
<1>9. CommandInv'
  BY <1>1, <1>4, <1>7, Ends DEF vars, CommandInv, CommandOK
<1> QED BY <1>7, <1>8, <1>9 DEF AccountInv

\* Every step of a command, of the Broker and of the exchange keeps it.
LEMMA ToolStepInvariant ==
    ASSUME ToolIInv, [ToolNext]_all
    PROVE  ToolIInv'
<1>1. AccountInv /\ CommandInv
  BY ToolParts
<1>2. SUFFICES AccountInv' /\ CommandInv'
  BY NextToolParts
<1>3. ToolShape
  BY <1>1 DEF CommandInv
<1>4. CASE UNCHANGED all
  <2>1. UNCHANGED <<vars, cmd, at, buy, report>>
    BY <1>4 DEF all, tool
  <2>2. AccountInv'
    BY <1>1, <2>1, AccountSame DEF AccountInv, BuyAlone
  <2>3. CommandInv'
    BY <1>1, <2>1, CommandSame DEF vars, control, CommandInv, ToolShape
  <2> QED BY <2>2, <2>3
<1>5. ASSUME NEW c \in Commands, Begin(c) PROVE AccountInv' /\ CommandInv'
  <2>1. /\ UNCHANGED vars /\ buy' = buy
        /\ cmd = "none" /\ cmd' = c /\ at' = "checks" /\ report' = "none"
    BY <1>5 DEF Begin
  <2>2. at = "none" /\ pc = "idle" /\ c # "none"
    BY <1>1, <2>1 DEF CommandInv, CommandOK, Commands, Openers, Recovers
  <2>3. AccountInv'
    BY <1>1, <2>1, AccountSame
  <2>4. UNCHANGED <<pc, call>>
    BY <2>1 DEF vars
  <2>5. CommandInv'
    BY <1>1, <2>1, <2>2, <2>4
       DEF CommandInv, ToolShape, CommandOK, VerifyOK, ReportOK, Commands, Openers,
           Recovers, Leavers, Legs
  <2> QED BY <2>3, <2>5
<1>6. CASE \/ StartEnter \/ StartProbe \/ StartReconciling \/ StartClosing
           \/ CallReturns \/ CallRaises \/ CallGoesOn
  <2>1. buy = NoSale
    <3>1. (at = "enter" /\ buy = NoSale) \/ pc # "idle" \/ at \in {"verify", "ready", "due"}
      <4>1. CASE CallReturns
        BY <4>1 DEF CallReturns, ConfirmActive, PlaceClosed, ExitFilled, Hold, AbandonSell,
                    SellSettled
      <4>2. CASE CallRaises
        BY <4>2 DEF CallRaises, LookupFails, ConfirmRejects, PlaceGivesUp, QueryListFails,
                    AnswerRejected, LegsTorn, BookFillTorn, FillsAgree, CancelRefused,
                    AbandonSell, SellUncertain, Legs
      <4>3. CASE CallGoesOn
        BY <4>3 DEF CallGoesOn, Place, Send, PlaceFails, PlaceAnswered, ConfirmTerminal,
                    PlaceRearms, QueryList, QueryLeg, LegsQuiet, LegsExecuted, BookFill,
                    FillsAgree, ExitChecked, HoldAndRearm, HoldAndPlace, ExitDue,
                    CancelList, CancelFails, CancelChecked, SubmitSell, Legs
      <4>4. CASE StartEnter \/ StartProbe \/ StartReconciling \/ StartClosing
        BY <4>4 DEF StartEnter, StartProbe, StartReconciling, StartClosing
      <4> QED BY <1>6, <4>1, <4>2, <4>3, <4>4
    <3> QED BY <1>1, <3>1 DEF AccountInv, BuyAlone
  <2>2. Data /\ Control /\ ~lapsed /\ call # "install"
    BY <1>1, <2>1 DEF AccountInv, CommandInv, CommandOK
  <2>3. Data' /\ Control' /\ ~lapsed'
    BY <1>6, <2>2, CommandCalls, CallSteps
  <2>4. CommandInv' /\ buy' = buy
    BY <1>1, <1>6, <2>1, <2>2, Starts, Returns, Raises, GoesOn DEF CallGoesOn, tool
  <2> QED BY <2>1, <2>3, <2>4 DEF AccountInv
<1>7. CASE Probed
  <2>1. /\ pc = "quiet" /\ at = "verify" /\ Leave(TRUE)
        /\ UNCHANGED <<row, exchange, sale, lapsed>>
    BY <1>7 DEF Probed
  <2>2. buy = NoSale
    BY <1>1, <2>1 DEF AccountInv, BuyAlone
  <2>3. Data /\ Control /\ ~lapsed /\ NoneBeside
    BY <1>1, <2>1, <2>2, NoSalePending DEF AccountInv
  <2>4. Data' /\ Control' /\ ~lapsed' /\ pc' = "idle" /\ call' = "none"
    BY <1>1, <2>1, <2>3, LeaveStep, CallOver
  <2>5. Whole /\ cmd = "open_offline_fill"
    BY <1>1, <2>1 DEF CommandInv, VerifyOK
  <2>6. /\ row' = row /\ lists' = lists /\ (Whole' <=> Whole)
        /\ row.status = "EXECUTING" => lists[row.list].state = "ACCEPTED"
    BY <2>1, <2>3 DEF exchange, Whole, Data, StatusIsTrue
  <2>7. End(row.status = "EXECUTING")
    BY <1>7 DEF Probed
  <2>8. CommandInv' /\ buy' = buy
    BY <1>3, <2>2, <2>4, <2>5, <2>6, <2>7, Ends DEF End, ToolShape, Leavers, Openers
  <2> QED BY <2>2, <2>4, <2>8 DEF AccountInv
<1>8. CASE \/ OpenersCheck \/ ListVerified \/ ListRediscovered
           \/ ResumeFlat \/ ResumeOpen \/ ExitBlocked
  BY <1>1, <1>8, Between, AccountSame
<1>9. CASE BuyUncertain
  BY <1>1, <1>9, BuyLost
<1>10. CASE Fail
  <2>1. UNCHANGED vars /\ buy' = buy /\ pc = "idle" /\ at' = "none" /\ End(FALSE)
    BY <1>10 DEF Fail, End
  <2>2. pc' = "idle" /\ call' = call
    BY <2>1 DEF vars
  <2>3. CommandInv'
    BY <1>1, <1>3, <2>1, <2>2, Ends DEF End, CommandInv, CommandOK, ToolShape
  <2> QED BY <1>1, <2>1, <2>3, AccountSame
<1>11. CASE Die
  <2>1. /\ pc' = "idle" /\ call' = "none" /\ End(FALSE)
        /\ UNCHANGED <<row, lists, base, rate, sale, validated, lapsed>>
    BY <1>11 DEF Die, exchange
  <2>2. buy' = buy /\ at' = "none"
    BY <2>1 DEF End
  <2>3. CommandInv'
    BY <1>3, <2>1, Ends DEF End, ToolShape
  <2>4. CASE buy = NoSale
    BY <1>1, <1>11, <2>1, <2>2, <2>3, <2>4, DieStep DEF AccountInv
  <2>5. CASE buy # NoSale
    <3>1. ControlType'
      BY <1>1, <1>11, <2>5, NotSeenType DEF AccountInv, Die, ControlType
    <3>2. DataType' /\ BuyAlone' /\ ~lapsed'
      BY <1>1, <2>1, <2>2, <2>5 DEF AccountInv, DataType, BuyAlone, Over, Outstanding
    <3> QED BY <2>2, <2>3, <2>5, <3>1, <3>2 DEF AccountInv
  <2> QED BY <2>4, <2>5
<1>12. CASE Market \/ BuyExecutes \/ BuyEnds
  BY <1>1, <1>12, MarketSteps, BuySteps
<1> QED BY <1>4, <1>5, <1>6, <1>7, <1>8, <1>9, <1>10, <1>11, <1>12
        DEF ToolNext, CommandStep

\* In every state that any sequence of commands reaches, failing or dying
\* anywhere, the invariant of the Broker holds, or a BUY in doubt is all there
\* is, and the command stands where it says.
THEOREM ToolInvariance == ToolSpec => []ToolIInv
<1>1. ToolInit => ToolIInv
  BY ToolInitInvariant
<1>2. ToolIInv /\ [ToolNext]_all => ToolIInv'
  BY ToolStepInvariant
<1> QED BY <1>1, <1>2, PTL DEF ToolSpec

\* The types of the tool, of the Broker and of the exchange.
THEOREM ToolTypes == ToolSpec => []ToolTypeOK
<1>1. ToolIInv => ToolTypeOK
  BY DEF ToolIInv
<1> QED BY <1>1, ToolInvariance, PTL

\* What the invariant says of the account, for the theorems below.
LEMMA AccountFacts ==
    ASSUME ToolIInv
    PROVE  /\ ~lapsed
           /\ buy = NoSale => Data /\ Control
           /\ buy # NoSale => BuyAlone
           /\ base \in Nat /\ InitialBase \in Nat /\ buy.exec \in Nat
           /\ buy = NoSale => buy.exec = 0
<1>1. AccountInv /\ ToolShape
  BY ToolParts DEF CommandInv
<1>2. DataType
  BY <1>1 DEF AccountInv, Data
<1> QED BY <1>1, <1>2, Numbers, NoListShape DEF AccountInv, ToolShape, NoSale, Qty

\* "ok" of a closed position: no row, no order and no list that may still
\* sell, and the base asset the account had before.
THEOREM OkMeansFlatHolds == ToolSpec => []OkMeansFlat
<1>1. ToolIInv => OkMeansFlat
  <2> SUFFICES ASSUME ToolIInv, report \in Commands \ Leavers
               PROVE  /\ ~row.open /\ sale = NoSale
                      /\ \A l \in Lists : ~Outstanding(l)
                      /\ base = InitialBase + buy.exec
                      /\ buy # NoSale => report = "resume"
    BY DEF OkMeansFlat
  <2>1. ~row.open /\ (buy # NoSale => report = "resume")
    BY DEF ToolIInv, ReportOK
  <2>2. /\ row = FlatRow /\ sale = NoSale
        /\ \A l \in Lists : lists[l].state = "NONE" \/ Over(l)
    <3>1. CASE buy = NoSale
      <4>1. row = FlatRow
        BY <2>1, <3>1, AccountFacts DEF Data, RowOK
      <4>2. sale = NoSale
        BY <2>1, <3>1, AccountFacts DEF Control, SaleOK, SalePending, HasUnresolved
      <4>3. \A l \in Lists \ {row.list} : lists[l].state = "NONE" \/ Over(l)
        BY <3>1, AccountFacts DEF Data, RowOK, ListsFit
      <4> QED BY <4>1, <4>2, <4>3, NoListShape DEF FlatRow
    <3>2. CASE buy # NoSale
      BY <3>2, AccountFacts DEF BuyAlone
    <3> QED BY <3>1, <3>2
  <2>3. \A l \in Lists : ~Outstanding(l)
    BY <2>2 DEF Over, Outstanding
  <2>4. base = InitialBase + buy.exec
    <3>1. CASE buy = NoSale
      <4>1. Untold = 0 /\ row.qty = 0 /\ sale.exec = 0
        BY <2>2 DEF Untold, FlatRow, NoSale
      <4> QED BY <3>1, <4>1, AccountFacts DEF Data, LedgerExact
    <3>2. CASE buy # NoSale
      BY <3>2, AccountFacts DEF BuyAlone
    <3> QED BY <3>1, <3>2
  <2> QED BY <2>1, <2>2, <2>3, <2>4
<1> QED BY <1>1, ToolInvariance, PTL

\* "ok" of an open position: its row names a list of the exchange, and what
\* the list has not sold of it is in the account.
THEOREM OkMeansListedHolds == ToolSpec => []OkMeansListed
<1>1. ToolIInv => OkMeansListed
  <2> SUFFICES ASSUME ToolIInv, report \in Leavers
               PROVE  /\ row.open /\ sale = NoSale /\ buy = NoSale
                      /\ row.list # NoList /\ lists[row.list].state = "ACCEPTED"
                      /\ base + Executed(row.list) = InitialBase + row.qty
    BY DEF OkMeansListed
  <2>1. Whole /\ lists[row.list].state = "ACCEPTED"
    BY DEF ToolIInv, ReportOK
  <2>2. buy = NoSale
    BY <2>1, AccountFacts DEF BuyAlone, Whole, FlatRow
  <2>3. Data /\ Control /\ sale = NoSale /\ row.list \in Lists
    BY <2>1, <2>2, AccountFacts, NoSalePending, Standing DEF Whole, NoneBeside
  <2>4. /\ row.from \in Nat /\ row.qty \in Nat /\ row.applied = row.from
        /\ Executed(row.list) \in Nat
    <3>1. row.from \in Nat /\ row.qty \in Nat
      BY <2>3, RowShape, NoListShape DEF Data, Qty
    <3>2. lists[row.list].legs["tp"].exec \in Nat /\ lists[row.list].legs["sl"].exec \in Nat
      BY <2>3, ListShape, NoListShape DEF Data, LegState, Qty
    <3> QED BY <2>1, <3>1, <3>2 DEF Whole, Executed
  <2>5. base + Executed(row.list) = InitialBase + row.qty
    <3>1. Untold = Executed(row.list) /\ sale.exec = 0
      BY <2>1, <2>3, <2>4 DEF Untold, NoSale, Whole
    <3> QED BY <2>3, <2>4, <3>1, AccountFacts DEF Data, LedgerExact
  <2> QED BY <2>1, <2>2, <2>3, <2>5 DEF Whole
<1> QED BY <1>1, ToolInvariance, PTL

\* Row, list, pending SELL and BUY in doubt account for the base asset.
THEOREM ToolLedgerHolds == ToolSpec => []ToolLedger
<1>1. ToolIInv => ToolLedger
  <2> SUFFICES ASSUME ToolIInv PROVE ToolLedger
    OBVIOUS
  <2>1. CASE buy = NoSale
    <3>1. LedgerExact /\ buy.exec = 0
      BY <2>1, AccountFacts DEF Data
    <3>2. row.qty \in Nat
      BY <2>1, AccountFacts, RowShape, NoListShape DEF Data, Qty
    <3>3. Untold \in Nat /\ sale.exec \in Nat
      BY <2>1, AccountFacts, UntoldShape, Numbers DEF Data
    <3> QED BY <3>1, <3>2, <3>3, AccountFacts DEF LedgerExact, ToolLedger
  <2>2. CASE buy # NoSale
    BY <2>2, AccountFacts DEF BuyAlone, ToolLedger, Untold, FlatRow, NoSale
  <2> QED BY <2>1, <2>2
<1> QED BY <1>1, ToolInvariance, PTL

=============================================================================
