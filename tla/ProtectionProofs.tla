--------------------------- MODULE ProtectionProofs ---------------------------
(***************************************************************************)
(* What Protection guarantees for any number of lists, any quantities and  *)
(* any commission: the invariant IInv is inductive, whatever start-up      *)
(* finds out about the orders.  Some parts of it speak of the time before  *)
(* a lapse only, as the properties do.                                     *)
(*                                                                         *)
(* The proof keeps apart what the database and the exchange hold (Data)    *)
(* and what the broker has read of it (Control).                           *)
(***************************************************************************)
EXTENDS Protection, TLAPS

SaleType == [state : {"NONE", "SENT", "OVER"}, req : Qty, exec : Qty]

DataType ==
    /\ row \in RowType
    /\ lists \in [Lists -> ListState]
    /\ base \in 0 .. InitialBase + MaxQty
    /\ rate \in Rates
    /\ sale \in SaleType
    /\ lapsed \in BOOLEAN

ControlType ==
    /\ validated \in BOOLEAN
    /\ pc \in Legs \cup {"idle", "orders", "protect", "place", "send", "sent",
                         "lookup", "confirm", "list", "legs", "fills", "filled",
                         "quiet", "decide", "cancel", "balance", "sell"}
    /\ call \in {"none", "enter", "recover", "install", "verify", "exit"}
    /\ stage \in {"none", "place", "check", "cancel", "uncancelled"}
    /\ retried \in BOOLEAN
    /\ seen \in [list : {"NONE", "EXECUTING", "TERMINAL"}, legs : [Legs -> LegState]]

ListsOK == \A l \in Lists : ListOK(l)

Data == DataType /\ ListsOK /\ RowOK /\ LedgerExact /\ StatusIsTrue

Control == ControlType /\ SaleOK /\ SeenOK /\ CallOK

LEMMA Parts == IInv <=> Data /\ Control
BY DEF IInv, Data, Control, TypeOK, DataType, ControlType, SaleType, ListsOK

-----------------------------------------------------------------------------
(* Shapes and sizes. *)

LEMMA RowShape ==
    ASSUME DataType
    PROVE  /\ row.open \in BOOLEAN
           /\ row.qty \in Qty /\ row.from \in Qty /\ row.applied \in Qty
           /\ row.list \in Lists \cup {NoList}
           /\ row.status \in {"NONE", "SUBMITTING", "UNKNOWN", "EXECUTING", "TERMINAL"}
           /\ row.fromFee \in Nat /\ row.fee \in Nat
           /\ row = [open |-> row.open, qty |-> row.qty, list |-> row.list,
                     status |-> row.status, from |-> row.from, applied |-> row.applied,
                     fromFee |-> row.fromFee, fee |-> row.fee]
BY DEF DataType, RowType

LEMMA ListShape ==
    ASSUME DataType, NEW l \in Lists
    PROVE  /\ lists[l] \in ListState
           /\ lists[l].qty \in Qty
           /\ lists[l].legs \in [Legs -> LegState]
           /\ lists[l].legs["tp"] \in LegState /\ lists[l].legs["sl"] \in LegState
           /\ lists[l].legs["tp"].exec \in Qty /\ lists[l].legs["sl"].exec \in Qty
           /\ Executed(l) \in Nat
<1>1. /\ lists[l] \in ListState
      /\ lists[l].qty \in Qty
      /\ lists[l].legs \in [Legs -> LegState]
  BY DEF DataType, ListState
<1>2. lists[l].legs["tp"] \in LegState /\ lists[l].legs["sl"] \in LegState
  BY <1>1 DEF Legs
<1>3. lists[l].legs["tp"].exec \in Qty /\ lists[l].legs["sl"].exec \in Qty
  BY <1>2 DEF LegState
<1>4. Qty \subseteq Nat
  BY BaseAssumption DEF Qty
<1>5. Executed(l) \in Nat
  <2>1. \A m, n \in Nat : m + n \in Nat
    OBVIOUS
  <2> QED BY <1>3, <1>4, <2>1, Zenon DEF Executed
<1> QED BY <1>1, <1>2, <1>3, <1>5

LEMMA SaleShape ==
    ASSUME DataType
    PROVE  /\ sale.state \in {"NONE", "SENT", "OVER"}
           /\ sale.req \in Qty /\ sale.exec \in Qty
           /\ sale = [state |-> sale.state, req |-> sale.req, exec |-> sale.exec]
BY DEF DataType, SaleType

LEMMA Numbers ==
    ASSUME DataType
    PROVE  /\ base \in Nat /\ InitialBase \in Nat /\ MaxQty \in Nat
           /\ row.qty \in Nat /\ row.from \in Nat /\ row.applied \in Nat
           /\ sale.req \in Nat /\ sale.exec \in Nat
<1>1. Qty \subseteq Nat /\ 0 .. InitialBase + MaxQty \subseteq Nat
  BY BaseAssumption DEF Qty
<1> QED BY <1>1, RowShape, SaleShape, BaseAssumption DEF DataType

LEMMA NoListShape == NoList \notin Lists /\ MaxQty \in Nat /\ InitialBase \in Nat
BY ListAssumption, BaseAssumption

\* A list on which no leg is active cannot sell.
LEMMA DeadIsOver ==
    ASSUME NEW l \in Lists, lists[l].state = "ACCEPTED", ~Live(l)
    PROVE  Over(l)
BY DEF Over, Outstanding, Live, Legs

\* Up to a lapse, a list that may sell is the row's.
LEMMA OnlyTheNamed ==
    ASSUME Data, ~lapsed, NEW l \in Lists, Outstanding(l)
    PROVE  row.list = l /\ row.open
BY NoListShape DEF Data, RowOK, ListsFit, Over, Outstanding

\* What the row has not been told of its list.
LEMMA UntoldShape ==
    ASSUME Data
    PROVE  /\ Untold \in Nat
           /\ row.list = NoList => Untold = 0
           /\ row.list # NoList =>
                /\ row.list \in Lists
                /\ Executed(row.list) \in Nat
                /\ Untold = row.from + Executed(row.list) - row.applied
<1>1. CASE row.list = NoList
  BY <1>1 DEF Untold
<1>2. CASE row.list # NoList
  <2>1. row.list \in Lists /\ Executed(row.list) \in Nat
    BY <1>2, RowShape, ListShape, Zenon DEF Data
  <2>2. Untold = row.from + Executed(row.list) - row.applied
    BY <1>2 DEF Untold
  <2>3. row.applied <= row.from + Executed(row.list)
    BY <1>2 DEF Data, RowOK
  <2> QED BY <1>2, <2>1, <2>2, <2>3, Numbers DEF Data
<1> QED BY <1>1, <1>2

\* The account and what is told of it move together.
LEMMA LedgerMoves ==
    ASSUME Data, Untold' \in Nat, row'.qty \in Nat, base' \in Nat, sale'.exec \in Nat,
           base' + Untold' + sale'.exec + row.qty <= base + Untold + sale.exec + row'.qty,
           lapsed => lapsed',
           lapsed' \/ base' + Untold' + sale'.exec + row.qty
                         = base + Untold + sale.exec + row'.qty
    PROVE  LedgerExact'
BY UntoldShape, Numbers DEF Data, LedgerExact

-----------------------------------------------------------------------------
(* Data: one lemma for each way in which the database or the exchange changes. *)

LEMMA DataSame ==
    ASSUME Data, UNCHANGED <<row, lists, base, rate, sale, lapsed>>
    PROVE  Data'
BY DEF Data, DataType, ListsOK, ListOK, RowOK, ListsFit, LedgerExact, Untold,
       StatusIsTrue, Over, Outstanding, Live, Executed, FlatRow

\* set_trade_protection with the list that the row names already.
LEMMA DataStatus ==
    ASSUME Data, row.list # NoList,
           NEW s \in {"SUBMITTING", "UNKNOWN", "EXECUTING", "TERMINAL"},
           row' = [row EXCEPT !.status = s], UNCHANGED <<lists, base, rate, sale, lapsed>>,
           s \in {"EXECUTING", "TERMINAL"} => lists[row.list].state = "ACCEPTED",
           s = "TERMINAL" => ~Live(row.list)
    PROVE  Data'
<1>1. /\ row'.open = row.open /\ row'.qty = row.qty /\ row'.list = row.list
      /\ row'.from = row.from /\ row'.applied = row.applied /\ row'.status = s
      /\ row' \in RowType /\ row.open
  BY DEF Data, DataType, RowType, RowOK
<1>2. DataType'
  BY <1>1 DEF Data, DataType
<1>3. ListsOK'
  BY DEF Data, ListsOK, ListOK
<1>4. RowOK'
  BY <1>1 DEF Data, RowOK, ListsFit, Over, Outstanding, Executed
<1>5. LedgerExact'
  BY <1>1 DEF Data, LedgerExact, Untold, Executed
<1>6. StatusIsTrue'
  BY <1>1 DEF StatusIsTrue, Live
<1> QED BY <1>2, <1>3, <1>4, <1>5, <1>6 DEF Data

\* clear_trade_protection, of a list that is over and accounted for.
LEMMA DataClear ==
    ASSUME Data, row.list # NoList, Settled, row' = Cleared(row),
           UNCHANGED <<lists, base, rate, sale, lapsed>>
    PROVE  Data'
<1>1. /\ row'.open = row.open /\ row'.qty = row.qty /\ row'.list = NoList
      /\ row'.from = row.from /\ row'.applied = row.applied /\ row'.status = "NONE"
      /\ row' \in RowType /\ row.open
  BY DEF Data, DataType, RowType, RowOK, Cleared
<1>2. DataType'
  BY <1>1 DEF Data, DataType
<1>3. ListsOK'
  BY DEF Data, ListsOK, ListOK
<1>4. RowOK'
  <2>1. ASSUME ~lapsed PROVE ListsFit'
    BY <1>1, <2>1 DEF Data, RowOK, ListsFit, Over, Outstanding, Settled
  <2> QED BY <1>1, <2>1 DEF Data, RowOK
<1>5. LedgerExact'
  <2>1. Untold = 0 /\ Untold' = 0
    BY <1>1, UntoldShape, Numbers DEF Data, Settled, Untold
  <2> QED BY <1>1, <2>1, LedgerMoves, Numbers DEF Data
<1>6. StatusIsTrue'
  BY <1>1 DEF StatusIsTrue
<1> QED BY <1>2, <1>3, <1>4, <1>5, <1>6 DEF Data

\* set_trade_protection with a fresh list, which starts from what was applied.
\* It is a lapse if a SELL is pending.
LEMMA DataIdentity ==
    ASSUME Data, row.open, row.list = NoList, NEW l \in Lists,
           lists[l].state = "NONE", row' = NewIdentity(row, l),
           lists' = [lists EXCEPT ![l].state = "MINTED", ![l].qty = row.qty],
           lapsed' = (lapsed \/ HasUnresolved), UNCHANGED <<base, rate, sale>>
    PROVE  Data'
<1>1. /\ row'.open = row.open /\ row'.qty = row.qty /\ row'.list = l
      /\ row'.from = row.applied /\ row'.applied = row.applied
      /\ row'.status = "SUBMITTING" /\ row' \in RowType
  BY DEF Data, DataType, RowType, NewIdentity
<1>2. /\ lists'[l].state = "MINTED" /\ lists'[l].qty = row.qty
      /\ lists'[l].legs = lists[l].legs
      /\ lists' \in [Lists -> ListState]
  BY DEF Data, DataType, ListState, RowType
<1>3. \A k \in Lists \ {l} : lists'[k] = lists[k]
  BY DEF Data, DataType
<1>4. /\ lists[l].legs = FreshLegs
      /\ lists[l].legs["tp"].exec = 0 /\ lists[l].legs["sl"].exec = 0
  BY DEF Data, ListsOK, ListOK, FreshLegs, Legs
<1>5. Executed(l)' = 0
  BY <1>2, <1>4 DEF Executed
<1>6. DataType'
  <2>1. lapsed' \in BOOLEAN
    BY DEF HasUnresolved
  <2> QED BY <1>1, <1>2, <2>1 DEF Data, DataType
<1>7. ListsOK'
  <2>1. ListOK(l)'
    BY <1>2, <1>4, Numbers DEF Data, RowOK, ListOK, Legs
  <2>2. ASSUME NEW k \in Lists \ {l} PROVE ListOK(k)'
    <3>1. ListOK(k) /\ lists'[k] = lists[k]
      BY <1>3, <2>2 DEF Data, ListsOK
    <3> QED BY <3>1 DEF ListOK
  <2> QED BY <2>1, <2>2 DEF ListsOK
<1>8. RowOK'
  <2>1. row.qty > 0 /\ row.qty + row.applied <= MaxQty
    BY DEF Data, RowOK
  <2>2. ASSUME ~lapsed PROVE \A k \in Lists \ {l} : lists'[k].state = "NONE" \/ Over(k)'
    <3>1. ASSUME NEW k \in Lists \ {l} PROVE lists[k].state = "NONE" \/ Over(k)
      BY <2>2, <3>1, NoListShape DEF Data, RowOK, ListsFit
    <3> QED BY <1>3, <3>1 DEF Over, Outstanding
  <2>3. lists'[l].qty = row'.qty + (row'.applied - row'.from)
    BY <1>1, <1>2, Numbers DEF Data
  <2>4. row'.applied <= row'.from + Executed(l)'
    BY <1>1, <1>5, Numbers DEF Data
  <2>5. ~lapsed' => ListsFit'
    BY <1>1, <2>2, <2>3 DEF ListsFit
  <2> QED BY <1>1, <1>2, <2>1, <2>4, <2>5, Numbers, NoListShape DEF Data, RowOK
<1>9. LedgerExact'
  <2>1. Untold = 0
    BY UntoldShape
  <2>2. Untold' = 0
    BY <1>1, <1>5, NoListShape, Numbers DEF Data, Untold
  <2>3. lapsed => lapsed'
    OBVIOUS
  <2>4. /\ row'.qty \in Nat /\ base' \in Nat /\ sale'.exec \in Nat
        /\ base' + Untold' + sale'.exec + row.qty = base + Untold + sale.exec + row'.qty
    BY <1>1, <2>1, <2>2, Numbers DEF Data
  <2> QED BY <2>1, <2>2, <2>3, <2>4, LedgerMoves, Numbers DEF Data
<1>10. StatusIsTrue'
  BY <1>1 DEF StatusIsTrue
<1> QED BY <1>6, <1>7, <1>8, <1>9, <1>10 DEF Data

\* The request leaves, is accepted or is lost: up to a lapse, it is the one the
\* row names.
LEMMA DataListState ==
    ASSUME Data, NEW l \in Lists, NEW s \in {"INFLIGHT", "LOST", "ACCEPTED"},
           lists[l].state \in {"MINTED", "INFLIGHT"},
           lists' = [lists EXCEPT ![l].state = s], UNCHANGED <<row, base, rate, sale, lapsed>>
    PROVE  /\ Data'
           /\ \A k \in Lists \ {l} : lists'[k] = lists[k]
<1>1. ~lapsed => row.list = l
  BY NoListShape DEF Data, RowOK, ListsFit, Over
<1>2. /\ lists'[l].state = s /\ lists'[l].qty = lists[l].qty
      /\ lists'[l].legs = lists[l].legs
      /\ lists' \in [Lists -> ListState]
  BY DEF Data, DataType, ListState
<1>3. \A k \in Lists \ {l} : lists'[k] = lists[k]
  BY DEF Data, DataType
<1>4. DataType'
  BY <1>2 DEF Data, DataType
<1>5. ListsOK'
  <2>1. ListOK(l)'
    BY <1>2 DEF Data, ListsOK, ListOK
  <2>2. ASSUME NEW k \in Lists \ {l} PROVE ListOK(k)'
    BY <1>3, <2>2 DEF Data, ListsOK, ListOK
  <2> QED BY <2>1, <2>2 DEF ListsOK
<1>6. \A k \in Lists : Executed(k)' = Executed(k) /\ lists'[k].qty = lists[k].qty
  BY <1>2, <1>3 DEF Executed
<1>7. row.list # NoList => row.list \in Lists
  BY RowShape DEF Data
<1>8. RowOK'
  <2>1. ASSUME ~lapsed PROVE ListsFit'
    <3>1. \A k \in Lists \ {l} : lists'[k].state = "NONE" \/ Over(k)'
      BY <1>1, <1>3, <2>1 DEF Data, RowOK, ListsFit, Over, Outstanding
    <3> QED BY <1>1, <1>2, <2>1, <3>1 DEF Data, RowOK, ListsFit
  <2>2. row.list # NoList => lists'[row.list].state # "NONE"
    BY <1>2, <1>3, <1>7 DEF Data, RowOK
  <2> QED BY <1>6, <1>7, <2>1, <2>2 DEF Data, RowOK
<1>9. LedgerExact'
  BY <1>6, <1>7 DEF Data, LedgerExact, Untold
<1>10. StatusIsTrue'
  <2>1. row.status \in {"EXECUTING", "TERMINAL"} =>
          row.list \in Lists /\ row.list # l
    BY <1>7 DEF Data, RowOK, StatusIsTrue
  <2> QED BY <1>3, <2>1 DEF Data, StatusIsTrue, Live
<1> QED BY <1>3, <1>4, <1>5, <1>8, <1>9, <1>10 DEF Data

\* Legs of an accepted list end, and execute nothing.
LEMMA DataLegsEnd ==
    ASSUME Data, NEW l \in Lists, lists[l].state = "ACCEPTED",
           NEW legs \in [Legs -> LegState], lists' = [lists EXCEPT ![l].legs = legs],
           \A g \in Legs : /\ legs[g].exec = lists[l].legs[g].exec
                           /\ legs[g].status \in {lists[l].legs[g].status, "CANCELED"},
           UNCHANGED <<row, base, rate, sale, lapsed>>
    PROVE  /\ Data'
           /\ \A k \in Lists : /\ lists'[k].state = lists[k].state
                               /\ Executed(k)' = Executed(k)
                               /\ ~Live(k) => ~Live(k)'
                               /\ ~Outstanding(k) => ~Outstanding(k)'
<1>1. /\ lists'[l].state = "ACCEPTED" /\ lists'[l].qty = lists[l].qty
      /\ lists'[l].legs = legs
      /\ lists' \in [Lists -> ListState]
  BY DEF Data, DataType, ListState
<1>2. \A k \in Lists \ {l} : lists'[k] = lists[k]
  BY DEF Data, DataType
<1>3. DataType'
  BY <1>1 DEF Data, DataType
<1>4. ListsOK'
  <2>1. ListOK(l)'
    BY <1>1 DEF Data, ListsOK, ListOK, Active
  <2>2. ASSUME NEW k \in Lists \ {l} PROVE ListOK(k)'
    BY <1>2, <2>2 DEF Data, ListsOK, ListOK
  <2> QED BY <2>1, <2>2 DEF ListsOK
<1>5. ASSUME NEW k \in Lists
      PROVE  /\ lists'[k].state = lists[k].state
             /\ lists'[k].qty = lists[k].qty
             /\ Executed(k)' = Executed(k)
             /\ ~Live(k) => ~Live(k)'
             /\ ~Outstanding(k) => ~Outstanding(k)'
  <2>1. CASE k # l
    BY <1>2, <2>1 DEF Executed, Live, Outstanding
  <2>2. CASE k = l
    <3>1. Executed(k)' = Executed(k)
      BY <1>1, <2>2 DEF Executed, Legs
    <3>2. ~Live(k) => ~Live(k)'
      BY <1>1, <2>2 DEF Live, Active
    <3>3. ~Outstanding(k) => ~Outstanding(k)'
      BY <1>1, <2>2 DEF Outstanding, Active, Legs, Sibling
    <3> QED BY <1>1, <2>2, <3>1, <3>2, <3>3
  <2> QED BY <2>1, <2>2
<1>6. row.list # NoList => row.list \in Lists
  BY RowShape DEF Data
<1>7. RowOK'
  <2>1. ~lapsed => ListsFit'
    BY <1>5, <1>6 DEF Data, RowOK, ListsFit, Over
  <2> QED BY <1>5, <1>6, <2>1 DEF Data, RowOK
<1>8. LedgerExact'
  BY <1>5, <1>6 DEF Data, LedgerExact, Untold
<1>9. StatusIsTrue'
  <2>1. row.status \in {"EXECUTING", "TERMINAL"} => row.list \in Lists
    BY RowShape DEF Data, RowOK
  <2> QED BY <1>5, <2>1 DEF Data, StatusIsTrue
<1> QED BY <1>3, <1>4, <1>5, <1>7, <1>8, <1>9 DEF Data

\* A leg executes: up to a lapse, of the list the row names.
LEMMA DataFill ==
    ASSUME Data, NEW l \in Lists, NEW g \in Legs, FillLeg(l, g)
    PROVE  /\ Data' /\ Live(l)
           /\ lists'[l].state = lists[l].state
           /\ \A k \in Lists \ {l} : lists'[k] = lists[k]
<1>1. Outstanding(l) /\ Live(l)
  BY DEF FillLeg, Outstanding, Live
<1>2. ~lapsed => row.list = l
  BY <1>1, OnlyTheNamed
<1>3. PICK q \in Qty \ {0} :
        /\ lists[l].legs[g].exec + q <= lists[l].qty
        /\ q <= base /\ base' = base - q
        /\ lists' = [lists EXCEPT ![l].legs[g] =
             [status |-> IF lists[l].legs[g].exec + q = lists[l].qty
                           THEN "FILLED" ELSE "PARTIALLY_FILLED",
              exec |-> lists[l].legs[g].exec + q]]
  BY DEF FillLeg
<1> DEFINE e == lists[l].legs[g].exec + q
           leg == [status |-> IF e = lists[l].qty THEN "FILLED" ELSE "PARTIALLY_FILLED",
                   exec |-> e]
<1>4. q \in Nat /\ q > 0 /\ lists[l].legs[g].exec \in Nat /\ e \in Qty
  <2>1. lists[l].legs[g].exec \in Qty /\ lists[l].qty \in Qty
    BY ListShape DEF Data, Legs
  <2> QED BY <1>3, <2>1, NoListShape DEF Qty
<1>5. leg \in LegState
  BY <1>4 DEF LegState, LegStatus, Active
<1>6. /\ lists'[l].state = lists[l].state /\ lists'[l].qty = lists[l].qty
      /\ lists'[l].legs = [lists[l].legs EXCEPT ![g] = leg]
      /\ lists'[l].legs \in [Legs -> LegState]
      /\ lists' \in [Lists -> ListState]
  <2>1. lists[l].legs \in [Legs -> LegState] /\ lists \in [Lists -> ListState]
    BY ListShape DEF Data, DataType
  <2>2. lists' = [lists EXCEPT ![l].legs[g] = leg]
    BY <1>3
  <2> HIDE DEF leg
  <2>3. /\ lists'[l].state = lists[l].state /\ lists'[l].qty = lists[l].qty
        /\ lists'[l].legs = [lists[l].legs EXCEPT ![g] = leg]
    BY <2>1, <2>2 DEF ListState
  <2>4. lists'[l].legs \in [Legs -> LegState]
    BY <1>5, <2>1, <2>3
  <2>5. lists' \in [Lists -> ListState]
    BY <2>1, <2>2, <2>4, <1>5 DEF ListState
  <2> QED BY <2>3, <2>4, <2>5
<1>7. \A k \in Lists \ {l} : lists'[k] = lists[k]
  BY <1>3 DEF Data, DataType
<1>8. /\ lists'[l].legs[g] = leg
      /\ lists'[l].legs[Sibling(g)] = lists[l].legs[Sibling(g)]
      /\ lists[l].legs[Sibling(g)].exec = 0
  BY <1>6, ListShape DEF Data, Legs, Sibling, FillLeg
<1>9. Executed(l)' = Executed(l) + q
  <2>1. leg.exec = e /\ e \in Nat
    BY <1>4, NoListShape DEF Qty
  <2>2. CASE g = "tp"
    BY <1>4, <1>8, <2>1, <2>2 DEF Executed, Sibling
  <2>3. CASE g = "sl"
    BY <1>4, <1>8, <2>1, <2>3 DEF Executed, Sibling
  <2> QED BY <2>2, <2>3 DEF Legs
<1>10. base' \in Nat /\ base' = base - q
  BY <1>3, <1>4, Numbers DEF Data
<1>11. DataType'
  <2>1. base' \in 0 .. InitialBase + MaxQty
    BY <1>3, <1>4, NoListShape DEF Data, DataType
  <2> QED BY <1>6, <2>1 DEF Data, DataType, FillLeg
<1>12. ListsOK'
  <2>1. ListOK(l)'
    <3>1. lists'[l].state = "ACCEPTED"
      BY <1>6 DEF FillLeg
    <3>2. Sibling(g) \in Legs /\ lists'[l].legs[Sibling(g)].exec = 0
      BY <1>8 DEF Legs, Sibling
    <3>3. ASSUME NEW h \in Legs
          PROVE  /\ lists'[l].legs[h].exec <= lists'[l].qty
                 /\ lists'[l].legs[h].status \in Active =>
                      lists'[l].legs[h].exec < lists'[l].qty
      <4>1. CASE h = g
        <5>1. e <= lists[l].qty /\ lists[l].qty \in Nat /\ e \in Nat
          BY <1>3, <1>4, ListShape, NoListShape DEF Data, Qty
        <5> QED BY <1>6, <1>8, <4>1, <5>1 DEF Active
      <4>2. CASE h = Sibling(g)
        <5>1. lists[l].qty \in Nat /\ lists[l].qty > 0
          BY <1>3, <1>4, ListShape, NoListShape DEF Data, Qty
        <5> QED BY <1>6, <1>8, <4>2, <5>1
      <4> QED BY <4>1, <4>2 DEF Legs, Sibling
    <3> QED BY <3>1, <3>2, <3>3 DEF ListOK
  <2>2. ASSUME NEW k \in Lists \ {l} PROVE ListOK(k)'
    <3>1. ListOK(k) /\ lists'[k] = lists[k]
      BY <1>7, <2>2 DEF Data, ListsOK
    <3> QED BY <3>1 DEF ListOK
  <2> QED BY <2>1, <2>2 DEF ListsOK
<1>13. row' = row /\ sale' = sale /\ lapsed' = lapsed
  BY DEF FillLeg
<1>14. row.list # NoList =>
         /\ row.list \in Lists
         /\ Executed(row.list) \in Nat
         /\ Executed(row.list)' = Executed(row.list) + IF row.list = l THEN q ELSE 0
  <2>1. row.list # NoList => row.list \in Lists /\ Executed(row.list) \in Nat
    BY UntoldShape
  <2>2. row.list \in Lists \ {l} => Executed(row.list)' = Executed(row.list)
    BY <1>7, <1>13 DEF Executed
  <2> QED BY <1>9, <1>13, <2>1, <2>2
<1>15. RowOK'
  <2>1. ASSUME ~lapsed PROVE ListsFit'
    <3>1. ASSUME NEW k \in Lists \ {l} PROVE lists'[k].state = "NONE" \/ Over(k)'
      <4>1. lists[k].state = "NONE" \/ Over(k)
        BY <1>2, <2>1, <3>1 DEF Data, RowOK, ListsFit
      <4> QED BY <1>7, <4>1 DEF Over, Outstanding
    <3> QED BY <1>2, <1>6, <1>13, <2>1, <3>1 DEF Data, RowOK, ListsFit
  <2>2. ASSUME row.list # NoList
        PROVE  /\ lists'[row.list].state # "NONE"
               /\ row.applied <= row.from + Executed(row.list)'
    <3>1. row.applied <= row.from + Executed(row.list) /\ lists[row.list].state # "NONE"
      BY <2>2 DEF Data, RowOK
    <3>2. row.applied <= row.from + Executed(row.list)'
      BY <1>4, <1>14, <2>2, <3>1, Numbers DEF Data
    <3> QED BY <1>6, <1>7, <1>14, <2>2, <3>1, <3>2
  <2> QED BY <1>13, <2>1, <2>2 DEF Data, RowOK
<1>16. LedgerExact'
  <2>1. Untold' = Untold + IF row.list = l THEN q ELSE 0
    <3>1. CASE row.list = NoList
      BY <1>13, <3>1, NoListShape DEF Untold
    <3>2. CASE row.list # NoList
      <4>1. Untold' = row.from + Executed(row.list)' - row.applied
        BY <1>13, <3>2 DEF Untold
      <4> QED BY <1>4, <1>14, <3>2, <4>1, UntoldShape, Numbers DEF Data
    <3> QED BY <3>1, <3>2
  <2>2. Untold \in Nat /\ Untold' \in Nat
    BY <1>4, <2>1, UntoldShape
  <2> QED BY <1>2, <1>4, <1>10, <1>13, <2>1, <2>2, LedgerMoves, Numbers DEF Data
<1>17. StatusIsTrue'
  <2>1. row.status \in {"EXECUTING", "TERMINAL"} => row.list \in Lists
    BY RowShape DEF Data, RowOK
  <2> QED BY <1>1, <1>6, <1>7, <1>13, <2>1 DEF Data, StatusIsTrue, Live
<1> QED BY <1>1, <1>6, <1>7, <1>11, <1>12, <1>15, <1>16, <1>17 DEF Data

\* The SELL is sent, executes or ends.
LEMMA DataSale ==
    ASSUME Data, sale' \in SaleType, base' \in Nat, base' <= base,
           base' + sale'.exec = base + sale.exec, UNCHANGED <<row, lists, rate, lapsed>>
    PROVE  Data'
<1>1. DataType'
  BY Numbers DEF Data, DataType
<1>2. ListsOK'
  BY DEF Data, ListsOK, ListOK
<1>3. RowOK'
  BY DEF Data, RowOK, ListsFit, Over, Outstanding, Executed
<1>4. StatusIsTrue'
  BY DEF Data, StatusIsTrue, Live
<1>5. LedgerExact'
  <2>1. sale'.exec \in Nat
    BY NoListShape DEF SaleType, Qty
  <2>2. Untold' = Untold /\ Untold \in Nat
    BY UntoldShape DEF Untold, Executed
  <2> QED BY <2>1, <2>2, LedgerMoves, Numbers DEF Data
<1> QED BY <1>1, <1>2, <1>3, <1>4, <1>5 DEF Data

LEMMA DataRate ==
    ASSUME Data, rate' \in Rates, UNCHANGED <<row, lists, base, sale, lapsed>>
    PROVE  Data'
BY DEF Data, DataType, ListsOK, ListOK, RowOK, ListsFit, LedgerExact, Untold,
       StatusIsTrue, Over, Outstanding, Live, Executed

\* The SELL is over: its executions leave the row, and the row the account.
\* After a lapse the row may name a list, and hold less than was sold.
LEMMA DataSettle ==
    ASSUME Data, SaleOK, SettleSale, UNCHANGED <<lists, base, rate, lapsed>>
    PROVE  Data'
<1>1. sale' = NoSale /\ sale' \in SaleType /\ sale'.exec = 0
  BY NoListShape DEF SettleSale, NoSale, SaleType, Qty
<1>2. ASSUME ~lapsed PROVE row.list = NoList /\ sale.exec <= row.qty
  <2>1. HasUnresolved
    BY DEF SettleSale, HasUnresolved, NoSale
  <2> QED BY <1>2, <2>1, Numbers DEF SaleOK, SalePending, SettleSale, Data
<1>3. ListsOK'
  BY DEF Data, ListsOK, ListOK
<1>4. Untold \in Nat /\ (~lapsed => Untold = 0)
  BY <1>2, UntoldShape
<1>5. CASE row' = row /\ sale.exec = 0
  <2>1. base' \in Nat /\ base' <= base /\ base' + sale'.exec = base + sale.exec
    BY <1>1, <1>5, Numbers DEF Data
  <2> QED BY <1>1, <1>5, <2>1, DataSale
<1>6. CASE row' = FlatRow /\ sale.exec >= row.qty
  <2>1. DataType'
    BY <1>1, <1>6, NoListShape DEF Data, DataType, RowType, FlatRow, Qty
  <2>2. RowOK'
    <3>1. ASSUME ~lapsed PROVE ListsFit'
      BY <1>2, <1>6, <3>1, NoListShape DEF Data, RowOK, ListsFit, FlatRow, Over, Outstanding
    <3> QED BY <1>6, <3>1, NoListShape DEF RowOK, FlatRow
  <2>3. LedgerExact'
    <3>1. Untold' = 0 /\ row'.qty = 0
      BY <1>6 DEF Untold, FlatRow
    <3> QED BY <1>1, <1>2, <1>4, <1>6, <3>1, Numbers, NoListShape
            DEF Data, LedgerExact
  <2>4. StatusIsTrue'
    BY <1>6 DEF StatusIsTrue, FlatRow
  <2> QED BY <1>3, <2>1, <2>2, <2>3, <2>4 DEF Data
<1>7. CASE /\ row' = [row EXCEPT !.qty = @ - sale.exec] /\ row.open
           /\ sale.exec < row.qty
  <2>1. /\ row'.qty = row.qty - sale.exec /\ row'.open /\ row'.list = row.list
        /\ row'.from = row.from /\ row'.applied = row.applied
        /\ row'.status = row.status /\ row' \in RowType
    <3>1. row.qty - sale.exec \in Qty
      BY <1>7, RowShape, SaleShape, NoListShape DEF Data, Qty
    <3> QED BY <1>7, <3>1 DEF Data, DataType, RowType
  <2>2. DataType'
    BY <1>1, <2>1 DEF Data, DataType
  <2>3. RowOK'
    <3>1. /\ row.from <= row.applied /\ row.qty + row.applied <= MaxQty
          /\ row.list = NoList <=> row.status = "NONE"
          /\ row.list # NoList => /\ lists[row.list].state # "NONE"
                                  /\ row.applied <= row.from + Executed(row.list)
      BY DEF Data, RowOK
    <3>2. row'.qty > 0 /\ row'.qty + row'.applied <= MaxQty
      BY <1>7, <2>1, <3>1, Numbers DEF Data
    <3>3. ASSUME ~lapsed PROVE ListsFit'
      BY <1>2, <2>1, <3>3 DEF Data, RowOK, ListsFit, Over, Outstanding
    <3> QED BY <2>1, <3>1, <3>2, <3>3 DEF RowOK, Executed
  <2>4. LedgerExact'
    <3>1. Untold' = Untold
      BY <2>1 DEF Untold, Executed
    <3>2. row'.qty \in Nat /\ row'.qty = row.qty - sale.exec
      BY <1>7, <2>1, Numbers DEF Data
    <3> QED BY <1>1, <1>4, <3>1, <3>2, LedgerMoves, Numbers DEF Data
  <2>5. StatusIsTrue'
    BY <2>1 DEF Data, StatusIsTrue, Live
  <2> QED BY <1>3, <2>2, <2>3, <2>4, <2>5 DEF Data
<1> QED BY <1>5, <1>6, <1>7, Numbers DEF SettleSale, AfterSale, Data

\* A bought position is recorded.
LEMMA DataOpen ==
    ASSUME Data, SaleOK, NEW q \in Qty \ {0}, OpenPosition(q),
           UNCHANGED <<lists, rate, sale, lapsed>>
    PROVE  Data'
<1>1. row = FlatRow /\ row.list = NoList /\ row.qty = 0 /\ sale.exec = 0
  BY DEF Data, RowOK, FlatRow, OpenPosition, HasUnresolved, NoSale
<1>2. Untold = 0 /\ base <= InitialBase
  BY <1>1, UntoldShape, Numbers DEF Data, LedgerExact
<1>3. /\ row'.qty = q /\ row'.open /\ row'.list = NoList /\ row'.status = "NONE"
      /\ row'.from = 0 /\ row'.applied = 0 /\ row' \in RowType
  <2>1. row' = [open |-> TRUE, qty |-> q, list |-> NoList, status |-> "NONE",
                from |-> 0, applied |-> 0, fromFee |-> 0, fee |-> 0]
    BY DEF OpenPosition, OpenedRow, FlatRow
  <2>2. 0 \in Qty /\ 0 \in Nat
    BY NoListShape DEF Qty
  <2> QED BY <2>1, <2>2 DEF RowType
<1>4. q \in Nat /\ q > 0 /\ q <= MaxQty /\ base' = base + q
  BY NoListShape DEF Qty, OpenPosition
<1>5. DataType'
  <2>1. base' \in 0 .. InitialBase + MaxQty
    BY <1>2, <1>4, Numbers DEF Data
  <2> QED BY <1>3, <2>1 DEF Data, DataType
<1>6. ListsOK'
  BY DEF Data, ListsOK, ListOK
<1>7. RowOK'
  <2>1. ASSUME ~lapsed PROVE ListsFit'
    BY <1>1, <1>3, <2>1 DEF Data, RowOK, ListsFit, Over, Outstanding
  <2> QED BY <1>3, <1>4, <2>1, NoListShape DEF RowOK
<1>8. LedgerExact'
  <2>1. Untold' = 0
    BY <1>3 DEF Untold
  <2>2. base' \in Nat
    BY <1>4, Numbers DEF Data
  <2> QED BY <1>1, <1>2, <1>3, <1>4, <2>1, <2>2, LedgerMoves, Numbers DEF Data
<1>9. StatusIsTrue'
  BY <1>3 DEF StatusIsTrue
<1> QED BY <1>5, <1>6, <1>7, <1>8, <1>9 DEF Data

\* The list executed all it was placed for: nothing of it can sell any more.
LEMMA SoldOutIsOver ==
    ASSUME Data, ~lapsed, row.list # NoList, lists[row.list].state = "ACCEPTED",
           Untold = row.qty
    PROVE  Over(row.list)
<1> DEFINE L == lists[row.list]
<1>1. /\ row.list \in Lists /\ ListOK(row.list) /\ row.open /\ row.qty > 0
      /\ L.qty = row.qty + (row.applied - row.from)
  BY RowShape DEF Data, RowOK, ListsFit, ListsOK
<1>2. Executed(row.list) = L.qty
  BY <1>1, UntoldShape, Numbers, ListShape DEF Data
<1>3. L.legs["tp"].exec \in Nat /\ L.legs["sl"].exec \in Nat
  BY <1>1, ListShape, NoListShape DEF Data, Qty
<1>4. \/ L.legs["tp"].exec = 0 /\ L.legs["sl"].exec = L.qty
      \/ L.legs["sl"].exec = 0 /\ L.legs["tp"].exec = L.qty
  BY <1>1, <1>2, <1>3 DEF ListOK, Executed, Legs
<1>5. L.qty > 0 /\ L.qty \in Nat
  BY <1>1, ListShape, NoListShape, Numbers DEF Data, RowOK, Qty
<1>6. \A g \in Legs : L.legs[g].status \in Active => L.legs[g].exec < L.qty
  BY <1>1 DEF ListOK
<1>7. CASE L.legs["tp"].exec = 0 /\ L.legs["sl"].exec = L.qty
  <2>1. L.legs["sl"].status \notin Active
    BY <1>5, <1>6, <1>7 DEF Legs
  <2> QED BY <1>5, <1>7, <2>1 DEF Over, Outstanding, Legs, Sibling
<1>8. CASE L.legs["sl"].exec = 0 /\ L.legs["tp"].exec = L.qty
  <2>1. L.legs["tp"].status \notin Active
    BY <1>5, <1>6, <1>8 DEF Legs
  <2> QED BY <1>5, <1>8, <2>1 DEF Over, Outstanding, Legs, Sibling
<1> QED BY <1>4, <1>7, <1>8

\* The fills of the list are applied.
LEMMA DataBook ==
    ASSUME Data, row.list # NoList, lists[row.list].state = "ACCEPTED", FillsAgree,
           \/ row' = Booked
           \/ Booked.open /\ row' = [Booked EXCEPT !.status = "UNKNOWN"],
           UNCHANGED <<lists, base, rate, sale, lapsed>>
    PROVE  /\ Data'
           /\ row'.open =>
                /\ row'.list = row.list /\ row'.from = row.from
                /\ row'.applied = row.from + Executed(row.list)
                /\ (row' = Booked => row'.status = row.status)
<1>1. /\ row.list \in Lists /\ row.open /\ sale.exec \in Nat
      /\ Executed(row.list) \in Nat /\ SeenExecuted = Executed(row.list)
      /\ Total = row.from + Executed(row.list) /\ Untold = Total - row.applied
  BY RowShape, ListShape, Numbers DEF Data, RowOK, FillsAgree, Total, Untold
<1>2. /\ row.applied <= Total /\ Total - row.applied <= row.qty /\ Total \in Nat
  BY <1>1, Numbers DEF Data, FillsAgree, Bookable
<1>3. CASE Total = row.applied
  <2>1. Booked = row
    BY <1>3 DEF Booked, AfterFill
  <2>2. CASE row' = row
    <3>1. Data'
      BY <2>2, DataSame
    <3> QED BY <1>1, <1>3, <2>2, <3>1
  <2>3. CASE row' = [row EXCEPT !.status = "UNKNOWN"]
    <3>1. Data'
      BY <2>3, DataStatus
    <3>2. /\ row'.list = row.list /\ row'.from = row.from /\ row'.applied = row.applied
          /\ row' = row => row'.status = row.status
      BY <2>3 DEF Data, DataType, RowType
    <3> QED BY <1>1, <1>3, <2>1, <3>1, <3>2
  <2> QED BY <2>1, <2>2, <2>3
<1>4. CASE Total - row.applied = row.qty /\ Total # row.applied
  <2>1. row' = FlatRow /\ ~row'.open
    BY <1>4 DEF Booked, AfterFill, FlatRow
  <2>2. DataType'
    BY <2>1, NoListShape DEF Data, DataType, RowType, FlatRow, Qty
  <2>3. ListsOK'
    BY DEF Data, ListsOK, ListOK
  <2>4. RowOK'
    <3>1. ASSUME ~lapsed PROVE ListsFit'
      <4>1. Over(row.list)
        BY <1>1, <1>4, <3>1, SoldOutIsOver
      <4> QED BY <2>1, <3>1, <4>1, NoListShape
              DEF Data, RowOK, ListsFit, FlatRow, Over, Outstanding
    <3> QED BY <2>1, <3>1, NoListShape DEF RowOK, FlatRow
  <2>5. LedgerExact'
    <3>1. Untold' = 0 /\ row'.qty = 0
      BY <2>1 DEF Untold, FlatRow
    <3> QED BY <1>1, <1>4, <3>1, LedgerMoves, Numbers DEF Data
  <2>6. StatusIsTrue'
    BY <2>1 DEF StatusIsTrue, FlatRow
  <2> QED BY <2>1, <2>2, <2>3, <2>4, <2>5, <2>6 DEF Data
<1>5. CASE Total - row.applied < row.qty /\ Total # row.applied
  <2> DEFINE q == row.qty - (Total - row.applied)
  <2>1. Booked = [row EXCEPT !.qty = q, !.applied = Total, !.fee = TotalFee]
    BY <1>2, <1>5, Numbers DEF Booked, AfterFill, Data
  <2>2. /\ q \in Qty /\ q > 0 /\ Total \in Qty /\ q + Total = row.qty + row.applied
    BY <1>1, <1>2, <1>5, Numbers DEF Data, RowOK, Qty
  <2>3. TotalFee \in Nat
    <3>1. \A m, n, k \in Nat : k + m * n \in Nat
      OBVIOUS
    <3>2. rate \in Nat /\ row.fromFee \in Nat /\ SeenExecuted \in Nat
      BY <1>1, RowShape, RateAssumption DEF Data, DataType
    <3> QED BY <3>1, <3>2 DEF TotalFee
  <2>4. /\ row'.open /\ row'.list = row.list /\ row'.from = row.from
        /\ row'.applied = Total /\ row'.qty = q /\ row' \in RowType
        /\ row'.status \in {row.status, "UNKNOWN"}
        /\ row' = Booked => row'.status = row.status
    BY <1>1, <2>1, <2>2, <2>3 DEF Data, DataType, RowType
  <2>5. DataType'
    BY <2>4 DEF Data, DataType
  <2>6. ListsOK'
    BY DEF Data, ListsOK, ListOK
  <2>7. RowOK'
    <3>1. /\ row.from <= Total /\ q + Total <= MaxQty
          /\ lists[row.list].state # "NONE"
      BY <1>1, <1>2, <2>2, Numbers DEF Data, RowOK, Qty
    <3>2. ASSUME ~lapsed PROVE ListsFit'
      <4>1. \A k \in Lists \ {row.list} : lists'[k].state = "NONE" \/ Over(k)'
        BY <3>2 DEF Data, RowOK, ListsFit, Over, Outstanding
      <4>2. lists[row.list].qty = q + (Total - row.from)
        BY <1>1, <1>2, <2>2, <3>2, Numbers DEF Data, RowOK, ListsFit, Qty
      <4>3. lists' = lists
        OBVIOUS
      <4> HIDE DEF q
      <4> QED BY <2>4, <4>1, <4>2, <4>3 DEF ListsFit
    <3>3. Executed(row.list)' = Executed(row.list)
      BY <2>4 DEF Executed
    <3>4. row.status # "NONE"
      BY DEF Data, RowOK
    <3>5. Total <= row.from + Executed(row.list)
      BY <1>1, <1>2
    <3>6. lists' = lists /\ row.list # NoList /\ lapsed' = lapsed
      OBVIOUS
    <3> QED BY <1>1, <2>2, <2>4, <3>1, <3>2, <3>3, <3>4, <3>5, <3>6 DEF RowOK
  <2>8. LedgerExact'
    <3>1. Untold' = 0
      BY <1>1, <2>4, Numbers DEF Data, Untold, Executed
    <3>2. q \in Nat /\ q = row.qty - Untold /\ Untold \in Nat
      BY <1>1, <2>2, UntoldShape, Numbers, NoListShape DEF Data, Qty
    <3> HIDE DEF q
    <3> QED BY <2>4, <3>1, <3>2, LedgerMoves, Numbers DEF Data
  <2>9. StatusIsTrue'
    BY <2>4 DEF Data, StatusIsTrue, Live
  <2> QED BY <1>1, <2>4, <2>5, <2>6, <2>7, <2>8, <2>9 DEF Data
<1> QED BY <1>2, <1>3, <1>4, <1>5, Numbers DEF Data

-----------------------------------------------------------------------------
(* Control: what the broker has read still holds. *)

\* No SELL is pending beside what goes on, unless there was a lapse.
NoneBeside == lapsed \/ sale = NoSale

LEMMA NoSalePending ==
    ASSUME Control,
           \/ row.list # NoList
           \/ pc \notin {"sell", "idle", "orders", "protect", "place"}
    PROVE  NoneBeside
BY DEF Control, SaleOK, SalePending, HasUnresolved, NoneBeside

\* An exit goes on, or is none.
ExitGoesOn == call' = "exit" => sale = NoSale \/ (call = "exit" /\ pc # "sell")

LEMMA SaleStaysNone ==
    ASSUME Control, NoneBeside, ExitGoesOn, UNCHANGED <<sale, lapsed>>
    PROVE  SaleOK'
BY DEF Control, SaleOK, HasUnresolved, NoSale, NoneBeside, ExitGoesOn

LEMMA NothingSeen == NotSeen.legs \in [Legs -> LegState] /\ NotSeen.list = "NONE"
BY NoListShape DEF NotSeen, FreshLegs, LegState, LegStatus, Active, Legs, Qty

LEMMA NotSeenType ==
    NotSeen \in [list : {"NONE", "EXECUTING", "TERMINAL"}, legs : [Legs -> LegState]]
BY NothingSeen DEF NotSeen

\* After the outermost call nothing that was read is used again.
LEMMA LeaveForgets ==
    ASSUME ControlType, NEW ok \in BOOLEAN, Leave(ok)
    PROVE  /\ ControlType' /\ SeenOK' /\ CallOK'
           /\ pc' \in {"idle", "protect"} /\ (call # "recover" => pc' = "idle")
<1>1. pc' \in {"idle", "protect"} /\ (call # "recover" => pc' = "idle")
  BY DEF Leave
<1>2. ControlType'
  BY NotSeenType, <1>1 DEF Leave, ControlType
<1>3. SeenOK' /\ CallOK'
  BY <1>1 DEF SeenOK, CallOK, Answered, Legs
<1> QED BY <1>1, <1>2, <1>3

\* The row keeps its list and its sums.
LEMMA SameSums ==
    ASSUME lists' = lists, row'.list = row.list, row'.from = row.from,
           row'.applied = row.applied
    PROVE  /\ Settled' <=> Settled
           /\ Live(row.list)' <=> Live(row.list)
BY DEF Settled, Over, Outstanding, Executed, Live

LEMMA StatusRow ==
    ASSUME DataType, NEW s, row' = [row EXCEPT !.status = s]
    PROVE  /\ row'.open = row.open /\ row'.qty = row.qty /\ row'.list = row.list
           /\ row'.from = row.from /\ row'.applied = row.applied /\ row'.status = s
BY DEF DataType, RowType

\* The call returns and changes nothing.
LEMMA LeaveStep ==
    ASSUME Data, Control, NoneBeside, NEW ok \in BOOLEAN, Leave(ok),
           UNCHANGED <<row, exchange, sale, lapsed>>
    PROVE  Data' /\ Control'
<1>1. Data'
  BY DataSame DEF exchange
<1>2. SaleOK'
  BY SaleStaysNone DEF Leave, ExitGoesOn
<1> QED BY <1>1, <1>2, LeaveForgets DEF Control

\* The outcome is kept as unknown.
LEMMA UnverifiedStep ==
    ASSUME Data, Control, row.list # NoList, Unverified, UNCHANGED <<exchange, sale, lapsed>>
    PROVE  Data' /\ Control'
<1>1. Data'
  BY DataStatus DEF Unverified, SetStatus, exchange
<1>2. SaleOK'
  BY NoSalePending, SaleStaysNone DEF Unverified, Leave, ExitGoesOn
<1> QED BY <1>1, <1>2, LeaveForgets DEF Control, Unverified

\* A list that is accounted for is replaced.
LEMMA RearmStep ==
    ASSUME Data, Control, pc # "sell", row.list # NoList, Settled, Rearm,
           UNCHANGED <<exchange, sale, lapsed>>
    PROVE  Data' /\ Control'
<1>1. Data'
  BY DataClear DEF Rearm, exchange
<1>2. SaleOK'
  BY NoSalePending, SaleStaysNone DEF Rearm, ExitGoesOn
<1>3. row'.open /\ row'.list = NoList
  BY DEF Data, DataType, RowType, RowOK, Rearm, Cleared
<1>4. ControlType'
  BY NotSeenType DEF Control, ControlType, Rearm
<1>5. SeenOK' /\ CallOK'
  BY <1>3 DEF Rearm, SeenOK, CallOK, Answered, Legs
<1> QED BY <1>1, <1>2, <1>4, <1>5 DEF Control

\* A step to another point of the same call.
LEMMA GotoStep ==
    ASSUME Data, Control, UNCHANGED <<row, exchange, sale, lapsed>>,
           NEW point \in {"lookup", "fills", "place", "balance", "cancel", "quiet",
                          "orders", "protect"}, Goto(point),
           \/ NoneBeside /\ pc # "sell"
           \/ pc = "idle" /\ point = "orders"
           \/ pc = "orders" /\ point = "protect",
           point \in {"place", "balance"} => row.open /\ row.list = NoList,
           point \in {"lookup", "cancel"} => row.list # NoList,
           point \in {"fills", "quiet"} => pc = "legs",
           point = "quiet" /\ row.status = "TERMINAL" => Settled,
           point \in {"balance", "cancel"} => call = "exit"
    PROVE  Data' /\ Control'
<1>1. Data'
  BY DataSame DEF exchange
<1>2. ControlType'
  BY DEF Control, ControlType, Goto
<1>3. SaleOK'
  <2>1. CASE NoneBeside /\ pc # "sell"
    BY <2>1, SaleStaysNone DEF Goto, ExitGoesOn
  <2>2. CASE \/ pc = "idle" /\ point = "orders"
             \/ pc = "orders" /\ point = "protect"
    <3>1. pc' = point /\ UNCHANGED <<row, sale, lapsed, call>>
      BY DEF Goto
    <3> QED BY <2>2, <3>1 DEF Control, SaleOK, SalePending, HasUnresolved, NoSale
  <2> QED BY <2>1, <2>2
<1>4. Settled' <=> Settled
  BY SameSums DEF exchange
<1>5. SeenOK'
  BY <1>4 DEF Control, SeenOK, Goto, Answered, Legs
<1>6. CallOK'
  BY DEF Control, CallOK, Goto, Legs
<1> QED BY <1>1, <1>2, <1>3, <1>5, <1>6 DEF Control

-----------------------------------------------------------------------------
(* The steps. *)

\* What pc says of the row and the list.
LEMMA Standing ==
    ASSUME Data, Control
    PROVE  /\ Answered => /\ row.list \in Lists /\ row.open
                          /\ row.status \in {"EXECUTING", "TERMINAL"} =>
                               lists[row.list].state = "ACCEPTED"
                          /\ row.status = "TERMINAL" => Over(row.list)
           /\ row.list # NoList => row.open /\ row.list \in Lists
<1>1. row.list # NoList => row.open /\ row.list \in Lists
  BY RowShape DEF Data, RowOK
<1>2. Answered => row.list # NoList
  BY DEF Control, SeenOK
<1>3. row.status = "TERMINAL" =>
        lists[row.list].state = "ACCEPTED" /\ ~Live(row.list)
  BY DEF Data, StatusIsTrue
<1>4. row.status \in {"EXECUTING", "TERMINAL"} => lists[row.list].state = "ACCEPTED"
  BY DEF Data, StatusIsTrue
<1> QED BY <1>1, <1>2, <1>3, <1>4, DeadIsOver

\* _place_exchange_protection.
LEMMA PlaceSteps ==
    ASSUME Data, Control, PlaceStep
    PROVE  Data' /\ Control'
<1>1. CASE Place
  <2>1. row.open /\ row.list = NoList
    BY <1>1 DEF Place, Control, SeenOK
  <2>2. PICK l \in Lists :
          /\ lists[l].state = "NONE"
          /\ lists' = [lists EXCEPT ![l].state = "MINTED", ![l].qty = row.qty]
          /\ row' = NewIdentity(row, l)
    BY <1>1 DEF Place
  <2>3. Data'
    BY <1>1, <2>1, <2>2, DataIdentity DEF Place
  <2>4. row'.list = l /\ lists'[l].state = "MINTED" /\ l # NoList
    BY <2>2, NoListShape DEF Data, DataType, RowType, NewIdentity, ListState
  <2>5. SaleOK'
    BY <1>1 DEF Place, Goto, Control, SaleOK, HasUnresolved, NoSale
  <2>6. ControlType' /\ CallOK'
    BY <1>1 DEF Place, Goto, Control, ControlType, CallOK, Legs
  <2>7. SeenOK'
    BY <1>1, <2>4 DEF Place, Goto, SeenOK, Answered, Legs
  <2> QED BY <2>3, <2>5, <2>6, <2>7 DEF Control
<1>2. CASE Send
  <2>1. row.list # NoList /\ lists[row.list].state = "MINTED" /\ row.list \in Lists
    BY <1>2, Standing DEF Send, Control, SeenOK
  <2>2. Data'
    BY <1>2, <2>1, DataListState DEF Send
  <2>3. SaleOK'
    BY <1>2, <2>1, NoSalePending, SaleStaysNone DEF Send, Goto, ExitGoesOn
  <2>4. ControlType' /\ CallOK'
    BY <1>2 DEF Send, Goto, Control, ControlType, CallOK, Legs
  <2>5. SeenOK'
    BY <1>2, <2>1 DEF Send, Goto, SeenOK, Answered, Legs
  <2> QED BY <2>2, <2>3, <2>4, <2>5 DEF Control
<1>3. CASE PlaceFails
  <2>1. row.list # NoList
    BY <1>3 DEF PlaceFails, Control, SeenOK
  <2>2. NoneBeside
    BY <2>1, NoSalePending
  <2> QED BY <1>3, <2>1, <2>2, GotoStep DEF PlaceFails
<1>4. CASE PlaceAnswered
  <2>1. row.list # NoList
    BY <1>4 DEF PlaceAnswered, Control, SeenOK
  <2>2. Data'
    BY <1>4, DataSame DEF PlaceAnswered, exchange
  <2>3. SaleOK'
    BY <1>4, <2>1, NoSalePending, SaleStaysNone DEF PlaceAnswered, ExitGoesOn
  <2>4. /\ seen' \in [list : {"NONE", "EXECUTING", "TERMINAL"}, legs : [Legs -> LegState]]
        /\ seen'.list = ListStatus(row.list)
    BY <1>4, NotSeenType DEF PlaceAnswered, ListStatus
  <2>5. ControlType' /\ CallOK'
    BY <1>4, <2>4 DEF PlaceAnswered, Control, ControlType, CallOK, Legs
  <2>6. SeenOK'
    BY <1>4, <2>1, <2>4
       DEF PlaceAnswered, exchange, SeenOK, Answered, Legs, ListStatus, Live
  <2> QED BY <2>2, <2>3, <2>5, <2>6 DEF Control
<1>5. CASE LookupFails \/ ConfirmRejects
  <2>1. row.list # NoList
    BY <1>5 DEF LookupFails, ConfirmRejects, Control, SeenOK
  <2> QED BY <1>5, <2>1, UnverifiedStep DEF LookupFails, ConfirmRejects
<1>6. CASE ConfirmActive
  <2>1. row.list # NoList /\ lists[row.list].state = "ACCEPTED"
    BY <1>6 DEF ConfirmActive, Control, SeenOK
  <2>2. Data'
    BY <1>6, <2>1, DataStatus DEF ConfirmActive, SetStatus, exchange
  <2>3. SaleOK'
    BY <1>6, <2>1, NoSalePending, SaleStaysNone DEF ConfirmActive, Leave, ExitGoesOn
  <2> QED BY <1>6, <2>2, <2>3, LeaveForgets DEF ConfirmActive, Control
<1>7. CASE ConfirmTerminal
  <2>1. row.list # NoList /\ lists[row.list].state = "ACCEPTED" /\ ~Live(row.list)
    BY <1>7 DEF ConfirmTerminal, Control, SeenOK
  <2>2. Data'
    BY <1>7, <2>1, DataStatus DEF ConfirmTerminal, SetStatus, exchange
  <2>3. SaleOK'
    BY <1>7, <2>1, NoSalePending, SaleStaysNone DEF ConfirmTerminal, AskFill, ExitGoesOn
  <2>4. ControlType' /\ CallOK'
    BY <1>7, NotSeenType
       DEF ConfirmTerminal, AskFill, Control, ControlType, CallOK, Legs
  <2>5. row'.list = row.list /\ lists' = lists
    BY <1>7 DEF ConfirmTerminal, SetStatus, exchange, Data, DataType, RowType
  <2>6. SeenOK'
    BY <1>7, <2>1, <2>5 DEF ConfirmTerminal, AskFill, SeenOK, Answered, Legs, Live
  <2> QED BY <2>2, <2>3, <2>4, <2>6 DEF Control
<1>8. CASE PlaceClosed
  <2>1. NoneBeside
    BY <1>8, NoSalePending DEF PlaceClosed
  <2> QED BY <1>8, <2>1, LeaveStep DEF PlaceClosed
<1>9. CASE PlaceRearms
  <2>1. row.list # NoList /\ row.status = "TERMINAL"
    BY <1>9 DEF PlaceRearms, Control, SeenOK, Answered
  <2>2. Settled
    BY <1>9, <2>1 DEF PlaceRearms, Control, SeenOK
  <2> QED BY <1>9, <2>1, <2>2, RearmStep DEF PlaceRearms
<1>10. CASE PlaceGivesUp
  <2>1. row.list # NoList
    BY <1>10 DEF PlaceGivesUp, Control, SeenOK, Answered
  <2> QED BY <1>10, <2>1, UnverifiedStep DEF PlaceGivesUp
<1> QED BY <1>1, <1>2, <1>3, <1>4, <1>5, <1>6, <1>7, <1>8, <1>9, <1>10 DEF PlaceStep

\* _protective_fill.
LEMMA FillSteps ==
    ASSUME Data, Control, FillStep
    PROVE  Data' /\ Control'
<1>1. CASE QueryList
  <2>1. row.list # NoList
    BY <1>1 DEF QueryList, Control, SeenOK
  <2>2. Data'
    BY <1>1, <2>1, DataStatus DEF QueryList, SetStatus, exchange, ListStatus
  <2>3. SaleOK'
    BY <1>1, <2>1, NoSalePending, SaleStaysNone DEF QueryList, ExitGoesOn
  <2>4. /\ seen' \in [list : {"NONE", "EXECUTING", "TERMINAL"}, legs : [Legs -> LegState]]
        /\ seen'.list = ListStatus(row.list)
    BY <1>1 DEF QueryList, ListStatus, Control, ControlType
  <2>5. ControlType' /\ CallOK'
    BY <1>1, <2>4 DEF QueryList, Control, ControlType, CallOK, Legs
  <2>6. row'.list = row.list /\ row'.status = ListStatus(row.list)
    BY <1>1, StatusRow DEF QueryList, SetStatus, Data
  <2>7. stage \in {"place", "cancel"} => ListStatus(row.list) = "TERMINAL"
    BY <1>1 DEF QueryList, Control, SeenOK, ListStatus
  <2>8. SeenOK'
    BY <1>1, <2>1, <2>4, <2>6, <2>7 DEF QueryList, SeenOK, Answered, Legs
  <2> QED BY <2>2, <2>3, <2>5, <2>8 DEF Control
<1>2. CASE QueryListFails
  <2>1. row.list # NoList
    BY <1>2 DEF QueryListFails, Control, SeenOK
  <2>2. NoneBeside
    BY <2>1, NoSalePending
  <2>3. CASE stage = "place"
    BY <1>2, <2>1, <2>3, UnverifiedStep DEF QueryListFails, Unverified
  <2>4. CASE stage # "place"
    BY <1>2, <2>2, <2>4, LeaveStep DEF QueryListFails
  <2> QED BY <2>3, <2>4
<1>3. CASE AnswerRejected
  <2>1. row.list # NoList
    BY <1>3 DEF AnswerRejected, Control, SeenOK, Answered
  <2> QED BY <1>3, <2>1, UnverifiedStep DEF AnswerRejected
<1>4. ASSUME NEW g \in Legs, QueryLeg(g) PROVE Data' /\ Control'
  <2>1. row.list \in Lists /\ row.list # NoList
    BY <1>4, Standing, NoListShape DEF QueryLeg, Answered
  <2>2. Data'
    BY <1>4, DataSame DEF QueryLeg, exchange
  <2>3. SaleOK'
    BY <1>4, <2>1, NoSalePending, SaleStaysNone DEF QueryLeg, Legs, ExitGoesOn
  <2>4. lists[row.list].legs[g] \in LegState
    BY <2>1, ListShape DEF Data
  <2>5. /\ seen' \in [list : {"NONE", "EXECUTING", "TERMINAL"}, legs : [Legs -> LegState]]
        /\ seen'.list = seen.list
        /\ seen'.legs[g] = lists[row.list].legs[g]
        /\ \A h \in Legs \ {g} : seen'.legs[h] = seen.legs[h]
    BY <1>4, <2>4 DEF QueryLeg, Control, ControlType
  <2>6. ControlType'
    BY <1>4, <2>5 DEF QueryLeg, Control, ControlType, Legs
  <2>7. CallOK'
    BY <1>4 DEF QueryLeg, Control, CallOK, Legs
  <2>8. SeenOK'
    <3>1. CASE g = "tp"
      BY <1>4, <2>5, <3>1 DEF QueryLeg, exchange, Control, SeenOK, Answered, Legs
    <3>2. CASE g = "sl"
      BY <1>4, <2>5, <3>2 DEF QueryLeg, exchange, Control, SeenOK, Answered, Legs
    <3> QED BY <3>1, <3>2 DEF Legs
  <2> QED BY <2>2, <2>3, <2>6, <2>7, <2>8 DEF Control
<1>5. CASE LegsQuiet
  <2>1. Answered /\ row.list \in Lists /\ row.list # NoList
    BY <1>5, Standing, NoListShape DEF LegsQuiet, Answered
  <2>2. NoneBeside
    BY <2>1, NoSalePending
  <2>3. ASSUME row.status = "TERMINAL" PROVE Settled
    <3>1. Over(row.list) /\ seen.list = "TERMINAL"
      BY <2>1, <2>3, Standing DEF Control, SeenOK
    <3>2. Executed(row.list) = 0
      BY <1>5, <3>1 DEF LegsQuiet, Control, SeenOK, SeenExecuted, Executed
    <3>3. row.applied <= row.from + Executed(row.list) /\ row.from <= row.applied
      BY <2>1 DEF Data, RowOK
    <3>4. row.applied = row.from + Executed(row.list)
      BY <3>2, <3>3, Numbers DEF Data
    <3> QED BY <3>1, <3>4 DEF Settled
  <2> QED BY <1>5, <2>2, <2>3, GotoStep DEF LegsQuiet
<1>6. CASE LegsTorn
  <2>1. row.list # NoList
    BY <1>6 DEF LegsTorn, Control, SeenOK, Answered
  <2> QED BY <1>6, <2>1, UnverifiedStep DEF LegsTorn
<1>7. CASE LegsExecuted
  <2>1. NoneBeside
    BY <1>7, NoSalePending DEF LegsExecuted
  <2> QED BY <1>7, <2>1, GotoStep DEF LegsExecuted
<1>8. CASE BookFill
  <2>1. /\ Answered /\ row.list \in Lists /\ row.list # NoList /\ row.open
        /\ lists[row.list].state = "ACCEPTED" /\ row.status = seen.list
        /\ row.status = "TERMINAL" => Over(row.list)
        /\ stage \in {"place", "cancel"} => seen.list = "TERMINAL"
    <3>1. Answered
      BY <1>8 DEF BookFill, FillsAgree, Answered
    <3>2. row.list # NoList /\ row.status = seen.list
      BY <3>1 DEF Control, SeenOK
    <3>3. row.status \in {"EXECUTING", "TERMINAL"}
      <4>1. row.status # "NONE"
        BY <3>2 DEF Data, RowOK
      <4> QED BY <3>2, <4>1 DEF Control, ControlType
    <3>4. stage \in {"place", "cancel"} => seen.list = "TERMINAL"
      BY <3>1 DEF Control, SeenOK
    <3> QED BY <3>1, <3>2, <3>3, <3>4, Standing
  <2>2. /\ Data'
        /\ row'.open =>
             /\ row'.list = row.list /\ row'.from = row.from
             /\ row'.applied = row.from + Executed(row.list)
             /\ row'.status = row.status
    <3>1. row' = Booked /\ FillsAgree /\ UNCHANGED <<lists, base, rate, sale, lapsed>>
      BY <1>8 DEF BookFill, exchange
    <3> QED BY <2>1, <3>1, DataBook
  <2>3. SaleOK'
    BY <1>8, <2>1, NoSalePending, SaleStaysNone
       DEF BookFill, FillsAgree, Goto, ExitGoesOn
  <2>4. pc' \in {"filled", "quiet"} /\ UNCHANGED <<validated, call, stage, retried, seen, lists>>
    BY <1>8 DEF BookFill, Goto, exchange
  <2>5. ControlType'
    BY <2>4 DEF Control, ControlType
  <2>6. CallOK'
    BY <1>8, <2>4 DEF BookFill, FillsAgree, Control, CallOK, Legs
  <2>7. CASE row'.open
    <3>1. row'.status = "TERMINAL" => Settled'
      <4>1. Over(row.list) <=> Over(row.list)'
        BY <2>2, <2>4, <2>7 DEF Over, Outstanding
      <4>2. Executed(row.list)' = Executed(row.list)
        BY <2>2, <2>4, <2>7 DEF Executed
      <4> QED BY <2>1, <2>2, <2>7, <4>1, <4>2 DEF Settled
    <3>2. SeenOK'
      BY <2>1, <2>2, <2>4, <2>7, <3>1 DEF SeenOK, Answered, Legs
    <3> QED BY <2>2, <2>3, <2>5, <2>6, <3>2 DEF Control
  <2>8. CASE ~row'.open
    <3>1. row' = FlatRow
      BY <2>2, <2>8 DEF Data, RowOK
    <3>2. Total # row.applied
      <4>1. Total = row.applied => Booked = row
        BY DEF Booked, AfterFill
      <4> QED BY <1>8, <2>1, <2>8, <4>1 DEF BookFill
    <3>3. row.applied < Total
      <4>1. row.applied <= Total /\ Total \in Nat
        BY <1>8, <2>1, Numbers, ListShape
           DEF BookFill, FillsAgree, Bookable, Total, Data
      <4> QED BY <3>2, <4>1, Numbers DEF Data
    <3>4. pc' = "filled"
      BY <1>8, <3>3 DEF BookFill, Goto
    <3>5. SeenOK'
      BY <2>8, <3>1, <3>4 DEF SeenOK, Answered, Legs, FlatRow
    <3> QED BY <2>2, <2>3, <2>5, <2>6, <3>5 DEF Control
  <2> QED BY <2>7, <2>8
<1>9. CASE BookFillTorn
  <2>1. /\ Answered /\ row.list # NoList /\ lists[row.list].state = "ACCEPTED"
    <3>1. Answered
      BY <1>9 DEF BookFillTorn, FillsAgree, Answered
    <3>2. row.list # NoList /\ row.status = "EXECUTING"
      BY <1>9, <3>1 DEF BookFillTorn, Torn, Control, SeenOK
    <3> QED BY <3>1, <3>2, Standing
  <2>2. Data'
    BY <1>9, <2>1, DataBook DEF BookFillTorn, Torn, exchange
  <2>3. SaleOK'
    BY <1>9, <2>1, NoSalePending, SaleStaysNone DEF BookFillTorn, Leave, ExitGoesOn
  <2> QED BY <1>9, <2>2, <2>3, LeaveForgets DEF BookFillTorn, Control
<1> QED BY <1>1, <1>2, <1>3, <1>4, <1>5, <1>6, <1>7, <1>8, <1>9 DEF FillStep

\* maybe_exit, with _cancel_exchange_protection and the market SELL.
LEMMA ExitSteps ==
    ASSUME Data, Control, ExitStep
    PROVE  Data' /\ Control'
<1>1. CASE StartExit
  <2>1. sale = NoSale /\ NoneBeside
    BY <1>1 DEF StartExit, HasUnresolved, NoneBeside
  <2>2. Data'
    BY <1>1, DataSame DEF StartExit, exchange
  <2>3. SaleOK'
    BY <1>1, <2>1, SaleStaysNone DEF StartExit, ExitGoesOn
  <2>4. ControlType' /\ CallOK'
    BY <1>1 DEF StartExit, Control, ControlType, CallOK, Legs
  <2>5. row.list = NoList => row.status # "TERMINAL"
    BY DEF Data, RowOK
  <2>6. SeenOK'
    BY <1>1, <2>5 DEF StartExit, SeenOK, Answered, Legs
  <2> QED BY <2>2, <2>3, <2>4, <2>6 DEF Control
<1>2. CASE ExitFilled
  <2>1. NoneBeside
    BY <1>2, NoSalePending DEF ExitFilled
  <2> QED BY <1>2, <2>1, LeaveStep DEF ExitFilled
<1>3. CASE ExitChecked
  <2>1. Answered /\ row.open /\ row.list # NoList
    BY <1>3, Standing, NoListShape DEF ExitChecked, Answered
  <2>2. Data'
    BY <1>3, DataSame DEF ExitChecked, exchange
  <2>3. SaleOK'
    BY <1>3, <2>1, NoSalePending, SaleStaysNone DEF ExitChecked, ExitGoesOn
  <2>4. ControlType' /\ CallOK'
    BY <1>3, NotSeenType DEF ExitChecked, Control, ControlType, CallOK, Legs
  <2>5. Settled' <=> Settled
    BY <1>3, SameSums DEF ExitChecked, exchange
  <2>6. SeenOK'
    BY <1>3, <2>1, <2>5 DEF ExitChecked, Control, SeenOK, Answered, Legs
  <2> QED BY <2>2, <2>3, <2>4, <2>6 DEF Control
<1>4. CASE Hold
  <2>1. NoneBeside
    BY <1>4, NoSalePending DEF Hold
  <2> QED BY <1>4, <2>1, LeaveStep DEF Hold
<1>5. CASE HoldAndRearm
  <2>1. Settled
    BY <1>5 DEF HoldAndRearm, Control, SeenOK
  <2> QED BY <1>5, <2>1, RearmStep DEF HoldAndRearm
<1>6. CASE HoldAndPlace
  <2>1. NoneBeside /\ row.open
    BY <1>6, NoSalePending DEF HoldAndPlace, Control, SeenOK
  <2> QED BY <1>6, <2>1, GotoStep DEF HoldAndPlace
<1>7. CASE ExitDue
  <2>1. NoneBeside /\ row.open /\ call = "exit"
    BY <1>7, NoSalePending DEF ExitDue, Control, SeenOK, CallOK
  <2>2. CASE row.list = NoList
    BY <1>7, <2>1, <2>2, GotoStep DEF ExitDue
  <2>3. CASE row.list # NoList
    BY <1>7, <2>1, <2>3, GotoStep DEF ExitDue
  <2> QED BY <2>2, <2>3
<1>8. CASE CancelList
  <2>1. row.list \in Lists /\ row.list # NoList /\ call = "exit"
    BY <1>8, Standing DEF CancelList, Control, SeenOK, CallOK
  <2>2. lists[row.list].state = "ACCEPTED"
    BY <1>8 DEF CancelList, Live
  <2> DEFINE legs == CancelledLegs(row.list)
  <2>3. /\ legs \in [Legs -> LegState]
        /\ \A g \in Legs : /\ legs[g].exec = lists[row.list].legs[g].exec
                           /\ legs[g].status \in {lists[row.list].legs[g].status, "CANCELED"}
                           /\ legs[g].status \notin Active
    <3>1. lists[row.list].legs \in [Legs -> LegState]
      BY <2>1, ListShape DEF Data
    <3>2. ASSUME NEW g \in Legs
          PROVE  /\ legs[g] \in LegState
                 /\ legs[g].exec = lists[row.list].legs[g].exec
                 /\ legs[g].status \in {lists[row.list].legs[g].status, "CANCELED"}
                 /\ legs[g].status \notin Active
      BY <3>1 DEF CancelledLegs, LegState, LegStatus, Active
    <3> QED BY <3>2 DEF CancelledLegs
  <2> HIDE DEF legs
  <2>4. /\ lists' = [lists EXCEPT ![row.list].legs = legs]
        /\ pc = "cancel" /\ UNCHANGED <<row, sale, lapsed, call>>
    BY <1>8 DEF CancelList, AskFill, legs
  <2>5. Data'
    BY <1>8, <2>1, <2>2, <2>3, <2>4, DataLegsEnd DEF CancelList
  <2>6. SaleOK'
    BY <2>1, <2>4, NoSalePending, SaleStaysNone DEF ExitGoesOn
  <2>7. /\ pc' = "list" /\ stage' \in {"cancel", "uncancelled"} /\ seen' = NotSeen
        /\ UNCHANGED <<validated, call, retried>>
    BY <1>8 DEF CancelList, AskFill
  <2>8. ControlType' /\ CallOK'
    BY <2>1, <2>7, NotSeenType DEF Control, ControlType, CallOK, Legs
  <2>9. lists'[row.list].state = "ACCEPTED" /\ lists'[row.list].legs = legs
    BY <2>1, <2>2, <2>4 DEF Data, DataType, ListState
  <2>10. ~Live(row.list)'
    BY <2>3, <2>4, <2>9 DEF Live
  <2>11. SeenOK'
    BY <2>1, <2>4, <2>7, <2>9, <2>10 DEF SeenOK, Answered, Legs
  <2> QED BY <2>5, <2>6, <2>8, <2>11 DEF Control
<1>9. CASE CancelFails
  <2>1. row.list # NoList /\ call = "exit"
    BY <1>9 DEF CancelFails, Control, SeenOK, CallOK
  <2>2. Data'
    BY <1>9, DataSame DEF CancelFails, exchange
  <2>3. SaleOK'
    BY <1>9, <2>1, NoSalePending, SaleStaysNone DEF CancelFails, AskFill, ExitGoesOn
  <2>4. ControlType' /\ CallOK'
    BY <1>9, <2>1, NotSeenType DEF CancelFails, AskFill, Control, ControlType, CallOK, Legs
  <2>5. SeenOK'
    BY <1>9, <2>1 DEF CancelFails, AskFill, SeenOK, Answered, Legs
  <2> QED BY <2>2, <2>3, <2>4, <2>5 DEF Control
<1>10. CASE CancelChecked
  <2>1. row.list # NoList /\ row.status = "TERMINAL" /\ Settled /\ call = "exit"
    BY <1>10 DEF CancelChecked, Control, SeenOK, CallOK, Answered, Legs
  <2>2. Data'
    BY <1>10, <2>1, DataClear DEF CancelChecked, exchange
  <2>3. SaleOK'
    BY <1>10, <2>1, NoSalePending, SaleStaysNone DEF CancelChecked, ExitGoesOn
  <2>4. ControlType' /\ CallOK'
    BY <1>10, <2>1, NotSeenType DEF CancelChecked, Control, ControlType, CallOK, Legs
  <2>5. row'.open /\ row'.list = NoList
    BY <1>10, <2>1 DEF CancelChecked, Cleared, Data, DataType, RowType, RowOK
  <2>6. SeenOK'
    BY <1>10, <2>5 DEF CancelChecked, SeenOK, Answered, Legs
  <2> QED BY <2>2, <2>3, <2>4, <2>6 DEF Control
<1>11. CASE CancelRefused
  <2>1. NoneBeside
    BY <1>11, NoSalePending DEF CancelRefused
  <2> QED BY <1>11, <2>1, LeaveStep DEF CancelRefused
<1>12. CASE SubmitSell
  <2>1. row.open /\ row.list = NoList /\ call = "exit" /\ sale = NoSale
    BY <1>12 DEF SubmitSell, Control, SeenOK, CallOK, SaleOK, HasUnresolved
  <2>2. PICK q \in Nat : q <= row.qty /\ sale' = [state |-> "SENT", req |-> q, exec |-> 0]
    BY <1>12, Numbers DEF SubmitSell, Data
  <2>3. q \in Qty
    BY <2>2, RowShape, NoListShape DEF Data, Qty
  <2>4. sale' \in SaleType /\ sale'.exec = 0 /\ sale'.req = q /\ sale'.state = "SENT"
    BY <2>2, <2>3, NoListShape DEF SaleType, Qty
  <2>5. base' = base /\ UNCHANGED <<row, lists, rate, lapsed>> /\ sale.exec = 0
    BY <1>12, <2>1 DEF SubmitSell, exchange, NoSale
  <2>6. Data'
    BY <2>4, <2>5, DataSale, Numbers DEF Data
  <2>7. SaleOK'
    BY <1>12, <2>1, <2>2, <2>4, <2>5, Numbers
       DEF SubmitSell, Goto, Data, SaleOK, SalePending
  <2>8. ControlType' /\ CallOK'
    BY <1>12, <2>1 DEF SubmitSell, Goto, Control, ControlType, CallOK, Legs
  <2>9. SeenOK'
    BY <1>12 DEF SubmitSell, Goto, SeenOK, Answered, Legs
  <2> QED BY <2>6, <2>7, <2>8, <2>9 DEF Control
<1>13. CASE AbandonSell
  <2>1. NoneBeside
    BY <1>13, NoSalePending DEF AbandonSell
  <2> QED BY <1>13, <2>1, LeaveStep DEF AbandonSell
<1>14. CASE SellSettled
  <2>1. Data'
    BY <1>14, DataSettle DEF SellSettled, Control, exchange
  <2>2. SaleOK'
    BY <1>14 DEF SellSettled, SettleSale, SaleOK, NoSale, HasUnresolved
  <2> QED BY <1>14, <2>1, <2>2, LeaveForgets DEF SellSettled, Control
<1>15. CASE SellUncertain
  <2>1. Data'
    BY <1>15, DataSame DEF SellUncertain, exchange
  <2>2. pc' = "idle"
    BY <1>15, LeaveForgets DEF SellUncertain, Control, CallOK
  <2>3. SaleOK'
    BY <1>15, <2>2
       DEF SellUncertain, Leave, Control, SaleOK, SalePending, HasUnresolved, NoSale
  <2> QED BY <1>15, <2>1, <2>3, LeaveForgets DEF SellUncertain, Control
<1> QED BY <1>1, <1>2, <1>3, <1>4, <1>5, <1>6, <1>7, <1>8, <1>9, <1>10, <1>11,
           <1>12, <1>13, <1>14, <1>15 DEF ExitStep

\* A BUY opens the position that is then protected.
LEMMA OpenSteps ==
    ASSUME Data, Control, Enter \/ RecoverBuy
    PROVE  Data' /\ Control'
<1>1. PICK q \in Qty \ {0} : OpenPosition(q)
  BY DEF Enter, RecoverBuy
<1>2. /\ call' \in {"enter", "recover"}
      /\ UNCHANGED <<lists, rate, sale, validated, stage, retried, seen, lapsed>>
  BY DEF Enter, RecoverBuy
<1>3. Data'
  BY <1>1, <1>2, DataOpen DEF Control
<1>4. SaleOK'
  BY <1>1, <1>2, SaleStaysNone DEF OpenPosition, HasUnresolved, NoneBeside, ExitGoesOn
<1>5. ControlType' /\ CallOK'
  BY <1>1, <1>2 DEF OpenPosition, Control, ControlType, CallOK, Legs
<1>6. row'.open /\ row'.list = NoList
  BY <1>1 DEF OpenPosition, OpenedRow, FlatRow
<1>7. SeenOK'
  BY <1>1, <1>6 DEF OpenPosition, SeenOK, Answered, Legs
<1> QED BY <1>3, <1>4, <1>5, <1>7 DEF Control

\* The start-up sequence, whatever it finds out about the orders.
LEMMA StartSteps ==
    ASSUME Data, Control, StartStep
    PROVE  Data' /\ Control'
<1>1. CASE RecoverBuy
  BY <1>1, OpenSteps
<1>2. CASE StartUp
  BY <1>2, GotoStep DEF StartUp
<1>3. CASE RecoverSale
  <2>1. Data'
    BY <1>3, DataSettle DEF RecoverSale, Control, exchange
  <2>2. SaleOK'
    BY <1>3 DEF RecoverSale, SettleSale, SaleOK, NoSale, HasUnresolved
  <2>3. ControlType' /\ SeenOK' /\ CallOK'
    BY <1>3 DEF RecoverSale, Goto, Control, ControlType, SeenOK, CallOK, Answered, Legs
  <2> QED BY <2>1, <2>2, <2>3 DEF Control
<1>4. CASE OrdersReconciled
  BY <1>4, GotoStep DEF OrdersReconciled
<1>5. CASE StartFlat \/ StartVerify \/ StartInstall
  <2>1. pc = "protect" /\ UNCHANGED <<row, lists, base, rate, sale, lapsed>>
    BY <1>5 DEF StartFlat, StartVerify, StartInstall, exchange
  <2>2. Data'
    BY <2>1, DataSame
  <2>3. call' = "exit" => call = "exit"
    BY <1>5 DEF StartFlat, StartVerify, StartInstall
  <2>4. SaleOK'
    <3>1. CASE StartInstall
      BY <2>1, <2>3, <3>1
         DEF StartInstall, Control, SaleOK, SalePending, HasUnresolved, NoSale
    <3>2. CASE StartFlat \/ StartVerify
      <4>1. NoneBeside
        BY <3>2 DEF StartFlat, StartVerify, Control, SaleOK, SalePending,
                    HasUnresolved, NoneBeside
      <4> QED BY <2>1, <2>3, <4>1, SaleStaysNone DEF ExitGoesOn
    <3> QED BY <1>5, <3>1, <3>2
  <2>5. ControlType' /\ CallOK'
    BY <1>5 DEF StartFlat, StartVerify, StartInstall, Control, ControlType, CallOK, Legs
  <2>6. SeenOK'
    BY <1>5, <2>1 DEF StartFlat, StartVerify, StartInstall, SeenOK, Answered, Legs
  <2> QED BY <2>2, <2>4, <2>5, <2>6 DEF Control
<1>6. CASE Verified
  <2>1. NoneBeside
    BY <1>6, NoSalePending DEF Verified
  <2> QED BY <1>6, <2>1, LeaveStep DEF Verified
<1>7. CASE VerifiedTerminal
  <2>1. row.list # NoList /\ Settled
    BY <1>7 DEF VerifiedTerminal, Control, SeenOK, Answered
  <2> QED BY <1>7, <2>1, RearmStep DEF VerifiedTerminal
<1> QED BY <1>1, <1>2, <1>3, <1>4, <1>5, <1>6, <1>7 DEF StartStep

\* A cancelled cycle and a dead process leave the data and forget the rest.
LEMMA Interruptions ==
    ASSUME Data, Control, Cancel \/ Crash
    PROVE  Data' /\ Control'
<1>1. Data'
  BY DataSame DEF Cancel, Crash, exchange
<1>2. CASE Cancel
  <2>1. Leave(TRUE) /\ UNCHANGED <<row, exchange, sale, lapsed>>
    BY <1>2 DEF Cancel
  <2>2. pc = "sell" => pc' = "idle"
    BY <2>1, LeaveForgets DEF Control, CallOK
  <2>3. SaleOK'
    <3>1. CASE pc = "sell"
      BY <2>1, <2>2, <3>1
         DEF Leave, Control, SaleOK, SalePending, HasUnresolved, NoSale
    <3>2. CASE pc # "sell"
      <4>1. NoneBeside
        BY <1>2, <3>2, NoSalePending DEF Cancel, Awaits, Legs
      <4> QED BY <2>1, <4>1, SaleStaysNone DEF Leave, ExitGoesOn
    <3> QED BY <3>1, <3>2
  <2> QED BY <1>1, <2>1, <2>3, LeaveForgets DEF Control
<1>3. CASE Crash
  <2>1. SaleOK'
    BY <1>3 DEF Crash, Control, SaleOK, SalePending, HasUnresolved, NoSale
  <2>2. ControlType'
    BY <1>3, NotSeenType DEF Crash, Control, ControlType
  <2>3. SeenOK' /\ CallOK'
    BY <1>3 DEF Crash, SeenOK, CallOK, Answered, Legs
  <2> QED BY <1>1, <2>1, <2>2, <2>3 DEF Control
<1> QED BY <1>2, <1>3

-----------------------------------------------------------------------------
(* The exchange. *)

\* What was read of a list that is over stays true: it executes nothing more.
LEMMA ControlKept ==
    ASSUME Data, Control, UNCHANGED <<row, control>>, SaleOK',
           row.list # NoList =>
             /\ lists[row.list].state = "ACCEPTED" => lists'[row.list].state = "ACCEPTED"
             /\ pc = "send" => lists'[row.list].state = lists[row.list].state
             /\ lists[row.list].state = "ACCEPTED" /\ ~Live(row.list) =>
                  /\ ~Live(row.list)'
                  /\ \A g \in Legs :
                       lists'[row.list].legs[g].exec = lists[row.list].legs[g].exec
    PROVE  Control'
<1>1. UNCHANGED <<row, validated, pc, call, stage, retried, seen>>
  BY DEF control
<1>2. ControlType' /\ CallOK'
  BY <1>1 DEF Control, ControlType, CallOK
<1>3. row.status = "TERMINAL" =>
        /\ lists[row.list].state = "ACCEPTED" /\ ~Live(row.list)
        /\ row.list # NoList /\ row.list \in Lists
  BY RowShape DEF Data, StatusIsTrue, RowOK
<1>4. row.status = "TERMINAL" =>
        /\ lists'[row.list].state = "ACCEPTED" /\ ~Live(row.list)'
        /\ lists'[row.list].legs["tp"].exec = lists[row.list].legs["tp"].exec
        /\ lists'[row.list].legs["sl"].exec = lists[row.list].legs["sl"].exec
  BY <1>3 DEF Legs
<1>5. row.status = "TERMINAL" /\ Settled => Settled'
  BY <1>1, <1>4 DEF Settled, Over, Outstanding, Live, Executed
<1>6. SeenOK'
  <2>1. /\ Answered' <=> Answered
        /\ Answered => row.list # NoList /\ row.status = seen.list
    BY <1>1 DEF Answered, Control, SeenOK
  <2>2. /\ pc = "send" => lists'[row.list].state = "MINTED"
        /\ pc = "confirm" =>
             /\ lists'[row.list].state = "ACCEPTED"
             /\ seen.list = "TERMINAL" => ~Live(row.list)'
        /\ pc = "list" /\ stage \in {"place", "cancel"} =>
             lists'[row.list].state = "ACCEPTED" /\ ~Live(row.list)'
    BY DEF Control, SeenOK
  <2>3. /\ pc \in {"sl", "legs"} /\ seen.list = "TERMINAL" =>
             seen.legs["tp"].exec = lists'[row.list].legs["tp"].exec
        /\ pc = "legs" /\ seen.list = "TERMINAL" =>
             seen.legs["sl"].exec = lists'[row.list].legs["sl"].exec
    BY <1>4, <2>1 DEF Answered, Control, SeenOK, Legs
  <2>4. pc \in {"filled", "quiet", "decide"} /\ row.status = "TERMINAL" => Settled'
    BY <1>5 DEF Control, SeenOK
  <2> QED BY <1>1, <2>1, <2>2, <2>3, <2>4 DEF Control, SeenOK, Live
<1> QED BY <1>2, <1>6 DEF Control

LEMMA ExchangeSteps ==
    ASSUME Data, Control, ExchangeStep
    PROVE  Data' /\ Control'
<1>1. UNCHANGED <<row, control, lapsed>>
  BY DEF ExchangeStep, RateMoves, SaleExecutes, SaleEnds, ListStep, Accept, Lose,
         FillLeg, EndLeg
<1>2. UNCHANGED sale => SaleOK'
  BY <1>1 DEF control, Control, SaleOK, SalePending, HasUnresolved, NoSale
<1>3. CASE RateMoves
  BY <1>1, <1>2, <1>3, DataRate, ControlKept DEF RateMoves, Live
<1>4. ASSUME NEW l \in Lists, Accept(l) \/ Lose(l) PROVE Data' /\ Control'
  <2>1. PICK s \in {"LOST", "ACCEPTED"} :
          /\ lists[l].state = "INFLIGHT"
          /\ lists' = [lists EXCEPT ![l].state = s]
          /\ UNCHANGED <<row, base, rate, sale, lapsed>>
    BY <1>4 DEF Accept, Lose
  <2>2. /\ Data'
        /\ \A k \in Lists \ {l} : lists'[k] = lists[k]
    BY <2>1, DataListState
  <2>3. row.list = l => pc # "send"
    BY <2>1 DEF Control, SeenOK
  <2>4. row.list # NoList => row.list \in Lists
    BY RowShape DEF Data
  <2> QED BY <1>1, <1>2, <2>1, <2>2, <2>3, <2>4, ControlKept DEF Live
<1>5. ASSUME NEW l \in Lists, NEW g \in Legs, FillLeg(l, g) PROVE Data' /\ Control'
  <2>1. /\ Data' /\ Live(l)
        /\ lists'[l].state = lists[l].state
        /\ \A k \in Lists \ {l} : lists'[k] = lists[k]
    BY <1>5, DataFill
  <2>2. row.list # NoList => row.list \in Lists
    BY RowShape DEF Data
  <2> QED BY <1>1, <1>2, <1>5, <2>1, <2>2, ControlKept DEF FillLeg, Live
<1>6. ASSUME NEW l \in Lists, NEW g \in Legs, EndLeg(l, g) PROVE Data' /\ Control'
  <2> DEFINE legs == [lists[l].legs EXCEPT ![g].status = "CANCELED"]
  <2>1. lists[l].legs \in [Legs -> LegState] /\ lists \in [Lists -> ListState]
    BY ListShape DEF Data, DataType
  <2>2. /\ legs \in [Legs -> LegState]
        /\ \A h \in Legs : /\ legs[h].exec = lists[l].legs[h].exec
                           /\ legs[h].status \in {lists[l].legs[h].status, "CANCELED"}
    BY <2>1 DEF LegState, LegStatus
  <2>3. lists[l].state = "ACCEPTED" /\ lists' = [lists EXCEPT ![l].legs = legs]
    BY <1>6, <2>1 DEF EndLeg, ListState
  <2> HIDE DEF legs
  <2>4. /\ Data'
        /\ \A k \in Lists : /\ lists'[k].state = lists[k].state
                            /\ ~Live(k) => ~Live(k)'
    BY <1>6, <2>2, <2>3, DataLegsEnd DEF EndLeg
  <2>5. \A k \in Lists, h \in Legs : lists'[k].legs[h].exec = lists[k].legs[h].exec
    BY <2>1, <2>2, <2>3 DEF ListState
  <2>6. row.list # NoList => row.list \in Lists
    BY RowShape DEF Data
  <2> QED BY <1>1, <1>2, <1>6, <2>4, <2>5, <2>6, ControlKept DEF EndLeg
<1>7. CASE SaleExecutes
  <2>1. PICK q \in Qty \ {0} :
          /\ sale.exec + q <= sale.req /\ q <= base
          /\ sale' = [sale EXCEPT !.exec = @ + q] /\ base' = base - q
    BY <1>7 DEF SaleExecutes
  <2>2. q \in Nat /\ sale.exec + q \in Qty
    BY <2>1, SaleShape, NoListShape DEF Data, Qty
  <2>3. /\ sale' \in SaleType /\ sale'.exec = sale.exec + q
        /\ sale'.req = sale.req /\ sale'.state = sale.state
    BY <2>1, <2>2, SaleShape DEF Data, SaleType
  <2>4. base' \in Nat /\ base' <= base /\ base' + sale'.exec = base + sale.exec
    BY <2>1, <2>2, <2>3, Numbers DEF Data
  <2>5. UNCHANGED <<row, lists, rate, lapsed>>
    BY <1>7 DEF SaleExecutes
  <2>6. Data'
    BY <2>3, <2>4, <2>5, DataSale
  <2>7. SaleOK'
    <3>1. HasUnresolved
      BY <1>7 DEF SaleExecutes, HasUnresolved, NoSale
    <3>2. sale.state = "SENT"
      BY <1>7 DEF SaleExecutes
    <3> QED BY <1>1, <2>1, <2>3, <3>1, <3>2
           DEF control, Control, SaleOK, SalePending, HasUnresolved
  <2> QED BY <1>1, <2>5, <2>6, <2>7, ControlKept DEF Live
<1>8. CASE SaleEnds
  <2>1. /\ sale' \in SaleType /\ sale'.exec = sale.exec
        /\ sale'.req = sale.req /\ sale'.state = "OVER"
    BY <1>8, SaleShape DEF SaleEnds, Data, SaleType
  <2>2. UNCHANGED <<row, lists, base, rate, lapsed>>
    BY <1>8 DEF SaleEnds, exchange
  <2>3. Data'
    BY <2>1, <2>2, DataSale, Numbers DEF Data
  <2>4. SaleOK'
    <3>1. HasUnresolved
      BY <1>8 DEF SaleEnds, HasUnresolved, NoSale
    <3> QED BY <1>1, <2>1, <3>1
           DEF control, Control, SaleOK, SalePending, HasUnresolved
  <2> QED BY <1>1, <2>2, <2>3, <2>4, ControlKept DEF Live
<1> QED BY <1>3, <1>4, <1>5, <1>6, <1>7, <1>8 DEF ExchangeStep, ListStep

-----------------------------------------------------------------------------
(* Only the placement of a list can be a lapse. *)

LEMMA OnlyPlaceLapses ==
    ASSUME Next, ~Place
    PROVE  lapsed' = lapsed
<1>1. CASE PlaceStep
  BY <1>1 DEF PlaceStep, Send, PlaceFails, PlaceAnswered, LookupFails,
     ConfirmRejects, ConfirmActive, ConfirmTerminal, PlaceClosed, PlaceRearms,
     PlaceGivesUp
<1>2. CASE FillStep
  BY <1>2 DEF FillStep, QueryList, QueryListFails, AnswerRejected, QueryLeg,
     LegsQuiet, LegsTorn, LegsExecuted, BookFill, BookFillTorn
<1>3. CASE ExitStep
  BY <1>3 DEF ExitStep, StartExit, ExitFilled, ExitChecked, Hold, HoldAndRearm,
     HoldAndPlace, ExitDue, CancelList, CancelFails, CancelChecked, CancelRefused,
     SubmitSell, AbandonSell, SellSettled, SellUncertain
<1>4. CASE StartStep \/ Enter
  BY <1>4 DEF StartStep, StartUp, RecoverBuy, RecoverSale, OrdersReconciled,
     StartFlat, StartVerify, StartInstall, Verified, VerifiedTerminal, Enter
<1>5. CASE Cancel \/ Crash \/ ExchangeStep
  BY <1>5 DEF Cancel, Crash, ExchangeStep, RateMoves, SaleExecutes, SaleEnds,
     ListStep, Accept, Lose, FillLeg, EndLeg
<1> QED BY <1>1, <1>2, <1>3, <1>4, <1>5 DEF Next, BrokerStep

-----------------------------------------------------------------------------
(* The invariant. *)

LEMMA InitInvariant == Init => IInv
<1> SUFFICES ASSUME Init PROVE Data /\ Control
  BY Parts
<1>1. \A l \in Lists : lists[l] = AbsentList
  BY DEF Init
<1>2. AbsentList \in ListState
  BY NothingSeen, NoListShape DEF AbsentList, ListState, NotSeen, Qty
<1>3. 0 \in Qty /\ 0 \in Nat /\ InitialBase \in 0 .. InitialBase + MaxQty
  BY NoListShape DEF Qty
<1>4. DataType
  BY <1>2, <1>3 DEF Init, DataType, RowType, FlatRow, SaleType, NoSale
<1>5. ListsOK
  <2>1. /\ AbsentList.state = "NONE" /\ AbsentList.qty = 0
        /\ AbsentList.legs = FreshLegs
        /\ \A g \in Legs : FreshLegs[g].exec = 0
    BY DEF AbsentList, FreshLegs
  <2>2. ASSUME NEW l \in Lists PROVE ListOK(l)
    BY <1>1, <2>1 DEF ListOK, Legs
  <2> QED BY <2>2 DEF ListsOK
<1>6. RowOK
  BY <1>1, NoListShape DEF Init, RowOK, ListsFit, FlatRow, AbsentList
<1>7. LedgerExact
  BY NoListShape DEF Init, LedgerExact, Untold, FlatRow, NoSale
<1>8. StatusIsTrue
  BY DEF Init, StatusIsTrue, FlatRow
<1>9. ControlType
  BY NotSeenType DEF Init, ControlType
<1>10. SaleOK
  BY DEF Init, SaleOK, NoSale, HasUnresolved
<1>11. SeenOK /\ CallOK
  BY DEF Init, SeenOK, CallOK, Answered, Legs
<1> QED BY <1>4, <1>5, <1>6, <1>7, <1>8, <1>9, <1>10, <1>11 DEF Data, Control

LEMMA StepInvariant ==
    ASSUME IInv, [Next]_vars
    PROVE  IInv'
<1>1. Data /\ Control
  BY Parts
<1>2. CASE UNCHANGED vars
  BY <1>2 DEF vars, IInv, TypeOK, ListOK, RowOK, ListsFit, SaleOK, SalePending, SeenOK,
     CallOK, LedgerExact, Untold, StatusIsTrue, Over, Outstanding, Live, Executed,
     Settled, Answered, HasUnresolved
<1>3. CASE Next
  <2>1. Data' /\ Control'
    BY <1>1, <1>3, PlaceSteps, FillSteps, ExitSteps, StartSteps, OpenSteps,
       Interruptions, ExchangeSteps DEF Next, BrokerStep
  <2> QED BY <2>1 DEF IInv, Data, Control, TypeOK, DataType, ControlType, SaleType, ListsOK
<1> QED BY <1>2, <1>3

\* IInv holds in every state: what the broker has read of a list is still true
\* where it acts upon it, start-ups that leave a SELL unresolved included, and up
\* to a lapse one list at most can sell.
THEOREM ProtectionInvariance == Spec => []IInv
<1>1. Init => IInv
  BY InitInvariant
<1>2. IInv /\ [Next]_vars => IInv'
  BY StepInvariant
<1> QED BY <1>1, <1>2, PTL DEF Spec

\* Every variable keeps its type: in particular no protective fill and no SELL
\* takes the position or the account below zero, after a lapse either.
THEOREM ProtectionTypes == Spec => []TypeOK
<1>1. IInv => TypeOK
  BY DEF IInv
<1> QED BY <1>1, ProtectionInvariance, PTL

\* Up to a lapse, a list that may still sell is the one the open row names,
\* whatever crashes and lost answers there were between storing its id and
\* reading its outcome.
THEOREM OutstandingListNamed == Spec => []ListIsNamed
<1>1. IInv => ListIsNamed
  BY Parts, OnlyTheNamed DEF ListIsNamed
<1> QED BY <1>1, ProtectionInvariance, PTL

\* Up to a lapse, a market SELL works for the exchange only while no list can
\* sell.
THEOREM OneSeller == Spec => []SellsAlone
<1>1. IInv => SellsAlone
  <2> SUFFICES ASSUME IInv, ~lapsed, NEW l \in Lists, sale.state = "SENT", Outstanding(l)
               PROVE  FALSE
    BY DEF SellsAlone
  <2>1. Data /\ Control
    BY Parts
  <2>2. row.list # NoList
    BY <2>1, OnlyTheNamed, NoListShape
  <2>3. sale = NoSale
    BY <2>1, <2>2, NoSalePending DEF NoneBeside
  <2> QED BY <2>3 DEF NoSale
<1> QED BY <1>1, ProtectionInvariance, PTL

\* Nothing is ever applied that was not sold; up to a lapse nothing sold is
\* forgotten either: row, account, list and pending SELL add up.
THEOREM ExecutionsAddUp == Spec => []LedgerExact
<1>1. IInv => LedgerExact
  BY DEF IInv
<1> QED BY <1>1, ProtectionInvariance, PTL

\* EXECUTING and TERMINAL in the row are true of the list on the exchange.
THEOREM StatusHolds == Spec => []StatusIsTrue
<1>1. IInv => StatusIsTrue
  BY DEF IInv
<1> QED BY <1>1, ProtectionInvariance, PTL

=============================================================================
