--------------------------- MODULE TradeDiscipline ---------------------------
(***************************************************************************)
(* What the order ledger promises, without saying how: orders of a symbol  *)
(* are worked one at a time, a BUY only from a flat book and a SELL only   *)
(* against an open one, and each order that executed changes the book      *)
(* exactly once.                                                           *)
(***************************************************************************)
CONSTANT Orders

VARIABLES outcome,   \* what became of each order
          book       \* the position recorded for the symbol

Working == {"buying", "selling"}
Over    == {"bought", "sold", "void"}

Init ==
    /\ outcome = [o \in Orders |-> "unused"]
    /\ book = "flat"

Idle == \A o \in Orders : outcome[o] \notin Working

BeginBuy(o) ==
    /\ Idle /\ book = "flat"
    /\ outcome[o] = "unused"
    /\ outcome' = [outcome EXCEPT ![o] = "buying"]
    /\ UNCHANGED book

BeginSell(o) ==
    /\ Idle /\ book = "open"
    /\ outcome[o] = "unused"
    /\ outcome' = [outcome EXCEPT ![o] = "selling"]
    /\ UNCHANGED book

\* The order ended without executing anything.
Void(o) ==
    /\ outcome[o] \in Working
    /\ outcome' = [outcome EXCEPT ![o] = "void"]
    /\ UNCHANGED book

SettleBuy(o) ==
    /\ outcome[o] = "buying" /\ book = "flat"
    /\ outcome' = [outcome EXCEPT ![o] = "bought"]
    /\ book' = "open"

\* A SELL may leave a remainder of the position.
SettleSell(o) ==
    /\ outcome[o] = "selling" /\ book = "open"
    /\ outcome' = [outcome EXCEPT ![o] = "sold"]
    /\ book' \in {"open", "flat"}

Next ==
    \E o \in Orders :
        BeginBuy(o) \/ BeginSell(o) \/ Void(o) \/ SettleBuy(o) \/ SettleSell(o)

Spec == Init /\ [][Next]_<<outcome, book>>

=============================================================================
