-------------------------- MODULE PositionDiscipline --------------------------
(***************************************************************************)
(* What the protection of a position promises, without saying how: the bot *)
(* acquires lots only when it holds none and sells nothing, it has one     *)
(* seller at a time, a protective list or a market order, and a seller     *)
(* never sells more than the bot holds.                                    *)
(***************************************************************************)
EXTENDS Naturals

VARIABLES held,     \* lots of the bot in the account
          seller    \* who may sell them

vars == <<held, seller>>

Init == held = 0 /\ seller = "none"

Acquire ==
    /\ held = 0 /\ seller = "none"
    /\ held' \in Nat \ {0}
    /\ UNCHANGED seller

Offer ==
    /\ held > 0 /\ seller = "none"
    /\ seller' \in {"list", "market"}
    /\ UNCHANGED held

\* The seller may be done with its last sale.
Sell ==
    /\ seller # "none"
    /\ held' < held /\ held' \in Nat
    /\ seller' \in {seller, "none"}

Withdraw ==
    /\ seller # "none"
    /\ seller' = "none"
    /\ UNCHANGED held

Next == Acquire \/ Offer \/ Sell \/ Withdraw

Spec == Init /\ [][Next]_vars

=============================================================================
