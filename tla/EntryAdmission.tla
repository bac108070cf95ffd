--------------------------- MODULE EntryAdmission ---------------------------
(***************************************************************************)
(* What the portfolio guard promises: it decides about an entry as if it   *)
(* saw, at that moment, the account and all that may still be bought.      *)
(* There is no snapshot, no cache, no lock and no order table here.        *)
(***************************************************************************)
EXTENDS Naturals, FiniteSets, Functions

CONSTANTS Symbols,
          MaxQty,        \* bound on the lots of an entry
          MaxPositions,  \* MAX_CONCURRENT_POSITIONS
          MaxExposure,   \* the exposure limit, in lots
          Outside        \* lots of assets that no symbol trades

VARIABLES lots,   \* what the account holds of each symbol
          grant,  \* what a symbol may still buy
          open    \* the symbols that take up a position slot

vars == <<lots, grant, open>>

Sum(f) == FoldFunction(+, 0, f)

Init ==
    /\ lots = [s \in Symbols |-> 0]
    /\ grant = [s \in Symbols |-> 0]
    /\ open = {}

Grant(s, q) ==
    /\ \A t \in Symbols : grant[t] = 0
    /\ s \notin open
    /\ Cardinality(open) < MaxPositions
    /\ Outside + Sum(lots) + q <= MaxExposure
    /\ grant' = [grant EXCEPT ![s] = q]
    /\ UNCHANGED <<lots, open>>

Buy(s) ==
    /\ \E n \in 1 .. grant[s] : lots' = [lots EXCEPT ![s] = @ + n]
    /\ grant' = [grant EXCEPT ![s] = 0]
    /\ open' = open \cup {s}

Lapse(s) ==
    /\ grant' = [grant EXCEPT ![s] = 0]
    /\ UNCHANGED <<lots, open>>

Sell(s) ==
    /\ \E n \in 1 .. lots[s] : lots' = [lots EXCEPT ![s] = @ - n]
    /\ UNCHANGED <<grant, open>>

Close(s) ==
    /\ lots[s] = 0
    /\ open' = open \ {s}
    /\ UNCHANGED <<lots, grant>>

Next ==
    \E s \in Symbols :
        \/ \E q \in 1 .. MaxQty : Grant(s, q)
        \/ Buy(s) \/ Lapse(s) \/ Sell(s) \/ Close(s)

Spec == Init /\ [][Next]_vars

=============================================================================
