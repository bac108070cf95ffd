-------------------------- MODULE MCOrderLifecycle --------------------------
(* Small instances of OrderLifecycle for TLC. *)
EXTENDS OrderLifecycle, TLC

\* Quantities are in lots.  A quantity below two lots is under the minimum
\* notional; an odd lot of the base fee comes off a purchase of three.
MCNormalize == [q \in Qty |-> IF q < 2 THEN 0 ELSE q]
MCNet       == [q \in Qty |-> IF q = 3 THEN 2 ELSE q]

\* Purchases in steps of two lots, whose base fee takes one lot.
MCStepNormalize == [q \in Qty |-> q - (q % 2)]
MCStepNet       == [q \in Qty |-> IF q = 0 THEN 0 ELSE q - 1]

MCSymmetry == Permutations(OrderIds) \cup Permutations(Brokers)

=============================================================================
