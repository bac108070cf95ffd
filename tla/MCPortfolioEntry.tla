-------------------------- MODULE MCPortfolioEntry --------------------------
(* Small instances of PortfolioEntry for TLC. *)
EXTENDS PortfolioEntry, TLC

MCSymmetry == Permutations(Symbols)

=============================================================================
