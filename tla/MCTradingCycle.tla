--------------------------- MODULE MCTradingCycle ---------------------------
(* Small instances of TradingCycle for TLC; no symmetry: candles are ordered. *)
EXTENDS TradingCycle

=============================================================================
