--------------------------- MODULE MCTradeFollow ----------------------------
(* Instances of TradeFollow for TLC. *)
EXTENDS TradeFollow

\* A quote one unit better than the price, or one worse.
BothSides == {-1, 1}
=============================================================================
