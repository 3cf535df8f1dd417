--------------------------- MODULE MCTradeIntent ---------------------------
(* Instances of TradeIntent for TLC. *)
EXTENDS TradeIntent, TLC

TwoRows == {1, 2}

CallSymmetry == Permutations(Calls)
=============================================================================
