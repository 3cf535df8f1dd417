---------------------------- MODULE MCMarketData ----------------------------
(* Instances of MarketData for TLC. *)
EXTENDS MarketData, TLC

CONSTANTS stock, option, future, dated, x

OneSymbol == stock :> "S" @@ option :> "S" @@ future :> "F" @@ dated :> "F"
OnDated == x :> dated
=============================================================================
