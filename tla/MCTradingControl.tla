-------------------------- MODULE MCTradingControl --------------------------
(* Instances of TradingControl for TLC. *)
EXTENDS TradingControl, TLC, Naturals

CONSTANTS p1, p2

FourStamps == 1 .. 4
=============================================================================
