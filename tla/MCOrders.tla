------------------------------ MODULE MCOrders ------------------------------
(* Instances of Orders for TLC. *)
EXTENDS Orders, TLC

CONSTANTS b, s, a

BracketAndSimple == b :> "bracket" @@ s :> "simple"
AllTransmit == b :> TRUE @@ s :> TRUE
=============================================================================
