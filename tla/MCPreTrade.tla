----------------------------- MODULE MCPreTrade -----------------------------
(* Instances of PreTrade for TLC. *)
EXTENDS PreTrade

Few == {None, 0, 1, 2, 3}
BasicSpecs ==
  [type : Types \ (Trails \cup {"BRACKET"}), side : Sides, quantity : {1},
   tif : {"DAY", "GTC", "OPG"}, limit : {None, 0, 2}, stop : {None, 0, 1},
   amount : {None}, percent : {None}, trailStop : {None},
   takeProfit : {None}, stopLoss : {None}, stopLossLimit : {None}]
TrailSpecs ==
  [type : Trails, side : Sides, quantity : {1}, tif : {"DAY"},
   limit : {None, 1}, stop : {None}, amount : {None, 1, 5}, percent : {None, 50, 100},
   trailStop : {None, 0, 3}, takeProfit : {None}, stopLoss : {None}, stopLossLimit : {None}]
BracketSpecs ==
  [type : {"BRACKET"}, side : Sides, quantity : {1}, tif : {"DAY", "GTC"},
   limit : Few, stop : {None}, amount : {None}, percent : {None}, trailStop : {None},
   takeProfit : Few, stopLoss : Few, stopLossLimit : {None, 0, 1}]
Specs == BasicSpecs \cup TrailSpecs \cup BracketSpecs

SomeQuotes == [bid : {0, 1}, ask : {0, 3}, last : {0, 2}]

Stock == [symbol |-> "A", kind |-> "STK", expiry |-> None, multiplier |-> 1]
Option == [symbol |-> "A", kind |-> "OPT", expiry |-> 1, multiplier |-> 2]
Other == [symbol |-> "B", kind |-> "STK", expiry |-> None, multiplier |-> 1]
Future == [symbol |-> "C", kind |-> "FUT", expiry |-> 1, multiplier |-> 2]
SomeInstruments == {Stock, Option, Other, Future}
SomeHoldings == UNION {[S -> {-1, 2}] : S \in SUBSET SomeInstruments}
SomeOrders == [instrument : SomeInstruments, side : Sides, quantity : {1, 3}, price : {None, 2}]
Lenient ==
  [kinds : {{}}, short : BOOLEAN, options : {TRUE}, quantity : {None}, notional : {None},
   percent : {None, 50}]
Strict ==
  [kinds : {{"STK"}}, short : {FALSE}, options : {FALSE}, quantity : {2}, notional : {4},
   percent : {50}]
SomeProfiles == Lenient \cup Strict
SomeWindows == [start : 0 .. 3, end : 0 .. 3, days : {{}, {0}, {0, 1, 2, 3, 4}, {2, 6}, 0 .. 6}]
=============================================================================
