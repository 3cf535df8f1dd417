------------------------------ MODULE PreTrade ------------------------------
(***************************************************************************)
(* What the server computes about an order before it is sent: validation,  *)
(* the building of IB orders and the preview (ibkr_core/orders.py), the    *)
(* check against a profile and the impact on the account                   *)
(* (mcp_server/profiles/validator.py and risk/impact.py), and the run      *)
(* window (ibkr_core/schedule.py).                                         *)
(*                                                                         *)
(* Each is a function without state.  A step asks one question and keeps   *)
(* what was asked together with the answer.  Prices, quantities, times and *)
(* percentages are integers; a missing one is None.                        *)
(***************************************************************************)
EXTENDS Integers, FiniteSets

CONSTANTS
  OrderSpecs,       \* the order specs that are asked about
  Quotes,           \* [bid, ask, last], 0 where there is none
  Instruments,      \* [symbol, kind, expiry, multiplier]
  Holdings,         \* what an account may hold: functions from instruments to quantities
  Orders,           \* [instrument, side, quantity, price], the price being the limit, or None
  Estimates,        \* the prices that previews estimate
  NetLiquidations,  \* the values of an account
  Profiles,         \* [kinds, short, options, quantity, notional, percent]
  Windows,          \* [start, end, days]
  DayLength,        \* the times of a day are 0 .. DayLength - 1
  MaxDelay,         \* bound on the time between two reads of the clock in a call
  None

Types == {"MKT", "LMT", "STP", "STP_LMT", "TRAIL", "TRAIL_LIMIT", "BRACKET", "MOC", "OPG"}
Trails == {"TRAIL", "TRAIL_LIMIT"}
Sides == {"BUY", "SELL"}
Tifs == {"DAY", "GTC", "IOC", "FOK", "OPG"}
Prices == Nat \cup {None}

\* What the model OrderSpec lets through.
OrderSpec ==
  [type : Types, side : Sides, quantity : Nat \ {0}, tif : Tifs,
   limit : Prices, stop : Prices, amount : Prices \ {0}, percent : (1 .. 100) \cup {None},
   trailStop : Prices, takeProfit : Prices, stopLoss : Prices, stopLossLimit : Prices]

TimesOfDay == 0 .. DayLength - 1
Weekdays == 0 .. 6

ASSUME SpecAssumption == None \notin Int /\ OrderSpecs \subseteq OrderSpec
ASSUME QuoteAssumption == Quotes \subseteq [bid : Nat, ask : Nat, last : Nat]
ASSUME OrderAssumption ==
  Orders \subseteq [instrument : Instruments, side : Sides, quantity : Nat, price : Prices]
ASSUME HoldingAssumption == \A held \in Holdings : \A i \in DOMAIN held : held[i] \in Int
ASSUME DayAssumption == DayLength \in Nat \ {0}
ASSUME DelayAssumption == MaxDelay \in Nat
ASSUME WindowAssumption ==
  Windows \subseteq [start : TimesOfDay, end : TimesOfDay, days : SUBSET Weekdays]

VARIABLE answer     \* the question and its answer, or None

Positive(price) == price # None /\ price > 0
Opposite(side) == IF side = "BUY" THEN "SELL" ELSE "BUY"

(***************************************************************************)
(* validate_order_spec                                                     *)
(***************************************************************************)

\* Mutant: the prices of a short bracket are not turned round.
OrderedAsLong(s) == s.takeProfit > s.limit /\ s.stopLoss < s.limit

\* The exits of a bracket lie on either side of its entry.
Ordered(s) ==
  IF s.side = "BUY" THEN s.takeProfit > s.limit /\ s.stopLoss < s.limit
                    ELSE s.takeProfit < s.limit /\ s.stopLoss > s.limit

\* Mutant: a price of zero is a price.
HasPricesOrZero(s) ==
  CASE s.type \in {"LMT", "STP_LMT"} -> s.limit # None /\ (s.type = "STP_LMT" => Positive(s.stop))
    [] s.type = "BRACKET" ->
         Positive(s.limit) /\ Positive(s.takeProfit) /\ Positive(s.stopLoss) /\ Ordered(s)
    [] s.type = "STP" -> Positive(s.stop)
    [] s.type \in Trails -> (s.amount = None) # (s.percent = None)
    [] OTHER -> TRUE

HasPrices(s) ==
  CASE s.type = "MKT" -> s.limit = None
    [] s.type = "LMT" -> Positive(s.limit)
    [] s.type = "STP" -> Positive(s.stop)
    [] s.type = "STP_LMT" -> Positive(s.stop) /\ Positive(s.limit)
    [] s.type \in Trails -> (s.amount = None) # (s.percent = None)
    [] s.type = "BRACKET" ->
         Positive(s.limit) /\ Positive(s.takeProfit) /\ Positive(s.stopLoss) /\ Ordered(s)
    [] OTHER -> TRUE

HasTif(s) ==
  CASE s.type = "MOC" -> s.tif = "DAY"
    [] s.type = "OPG" -> s.tif \in {"OPG", "DAY"}
    [] OTHER -> s.tif # "OPG"

Valid(s) == HasPrices(s) /\ HasTif(s)

(***************************************************************************)
(* _build_ib_order and _build_bracket_orders                               *)
(***************************************************************************)

Leg(role, type, side, s, limit, stop, tif) ==
  [role |-> role, type |-> type, side |-> side, quantity |-> s.quantity,
   limit |-> limit, stop |-> stop, tif |-> tif]

Simple(s) ==
  Leg("entry", s.type, s.side, s,
      IF s.type \in {"LMT", "STP_LMT"} THEN s.limit ELSE None,
      CASE s.type \in {"STP", "STP_LMT"} -> s.stop
        [] s.type \in Trails -> IF s.percent # None THEN s.percent ELSE s.amount
        [] OTHER -> None,
      IF s.type = "OPG" THEN "OPG" ELSE s.tif)

\* Mutant: the stop loss is on the side of the entry.
BracketOneSided(s) ==
  {Leg("entry", "LMT", s.side, s, s.limit, None, s.tif),
   Leg("takeProfit", "LMT", Opposite(s.side), s, s.takeProfit, None, "GTC"),
   Leg("stopLoss", "STP", s.side, s, s.stopLossLimit, s.stopLoss, "GTC")}

Bracket(s) ==
  {Leg("entry", "LMT", s.side, s, s.limit, None, s.tif),
   Leg("takeProfit", "LMT", Opposite(s.side), s, s.takeProfit, None, "GTC"),
   Leg("stopLoss", IF s.stopLossLimit = None THEN "STP" ELSE "STP_LMT",
       Opposite(s.side), s, s.stopLossLimit, s.stopLoss, "GTC")}

Built(s) == IF s.type = "BRACKET" THEN Bracket(s) ELSE {Simple(s)}

(***************************************************************************)
(* preview_order                                                           *)
(***************************************************************************)

Market(s, q) ==
  LET near == IF s.side = "BUY" THEN q.ask ELSE q.bid IN
  IF near > 0 THEN near ELSE q.last

\* Mutant: the stop trails on the wrong side.
TrailedBackwards(s, q) ==
  LET distance == IF s.percent # None THEN (q.last * s.percent) \div 100 ELSE s.amount IN
  IF s.side = "BUY" THEN q.last - distance ELSE q.last + distance

\* Where a trailing stop starts.
Trailed(s, q) ==
  LET distance == IF s.percent # None THEN (q.last * s.percent) \div 100 ELSE s.amount IN
  IF s.side = "SELL" THEN q.last - distance ELSE q.last + distance

FirstEstimate(s, q) ==
  CASE s.type \in {"LMT", "STP_LMT", "BRACKET"} -> s.limit
    [] s.type = "STP" -> s.stop
    [] s.type \in {"MKT", "MOC", "OPG"} -> Market(s, q)
    [] s.type \in Trails -> IF Positive(s.trailStop) THEN s.trailStop ELSE Trailed(s, q)

Estimate(s, q) ==
  LET price == FirstEstimate(s, q) IN
  IF Positive(price) THEN price ELSE IF q.last > 0 THEN q.last ELSE None

\* The legs that the preview of a bracket shows.
Legs(s) ==
  {Leg("entry", "LMT", s.side, s, s.limit, None, s.tif),
   Leg("takeProfit", "LMT", Opposite(s.side), s, s.takeProfit, None, "GTC"),
   Leg("stopLoss", IF Positive(s.stopLossLimit) THEN "STP_LMT" ELSE "STP",
       Opposite(s.side), s, s.stopLossLimit, s.stopLoss, "GTC")}

Preview(s, q) ==
  IF ~Valid(s) THEN [kind |-> "refused", spec |-> s]
  ELSE [kind |-> "preview", spec |-> s, quote |-> q, estimate |-> Estimate(s, q),
        legs |-> IF s.type = "BRACKET" THEN Legs(s) ELSE {}]

AskPreview == \E s \in OrderSpecs, q \in Quotes : answer' = Preview(s, q)

(***************************************************************************)
(* The profile and the impact                                              *)
(***************************************************************************)

\* get_positions: the name of a future's position has its expiry.
PositionSymbol(i) ==
  IF i.kind = "FUT" /\ i.expiry # None THEN <<i.symbol, i.expiry>> ELSE <<i.symbol>>

Named(i, held) == {j \in DOMAIN held : PositionSymbol(j) = <<i.symbol>>}

\* Mutant: the position that the list has first.
ExistingOfAny(i, held) ==
  IF DOMAIN held = {} THEN 0 ELSE held[CHOOSE j \in DOMAIN held : TRUE]

\* _existing_qty, and its twin in assess_order_impact: the first position with the
\* symbol of the order.
Existing(i, held) ==
  LET named == Named(i, held) IN IF named = {} THEN 0 ELSE held[CHOOSE j \in named : TRUE]

Abs(n) == IF n < 0 THEN -n ELSE n
After(o, held) ==
  Existing(o.instrument, held) + (IF o.side = "BUY" THEN o.quantity ELSE -o.quantity)

\* The value of so much of an order's instrument; without a price it counts as nothing.
Value(o, n, price) == IF price = None THEN 0 ELSE n * price * o.instrument.multiplier

\* validate_order_against_profile, with the limit price if there is one.  An empty list
\* of positions is no list.
Violations(o, profile, held, netLiq) ==
  {v \in {"kind", "options", "short", "quantity", "notional", "concentration"} :
    CASE v = "kind" -> profile.kinds # {} /\ o.instrument.kind \notin profile.kinds
      [] v = "options" -> ~profile.options /\ o.instrument.kind = "OPT"
      [] v = "short" -> ~profile.short /\ o.side = "SELL"
                          /\ DOMAIN held # {} /\ Existing(o.instrument, held) <= 0
      [] v = "quantity" -> profile.quantity # None /\ o.quantity > profile.quantity
      [] v = "notional" -> /\ profile.notional # None /\ o.price # None
                           /\ Value(o, o.quantity, o.price) > profile.notional
      [] v = "concentration" ->
           /\ profile.percent # None /\ o.price # None /\ netLiq > 0
           /\ Value(o, Abs(After(o, held)), o.price) * 100 > profile.percent * netLiq}

\* _mid, in whole numbers.
Mid(q) ==
  IF q.bid # 0 /\ q.ask # 0 THEN (q.bid + q.ask) \div 2 ELSE IF q.last # 0 THEN q.last ELSE None

\* The price of assess_order_impact: what the preview estimates, the middle of the quote,
\* or the limit, whichever there is first.
ImpactPrice(o, estimate, q) ==
  LET mid == IF q = None THEN None ELSE Mid(q) IN
  CASE estimate # None -> estimate
    [] estimate = None /\ mid # None -> mid
    [] OTHER -> IF Positive(o.price) THEN o.price ELSE None

\* assess_order_impact, and what the profile says of the same order and account.
Impact(o, estimate, q, profile, held, netLiq) ==
  LET price == ImpactPrice(o, estimate, q) IN
  [kind |-> "impact", order |-> o, profile |-> profile, held |-> held, netLiq |-> netLiq,
   price |-> price, after |-> After(o, held), value |-> Value(o, Abs(After(o, held)), price),
   violations |-> Violations(o, profile, held, netLiq)]

\* The preview may be missing, and so may the quote.
AskImpact ==
  \E o \in Orders, estimate \in Estimates \cup {None}, q \in Quotes \cup {None},
     profile \in Profiles, held \in Holdings, netLiq \in NetLiquidations :
    answer' = Impact(o, estimate, q, profile, held, netLiq)

(***************************************************************************)
(* The run window                                                          *)
(***************************************************************************)

Weekday(t) == (t \div DayLength) % 7
TimeOfDay(t) == t % DayLength
Times == 0 .. 7 * DayLength - 1
SoonAfter(t) == t .. t + MaxDelay

\* is_within_run_window
Within(w, t) ==
  /\ Weekday(t) \in w.days
  /\ w.start <= TimeOfDay(t) /\ TimeOfDay(t) < w.end

\* Mutant: only the days after today.
NextLater(w, t, time) ==
  IF w.days = {} THEN None
  ELSE LET today == t - TimeOfDay(t)
           ahead == {d \in 1 .. 7 : Weekday(t + d * DayLength) \in w.days}
           next == CHOOSE d \in ahead : \A e \in ahead : d <= e
       IN today + next * DayLength + time

\* get_next_window_start and get_next_window_end: time is the start or the end.
NextTime(w, t, time) ==
  IF w.days = {} THEN None
  ELSE LET today == t - TimeOfDay(t)
           ahead == {d \in 1 .. 7 : Weekday(t + d * DayLength) \in w.days}
           next == CHOOSE d \in ahead : \A e \in ahead : d <= e
       IN IF Weekday(t) \in w.days /\ TimeOfDay(t) < time
            THEN today + time ELSE today + next * DayLength + time

\* get_window_status reads the clock for the time that it shows, for whether the window
\* is open, and for the time of the next change.  With no days there is none, and the
\* tool fails.
Status(w, now, checked, asked) ==
  [kind |-> IF w.days = {} THEN "error" ELSE "window",
   window |-> w, now |-> now, asked |-> asked, within |-> Within(w, checked),
   until |-> NextTime(w, asked, IF Within(w, checked) THEN w.end ELSE w.start)]

AskWindow ==
  \E w \in Windows, now \in Times :
    \E checked \in SoonAfter(now) :
      \E asked \in SoonAfter(checked) : answer' = Status(w, now, checked, asked)

Init == answer = None

Next ==
  \/ answer = None /\ (AskPreview \/ AskImpact \/ AskWindow)
  \/ answer # None /\ answer' = None

Spec == Init /\ [][Next]_answer

(***************************************************************************)
(* Properties                                                              *)
(***************************************************************************)

Previewed == answer # None /\ answer.kind = "preview"

\* An order that passes validation is built with every price that its type needs, and
\* none is zero; but for a limit of zero for the stop loss of a bracket.
Complete(leg) ==
  /\ leg.type \in {"LMT", "STP_LMT"} => Positive(leg.limit)
  /\ leg.type \in {"STP", "STP_LMT"} \cup Trails => Positive(leg.stop)
AcceptedIsComplete ==
  Previewed =>
    \A leg \in Built(answer.spec) : Complete(leg) \/ answer.spec.stopLossLimit = 0

\* Each exit of a bracket closes its entry, the one with a gain and the other with a
\* loss, whichever side it is on.
Signed(leg) == IF leg.side = "BUY" THEN leg.quantity ELSE -leg.quantity
Trigger(leg) == IF leg.role = "stopLoss" THEN leg.stop ELSE leg.limit
Gain(entry, exit) == Signed(entry) * (Trigger(exit) - Trigger(entry))
BracketIsProtective ==
  (Previewed /\ answer.spec.type = "BRACKET") =>
    \A entry, exit \in Built(answer.spec) :
      (entry.role = "entry" /\ exit.role # "entry") =>
        /\ Signed(entry) + Signed(exit) = 0
        /\ IF exit.role = "takeProfit" THEN Gain(entry, exit) > 0 ELSE Gain(entry, exit) < 0

\* The legs of a preview are the orders that are placed; but for a limit of zero.
PreviewShowsWhatIsBuilt ==
  (Previewed /\ answer.spec.type = "BRACKET" /\ answer.spec.stopLossLimit # 0)
    => answer.legs = Built(answer.spec)

\* An estimate is missing only without any price, and a trailing stop starts on the
\* side of the market where it protects.
EstimateIsUsable ==
  Previewed =>
    LET s == answer.spec
        q == answer.quote IN
    /\ answer.estimate = None => q.last = 0
    /\ answer.estimate # None => answer.estimate > 0
    /\ (s.type \in Trails /\ s.trailStop = None /\ q.last > 0) =>
         IF s.side = "SELL" THEN answer.estimate <= q.last ELSE answer.estimate >= q.last

\* Profile and impact count what the account holds of the order's instrument: the
\* concentration after the order, and whether it is short; and they agree on the
\* concentration where the price of the one is the limit of the other.  They do not count
\* futures, whose positions have other names, nor where two instruments have one symbol.
Alone(i, held) == \A j \in DOMAIN held \ {i} : j.symbol # i.symbol
HoldingsAreCounted ==
  (answer # None /\ answer.kind = "impact"
     /\ answer.order.instrument.kind # "FUT" /\ Alone(answer.order.instrument, answer.held)) =>
    LET o == answer.order
        has == IF o.instrument \in DOMAIN answer.held THEN answer.held[o.instrument] ELSE 0
        after == IF o.side = "BUY" THEN has + o.quantity ELSE has - o.quantity
        amount == IF after < 0 THEN -after ELSE after
        limited == answer.profile.percent # None /\ answer.netLiq > 0 /\ o.price # None
        refused == "concentration" \in answer.violations
    IN /\ answer.after = after
       /\ limited => (refused <=> amount * o.price * o.instrument.multiplier * 100
                                    > answer.profile.percent * answer.netLiq)
       /\ (limited /\ answer.price = o.price)
            => (refused <=> answer.value * 100 > answer.profile.percent * answer.netLiq)
       /\ (~answer.profile.short /\ o.side = "SELL" /\ has < 0) => "short" \in answer.violations

\* The window closes at t, if it was open, and opens, if it was not.
Turns(w, t, open) == Within(w, t - 1) = open /\ Within(w, t) # open

\* The time that the status of the window names lies ahead of every read of the clock, and
\* is the first since the last read at which the window turns from what the status says
\* it is.  If the window has not turned between the reads, it stays until then as the
\* status says.  For windows that do not go past midnight.
WindowPromiseIsKept ==
  (answer # None /\ answer.kind = "window" /\ answer.window.start < answer.window.end) =>
    LET w == answer.window
        Stays(last) == \A t \in answer.now .. last : Within(w, t) = answer.within IN
    /\ answer.until > answer.asked
    /\ Turns(w, answer.until, answer.within)
    /\ \A t \in answer.asked + 1 .. answer.until - 1 : ~Turns(w, t, answer.within)
    /\ Stays(answer.asked) => Stays(answer.until - 1)
=============================================================================
