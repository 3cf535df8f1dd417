--------------------------- MODULE PreTradeProofs ---------------------------
(***************************************************************************)
(* What holds of validation, building and preview for every order spec and *)
(* every quote, and of the check against a profile for every account.      *)
(***************************************************************************)
EXTENDS PreTrade, TLAPS

\* An answer was computed from its question.
Asked ==
  \/ answer = None
  \/ \E s \in OrderSpecs, q \in Quotes : answer = Preview(s, q)
  \/ \E o \in Orders, estimate \in Estimates \cup {None}, q \in Quotes \cup {None},
        profile \in Profiles, held \in Holdings, netLiq \in NetLiquidations :
       answer = Impact(o, estimate, q, profile, held, netLiq)
  \/ \E w \in Windows, now \in Times :
       \E checked \in SoonAfter(now) :
         \E asked \in SoonAfter(checked) : answer = Status(w, now, checked, asked)

LEMMA AskedHolds == Spec => []Asked
<1>1. Init => Asked
  BY DEF Init, Asked
<1>2. Asked /\ [Next]_answer => Asked'
  <2>1. CASE UNCHANGED answer
    BY <2>1 DEF Asked
  <2>2. CASE AskPreview
    BY <2>2 DEF AskPreview, Asked
  <2>3. CASE AskImpact
    BY <2>3 DEF AskImpact, Asked
  <2>4. CASE AskWindow
    BY <2>4 DEF AskWindow, Asked
  <2>5. CASE answer' = None
    BY <2>5 DEF Asked
  <2>6. QED BY <2>1, <2>2, <2>3, <2>4, <2>5 DEF Next
<1>3. QED BY <1>1, <1>2, PTL DEF Spec

\* A preview is of a valid spec.
LEMMA PreviewOf ==
  ASSUME Asked, Previewed
  PROVE  \E s \in OrderSpecs, q \in Quotes :
           /\ s \in OrderSpec /\ Valid(s)
           /\ answer.spec = s /\ answer.quote = q
           /\ answer.estimate = Estimate(s, q)
           /\ answer.legs = IF s.type = "BRACKET" THEN Legs(s) ELSE {}
<1>1. answer # None /\ answer.kind = "preview"
  BY DEF Previewed
<1>2. \A w, now, checked, asked : Status(w, now, checked, asked).kind # "preview"
  BY DEF Status
<1>3. PICK s \in OrderSpecs, q \in Quotes : answer = Preview(s, q)
  <2>1. \A o, estimate, q, profile, held, netLiq :
          Impact(o, estimate, q, profile, held, netLiq).kind # "preview"
    BY DEF Impact
  <2>2. QED BY <1>1, <1>2, <2>1 DEF Asked
<1>4. Valid(s)
  BY <1>1, <1>3 DEF Preview
<1>5. QED BY <1>3, <1>4, SpecAssumption DEF Preview

(***************************************************************************)
(* Validation and building                                                 *)
(***************************************************************************)

LEMMA SpecFields ==
  ASSUME NEW s \in OrderSpec
  PROVE  /\ s.type \in Types /\ s.side \in Sides /\ s.quantity \in Nat /\ s.quantity > 0
         /\ s.limit \in Nat \cup {None} /\ s.stop \in Nat \cup {None}
         /\ s.amount \in Nat \cup {None} /\ s.amount # 0
         /\ s.percent \in (1 .. 100) \cup {None}
         /\ s.trailStop \in Nat \cup {None}
         /\ s.takeProfit \in Nat \cup {None} /\ s.stopLoss \in Nat \cup {None}
         /\ s.stopLossLimit \in Nat \cup {None}
BY DEF OrderSpec, Prices

LEMMA SimpleComplete ==
  ASSUME NEW s \in OrderSpec, Valid(s), s.type # "BRACKET"
  PROVE  Complete(Simple(s))
<1> DEFINE leg == Simple(s)
<1>1. leg.type = s.type
  BY DEF Simple, Leg
<1>2. HasPrices(s)
  BY DEF Valid
<1>3. CASE s.type = "LMT"
  <2>1. Positive(s.limit) /\ leg.limit = s.limit
    BY <1>2, <1>3 DEF HasPrices, Simple, Leg, Trails
  <2>2. QED BY <1>1, <1>3, <2>1 DEF Complete, Trails
<1>4. CASE s.type = "STP"
  <2>1. Positive(s.stop) /\ leg.stop = s.stop
    BY <1>2, <1>4 DEF HasPrices, Simple, Leg, Trails
  <2>2. QED BY <1>1, <1>4, <2>1 DEF Complete, Trails
<1>5. CASE s.type = "STP_LMT"
  <2>1. Positive(s.limit) /\ leg.limit = s.limit /\ Positive(s.stop) /\ leg.stop = s.stop
    BY <1>2, <1>5 DEF HasPrices, Simple, Leg, Trails
  <2>2. QED BY <1>1, <1>5, <2>1 DEF Complete, Trails
<1>6. CASE s.type \in Trails
  <2>1. (s.amount = None) # (s.percent = None)
    BY <1>2, <1>6 DEF HasPrices, Trails
  <2>2. leg.stop = IF s.percent # None THEN s.percent ELSE s.amount
    BY <1>6 DEF Simple, Leg, Trails
  <2>3. Positive(leg.stop)
    <3>1. CASE s.percent # None
      <4>1. s.percent \in 1 .. 100
        BY <3>1, SpecFields
      <4>2. QED BY <2>2, <3>1, <4>1, SpecAssumption DEF Positive
    <3>2. CASE s.percent = None
      <4>1. s.amount \in Nat /\ s.amount > 0
        BY <2>1, <3>2, SpecFields
      <4>2. QED BY <2>2, <3>2, <4>1, SpecAssumption DEF Positive
    <3>3. QED BY <3>1, <3>2
  <2>4. QED BY <1>1, <1>6, <2>3 DEF Complete, Trails
<1>7. CASE s.type \notin {"LMT", "STP", "STP_LMT"} \cup Trails
  BY <1>1, <1>7 DEF Complete
<1>8. QED BY <1>3, <1>4, <1>5, <1>6, <1>7

LEMMA BracketPrices ==
  ASSUME NEW s \in OrderSpec, Valid(s), s.type = "BRACKET"
  PROVE  /\ Positive(s.limit) /\ Positive(s.takeProfit) /\ Positive(s.stopLoss) /\ Ordered(s)
         /\ s.limit \in Nat /\ s.takeProfit \in Nat /\ s.stopLoss \in Nat
<1>1. Positive(s.limit) /\ Positive(s.takeProfit) /\ Positive(s.stopLoss) /\ Ordered(s)
  BY DEF Valid, HasPrices, Trails
<1>2. QED BY <1>1, SpecFields DEF Positive

\* The three legs, one by one.
LEMMA BracketLegs ==
  ASSUME NEW s, NEW leg \in Bracket(s)
  PROVE  /\ leg.quantity = s.quantity
         /\ \/ /\ leg.role = "entry" /\ leg.type = "LMT" /\ leg.side = s.side
               /\ leg.limit = s.limit
            \/ /\ leg.role = "takeProfit" /\ leg.type = "LMT" /\ leg.side = Opposite(s.side)
               /\ leg.limit = s.takeProfit
            \/ /\ leg.role = "stopLoss" /\ leg.side = Opposite(s.side)
               /\ leg.type = (IF s.stopLossLimit = None THEN "STP" ELSE "STP_LMT")
               /\ leg.stop = s.stopLoss /\ leg.limit = s.stopLossLimit
BY DEF Bracket, Leg

LEMMA BracketComplete ==
  ASSUME NEW s \in OrderSpec, Valid(s), s.type = "BRACKET", NEW leg \in Bracket(s)
  PROVE  Complete(leg) \/ s.stopLossLimit = 0
<1>1. /\ Positive(s.limit) /\ Positive(s.takeProfit) /\ Positive(s.stopLoss)
  BY BracketPrices
<1>2. SUFFICES ASSUME s.stopLossLimit # 0 PROVE Complete(leg)
  OBVIOUS
<1>3. s.stopLossLimit # None => Positive(s.stopLossLimit)
  BY <1>2, SpecFields DEF Positive
<1>4. CASE leg.role \in {"entry", "takeProfit"}
  <2>1. leg.type = "LMT" /\ Positive(leg.limit)
    BY <1>1, <1>4, BracketLegs
  <2>2. QED BY <2>1 DEF Complete, Trails
<1>5. CASE leg.role = "stopLoss"
  <2>1. /\ Positive(leg.stop)
        /\ leg.type = (IF s.stopLossLimit = None THEN "STP" ELSE "STP_LMT")
        /\ leg.limit = s.stopLossLimit
    BY <1>1, <1>5, BracketLegs
  <2>2. QED BY <1>3, <2>1 DEF Complete, Trails
<1>6. QED BY <1>4, <1>5, BracketLegs

\* An order that passes validation is built with all its prices.
THEOREM ValidOrdersAreComplete == Spec => []AcceptedIsComplete
<1>1. ASSUME Asked, Previewed, NEW leg \in Built(answer.spec)
      PROVE  Complete(leg) \/ answer.spec.stopLossLimit = 0
  <2>1. PICK s \in OrderSpecs : s \in OrderSpec /\ Valid(s) /\ answer.spec = s
    BY <1>1, PreviewOf
  <2>2. CASE s.type = "BRACKET"
    BY <1>1, <2>1, <2>2, BracketComplete DEF Built
  <2>3. CASE s.type # "BRACKET"
    BY <1>1, <2>1, <2>3, SimpleComplete DEF Built
  <2>4. QED BY <2>2, <2>3
<1>2. Asked => AcceptedIsComplete
  BY <1>1 DEF AcceptedIsComplete
<1>3. QED BY <1>2, AskedHolds, PTL

LEMMA Products ==
  ASSUME NEW n \in Nat, n > 0, NEW a \in Nat, NEW b \in Nat
  PROVE  /\ a > b => n * (a - b) > 0 /\ (-n) * (a - b) < 0
         /\ a < b => n * (a - b) < 0 /\ (-n) * (a - b) > 0
<1>1. ASSUME NEW d \in Nat, d > 0
      PROVE  n * d > 0
  BY <1>1, SMT
<1>2. ASSUME a > b PROVE n * (a - b) > 0 /\ (-n) * (a - b) < 0
  <2>1. a - b \in Nat /\ a - b > 0
    BY <1>2
  <2>2. n * (a - b) > 0
    BY <1>1, <2>1
  <2>3. (-n) * (a - b) = -(n * (a - b))
    BY <2>1, SMT
  <2>4. QED BY <2>1, <2>2, <2>3
<1>3. ASSUME a < b PROVE n * (a - b) < 0 /\ (-n) * (a - b) > 0
  <2>1. b - a \in Nat /\ b - a > 0
    BY <1>3
  <2>2. n * (b - a) > 0
    BY <1>1, <2>1
  <2>3. n * (a - b) = -(n * (b - a)) /\ (-n) * (a - b) = n * (b - a)
    BY SMT
  <2>4. QED BY <2>1, <2>2, <2>3
<1>4. QED BY <1>2, <1>3

\* The exits of a bracket close its entry, with a gain and with a loss.
THEOREM BracketsProtect == Spec => []BracketIsProtective
<1>1. ASSUME Asked, Previewed, answer.spec.type = "BRACKET",
             NEW entry \in Built(answer.spec), NEW exit \in Built(answer.spec),
             entry.role = "entry", exit.role # "entry"
      PROVE  /\ Signed(entry) + Signed(exit) = 0
             /\ IF exit.role = "takeProfit" THEN Gain(entry, exit) > 0
                                            ELSE Gain(entry, exit) < 0
  <2>1. PICK s \in OrderSpecs : s \in OrderSpec /\ Valid(s) /\ answer.spec = s
    BY <1>1, PreviewOf
  <2>2. entry \in Bracket(s) /\ exit \in Bracket(s)
    BY <1>1, <2>1 DEF Built
  <2>3. /\ Ordered(s) /\ s.limit \in Nat /\ s.takeProfit \in Nat /\ s.stopLoss \in Nat
        /\ s.quantity \in Nat /\ s.quantity > 0 /\ s.side \in {"BUY", "SELL"}
    BY <1>1, <2>1, BracketPrices, SpecFields DEF Sides
  <2>4. /\ entry.quantity = s.quantity /\ entry.side = s.side /\ Trigger(entry) = s.limit
        /\ exit.quantity = s.quantity /\ exit.side = Opposite(s.side)
        /\ exit.role \in {"takeProfit", "stopLoss"}
        /\ Trigger(exit) = IF exit.role = "takeProfit" THEN s.takeProfit ELSE s.stopLoss
    BY <1>1, <2>2, BracketLegs DEF Trigger
  <2>5. CASE s.side = "BUY"
    <3>1. Signed(entry) = s.quantity /\ Signed(exit) = -s.quantity
      BY <2>4, <2>5 DEF Signed, Opposite
    <3>2. s.takeProfit > s.limit /\ s.stopLoss < s.limit
      BY <2>3, <2>5 DEF Ordered
    <3>3. /\ s.quantity * (s.takeProfit - s.limit) > 0
          /\ s.quantity * (s.stopLoss - s.limit) < 0
      BY <2>3, <3>2, Products
    <3>4. Signed(entry) + Signed(exit) = 0
      BY <2>3, <3>1
    <3>5. QED BY <2>4, <3>1, <3>3, <3>4 DEF Gain
  <2>6. CASE s.side = "SELL"
    <3>1. Signed(entry) = -s.quantity /\ Signed(exit) = s.quantity
      BY <2>4, <2>6 DEF Signed, Opposite
    <3>2. s.takeProfit < s.limit /\ s.stopLoss > s.limit
      BY <2>3, <2>6 DEF Ordered
    <3>3. /\ (-s.quantity) * (s.takeProfit - s.limit) > 0
          /\ (-s.quantity) * (s.stopLoss - s.limit) < 0
      BY <2>3, <3>2, Products
    <3>4. Signed(entry) + Signed(exit) = 0
      BY <2>3, <3>1
    <3>5. QED BY <2>4, <3>1, <3>3, <3>4 DEF Gain
  <2>7. QED BY <2>3, <2>5, <2>6
<1>2. Asked => BracketIsProtective
  BY <1>1 DEF BracketIsProtective
<1>3. QED BY <1>2, AskedHolds, PTL

(***************************************************************************)
(* Preview                                                                 *)
(***************************************************************************)

\* The preview of a bracket shows the orders that are placed.
THEOREM PreviewIsTrue == Spec => []PreviewShowsWhatIsBuilt
<1>1. ASSUME Asked, Previewed, answer.spec.type = "BRACKET", answer.spec.stopLossLimit # 0
      PROVE  answer.legs = Built(answer.spec)
  <2>1. PICK s \in OrderSpecs :
          /\ s \in OrderSpec /\ answer.spec = s
          /\ answer.legs = IF s.type = "BRACKET" THEN Legs(s) ELSE {}
    BY <1>1, PreviewOf
  <2>2. Positive(s.stopLossLimit) <=> s.stopLossLimit # None
    BY <1>1, <2>1, SpecFields DEF Positive
  <2>3. Legs(s) = Bracket(s)
    BY <2>2 DEF Legs, Bracket
  <2>4. QED BY <1>1, <2>1, <2>3 DEF Built
<1>2. Asked => PreviewShowsWhatIsBuilt
  BY <1>1 DEF PreviewShowsWhatIsBuilt
<1>3. QED BY <1>2, AskedHolds, PTL

LEMMA EstimateFacts ==
  ASSUME NEW s \in OrderSpec, Valid(s), NEW q \in [bid : Nat, ask : Nat, last : Nat]
  PROVE  /\ Estimate(s, q) = None => q.last = 0
         /\ Estimate(s, q) # None => Estimate(s, q) > 0
         /\ (s.type \in Trails /\ s.trailStop = None /\ q.last > 0) =>
              IF s.side = "SELL" THEN Estimate(s, q) <= q.last ELSE Estimate(s, q) >= q.last
<1>1. q.last \in Nat
  OBVIOUS
<1>2. Estimate(s, q) = IF Positive(FirstEstimate(s, q)) THEN FirstEstimate(s, q)
                       ELSE IF q.last > 0 THEN q.last ELSE None
  BY DEF Estimate
<1>3. Estimate(s, q) = None => q.last = 0
  BY <1>1, <1>2, SpecAssumption DEF Positive
<1>4. Estimate(s, q) # None => Estimate(s, q) > 0
  BY <1>2 DEF Positive
<1>5. ASSUME s.type \in Trails, s.trailStop = None, q.last > 0
      PROVE  IF s.side = "SELL" THEN Estimate(s, q) <= q.last ELSE Estimate(s, q) >= q.last
  <2> DEFINE distance == IF s.percent # None THEN (q.last * s.percent) \div 100 ELSE s.amount
  <2>1. distance \in Nat
    <3>1. CASE s.percent # None
      <4>1. s.percent \in Nat
        BY <3>1, SpecFields
      <4>2. q.last * s.percent \in Nat
        BY <1>1, <4>1
      <4>3. \A n \in Nat : n \div 100 \in Nat
        OBVIOUS
      <4>4. QED BY <3>1, <4>2, <4>3
    <3>2. CASE s.percent = None
      <4>1. (s.amount = None) # (s.percent = None)
        BY <1>5 DEF Valid, HasPrices, Trails
      <4>2. QED BY <3>2, <4>1, SpecFields
    <3>3. QED BY <3>1, <3>2
  <2>2. FirstEstimate(s, q) = Trailed(s, q)
    BY <1>5 DEF FirstEstimate, Trails, Positive
  <2>3. Trailed(s, q) = IF s.side = "SELL" THEN q.last - distance ELSE q.last + distance
    BY DEF Trailed
  <2>4. CASE s.side = "SELL"
    <3>1. FirstEstimate(s, q) = q.last - distance /\ q.last - distance <= q.last
      BY <1>1, <2>1, <2>2, <2>3, <2>4
    <3>2. QED BY <1>1, <1>2, <1>5, <2>4, <3>1
  <2>5. CASE s.side # "SELL"
    <3>1. /\ FirstEstimate(s, q) = q.last + distance
          /\ q.last + distance >= q.last /\ q.last + distance \in Nat
      BY <1>1, <2>1, <2>2, <2>3, <2>5
    <3>2. Positive(FirstEstimate(s, q))
      BY <1>1, <1>5, <3>1, SpecAssumption DEF Positive
    <3>3. QED BY <1>2, <2>5, <3>1, <3>2
  <2>6. QED BY <2>4, <2>5
<1>6. QED BY <1>3, <1>4, <1>5

\* An estimate is there if there is any price, and protects.
THEOREM EstimatesAreUsable == Spec => []EstimateIsUsable
<1>1. ASSUME Asked, Previewed
      PROVE  LET s == answer.spec
                 q == answer.quote IN
             /\ answer.estimate = None => q.last = 0
             /\ answer.estimate # None => answer.estimate > 0
             /\ (s.type \in Trails /\ s.trailStop = None /\ q.last > 0) =>
                  IF s.side = "SELL" THEN answer.estimate <= q.last ELSE answer.estimate >= q.last
  <2>1. PICK s \in OrderSpecs, q \in Quotes :
          /\ s \in OrderSpec /\ Valid(s)
          /\ answer.spec = s /\ answer.quote = q /\ answer.estimate = Estimate(s, q)
    BY <1>1, PreviewOf
  <2>2. q \in [bid : Nat, ask : Nat, last : Nat]
    BY QuoteAssumption
  <2>3. QED BY <2>1, <2>2, EstimateFacts
<1>2. Asked => EstimateIsUsable
  BY <1>1 DEF EstimateIsUsable
<1>3. QED BY <1>2, AskedHolds, PTL

(***************************************************************************)
(* The profile                                                             *)
(***************************************************************************)

\* Of an instrument that is no future and alone has its symbol, the position that is
\* found is its own.
LEMMA ExistingIsOwn ==
  ASSUME NEW i, NEW held, i.kind # "FUT", Alone(i, held)
  PROVE  Existing(i, held) = IF i \in DOMAIN held THEN held[i] ELSE 0
<1>1. PositionSymbol(i) = <<i.symbol>>
  BY DEF PositionSymbol
<1>2. \A a, b, c : <<a, b>> # <<c>>
  OBVIOUS
<1>3. ASSUME NEW j \in DOMAIN held \ {i}
      PROVE  PositionSymbol(j) # <<i.symbol>>
  <2>1. j.symbol # i.symbol
    BY <1>3 DEF Alone
  <2>2. <<j.symbol>> # <<i.symbol>>
    BY <2>1
  <2>3. QED BY <1>2, <2>2 DEF PositionSymbol
<1>4. Named(i, held) = IF i \in DOMAIN held THEN {i} ELSE {}
  BY <1>1, <1>3 DEF Named
<1>5. CASE i \in DOMAIN held
  <2>1. Named(i, held) = {i} /\ Named(i, held) # {}
    BY <1>4, <1>5
  <2>2. (CHOOSE j \in Named(i, held) : TRUE) = i
    BY <2>1
  <2>3. QED BY <1>5, <2>1, <2>2 DEF Existing
<1>6. CASE i \notin DOMAIN held
  BY <1>4, <1>6 DEF Existing
<1>7. QED BY <1>5, <1>6

LEMMA ImpactOf ==
  ASSUME Asked, answer # None, answer.kind = "impact"
  PROVE  \E o \in Orders, profile \in Profiles, held \in Holdings, netLiq \in NetLiquidations :
           /\ answer.order = o /\ answer.profile = profile /\ answer.held = held
           /\ answer.netLiq = netLiq /\ answer.after = After(o, held)
           /\ answer.value = Value(o, Abs(After(o, held)), answer.price)
           /\ answer.violations = Violations(o, profile, held, netLiq)
<1>1. \A w, now, checked, asked : Status(w, now, checked, asked).kind # "impact"
  BY DEF Status
<1>2. \A s, q : Preview(s, q).kind # "impact"
  BY DEF Preview
<1>3. PICK o \in Orders, estimate \in Estimates \cup {None}, q \in Quotes \cup {None},
           profile \in Profiles, held \in Holdings, netLiq \in NetLiquidations :
        answer = Impact(o, estimate, q, profile, held, netLiq)
  BY <1>1, <1>2 DEF Asked
<1>4. QED BY <1>3 DEF Impact

\* The concentration is checked, and is too high.
Limited ==
  answer.profile.percent # None /\ answer.netLiq > 0 /\ answer.order.price # None
Refused == "concentration" \in answer.violations

\* Profile and impact count what the account holds of the order's instrument, and agree
\* where they reckon with one price.
THEOREM ProfilesCountHoldings == Spec => []HoldingsAreCounted
<1>1. ASSUME Asked, answer # None, answer.kind = "impact",
             answer.order.instrument.kind # "FUT",
             Alone(answer.order.instrument, answer.held),
             NEW o, o = answer.order,
             NEW has, has = IF o.instrument \in DOMAIN answer.held
                              THEN answer.held[o.instrument] ELSE 0,
             NEW after, after = IF o.side = "BUY" THEN has + o.quantity ELSE has - o.quantity,
             NEW amount, amount = IF after < 0 THEN -after ELSE after
      PROVE  /\ answer.after = after
             /\ Limited => (Refused <=> amount * o.price * o.instrument.multiplier * 100
                                          > answer.profile.percent * answer.netLiq)
             /\ (Limited /\ answer.price = o.price)
                  => (Refused <=> answer.value * 100 > answer.profile.percent * answer.netLiq)
             /\ (~answer.profile.short /\ o.side = "SELL" /\ has < 0)
                  => "short" \in answer.violations
  <2>1. PICK order \in Orders, profile \in Profiles, held \in Holdings,
             netLiq \in NetLiquidations :
          /\ answer.order = order /\ answer.profile = profile /\ answer.held = held
          /\ answer.netLiq = netLiq /\ answer.after = After(order, held)
          /\ answer.value = Value(order, Abs(After(order, held)), answer.price)
          /\ answer.violations = Violations(order, profile, held, netLiq)
    BY <1>1, ImpactOf
  <2>2. o = order /\ Existing(o.instrument, held) = has
    BY <1>1, <2>1, ExistingIsOwn
  <2>3. has \in Int /\ o.quantity \in Nat
    BY <1>1, <2>1, <2>2, HoldingAssumption, OrderAssumption
  <2>4. After(o, held) = after /\ Abs(After(o, held)) = amount
    BY <1>1, <2>1, <2>2, <2>3 DEF After, Abs
  <2>5. Refused <=> (Limited /\ Value(o, amount, o.price) * 100 > profile.percent * netLiq)
    <3>1. ("concentration" \in Violations(o, profile, held, netLiq)) <=>
            (profile.percent # None /\ o.price # None /\ netLiq > 0
               /\ Value(o, Abs(After(o, held)), o.price) * 100 > profile.percent * netLiq)
      BY DEF Violations
    <3>2. QED BY <1>1, <2>1, <2>2, <2>4, <3>1 DEF Limited, Refused
  <2>6. Limited => Value(o, amount, o.price) = amount * o.price * o.instrument.multiplier
    BY <1>1 DEF Value, Limited
  <2>7. answer.value = Value(o, amount, answer.price)
    BY <2>1, <2>2, <2>4
  <2>8. (~profile.short /\ o.side = "SELL" /\ has < 0) => "short" \in answer.violations
    <3>1. has < 0 => DOMAIN held # {} /\ has <= 0
      BY <1>1, <2>1, <2>3
    <3>2. QED BY <2>1, <2>2, <3>1 DEF Violations
  <2>9. Limited => (Refused <=> amount * o.price * o.instrument.multiplier * 100
                                  > answer.profile.percent * answer.netLiq)
    BY <1>1, <2>1, <2>5, <2>6
  <2>10. (Limited /\ answer.price = o.price)
           => (Refused <=> answer.value * 100 > answer.profile.percent * answer.netLiq)
    BY <1>1, <2>1, <2>5, <2>7
  <2>11. QED BY <1>1, <2>1, <2>2, <2>4, <2>8, <2>9, <2>10
<1>2. Asked => HoldingsAreCounted
  BY <1>1 DEF HoldingsAreCounted, Limited, Refused
<1>3. QED BY <1>2, AskedHolds, PTL

(***************************************************************************)
(* The run window                                                          *)
(***************************************************************************)

\* A time is a day and a time of that day, in one way.
LEMMA DayAndTime ==
  ASSUME NEW t \in Nat
  PROVE  /\ t \div DayLength \in Nat /\ TimeOfDay(t) \in TimesOfDay
         /\ t = (t \div DayLength) * DayLength + TimeOfDay(t)
BY DayAssumption, SMT DEF TimeOfDay, TimesOfDay

LEMMA OneDay ==
  ASSUME NEW day \in Nat, NEW time \in TimesOfDay
  PROVE  /\ day * DayLength + time \in Nat
         /\ Weekday(day * DayLength + time) = day % 7
         /\ TimeOfDay(day * DayLength + time) = time
<1>1. day * DayLength \in Nat
  BY DayAssumption, SMT
<1>2. /\ (day * DayLength + time) \div DayLength = day
      /\ (day * DayLength + time) % DayLength = time
  BY DayAssumption, SMTT(30) DEF TimesOfDay
<1>3. QED BY <1>1, <1>2, DayAssumption DEF Weekday, TimeOfDay, TimesOfDay

\* Days follow each other.
LEMMA DaysAdd ==
  ASSUME NEW day \in Nat, NEW d \in Nat
  PROVE  /\ (day + d) * DayLength = day * DayLength + (d * DayLength)
         /\ day * DayLength \in Nat /\ d * DayLength \in Nat
BY DayAssumption, SMTT(30)

LEMMA LaterDay ==
  ASSUME NEW day \in Nat, NEW other \in Nat, day < other
  PROVE  day * DayLength + DayLength <= other * DayLength
<1>1. (day + 1) * DayLength <= other * DayLength
  BY DayAssumption, SMTT(30)
<1>2. (day + 1) * DayLength = day * DayLength + DayLength
  BY DayAssumption, SMTT(30)
<1>3. QED BY <1>1, <1>2

\* The days ahead on which the window opens, and the first of them.
AheadOf(w, t) == {d \in 1 .. 7 : Weekday(t + d * DayLength) \in w.days}
NextOf(w, t) == CHOOSE d \in AheadOf(w, t) : \A e \in AheadOf(w, t) : d <= e

\* A set of numbers from one to seven has a least one.
LEMMA LeastOfSeven ==
  ASSUME NEW S \in SUBSET (1 .. 7), S # {}
  PROVE  \E d \in S : \A e \in S : d <= e
<1>1. CASE 1 \in S
  BY <1>1
<1>2. CASE 1 \notin S /\ 2 \in S
  BY <1>2
<1>3. CASE 1 \notin S /\ 2 \notin S /\ 3 \in S
  BY <1>3
<1>4. CASE 1 \notin S /\ 2 \notin S /\ 3 \notin S /\ 4 \in S
  BY <1>4
<1>5. CASE 1 \notin S /\ 2 \notin S /\ 3 \notin S /\ 4 \notin S /\ 5 \in S
  BY <1>5
<1>6. CASE S \subseteq {6, 7} /\ 6 \in S
  BY <1>6
<1>7. CASE S \subseteq {7}
  <2>1. PICK d \in S : TRUE
    OBVIOUS
  <2>2. \A e \in S : d <= e
    BY <1>7, <2>1
  <2>3. QED BY <2>2
<1>8. (1 \notin S /\ 2 \notin S /\ 3 \notin S /\ 4 \notin S /\ 5 \notin S) => S \subseteq {6, 7}
  OBVIOUS
<1>9. QED BY <1>1, <1>2, <1>3, <1>4, <1>5, <1>6, <1>7, <1>8

\* The weekday so many days later.
LEMMA WeekdayAhead ==
  ASSUME NEW t \in Nat, NEW d \in Nat
  PROVE  Weekday(t + d * DayLength) = ((t \div DayLength) + d) % 7
<1> DEFINE day == t \div DayLength
<1>1. /\ day \in Nat /\ TimeOfDay(t) \in TimesOfDay
      /\ t = day * DayLength + TimeOfDay(t)
  BY DayAndTime
<1>2. t + d * DayLength = (day + d) * DayLength + TimeOfDay(t)
  <2> HIDE DEF day
  <2>1. (day + d) * DayLength = day * DayLength + (d * DayLength)
    BY <1>1, DaysAdd
  <2>2. day * DayLength \in Nat /\ d * DayLength \in Nat
    BY <1>1, DaysAdd
  <2>3. QED BY <1>1, <2>1, <2>2, DayAssumption DEF TimesOfDay
<1>3. day + d \in Nat
  BY <1>1
<1>4. QED BY <1>1, <1>2, <1>3, OneDay

\* A window with a day opens within a week.
LEMMA NextOpening ==
  ASSUME NEW w \in Windows, w.days # {}, NEW t \in Nat
  PROVE  /\ NextOf(w, t) \in 1 .. 7
         /\ ((t \div DayLength) + NextOf(w, t)) % 7 \in w.days
         /\ \A d \in 1 .. 7 : d < NextOf(w, t) => ((t \div DayLength) + d) % 7 \notin w.days
<1> DEFINE day == t \div DayLength
<1>1. day \in Nat
  BY DayAndTime
<1>2. \A d \in 1 .. 7 : d \in AheadOf(w, t) <=> (day + d) % 7 \in w.days
  BY WeekdayAhead DEF AheadOf
<1> HIDE DEF day
<1>3. PICK weekday \in 0 .. 6 : weekday \in w.days
  BY WindowAssumption DEF Weekdays
<1>4. \E d \in 1 .. 7 : (day + d) % 7 = weekday
  BY <1>1, SMT
<1>5. AheadOf(w, t) # {} /\ AheadOf(w, t) \in SUBSET (1 .. 7)
  BY <1>2, <1>3, <1>4 DEF AheadOf
<1>6. NextOf(w, t) \in AheadOf(w, t) /\ \A e \in AheadOf(w, t) : NextOf(w, t) <= e
  BY <1>5, LeastOfSeven DEF NextOf
<1>7. NextOf(w, t) \in 1 .. 7
  BY <1>5, <1>6
<1>8. \A d \in 1 .. 7 : d < NextOf(w, t) => (day + d) % 7 \notin w.days
  BY <1>2, <1>6, <1>7
<1>9. QED BY <1>2, <1>6, <1>7, <1>8 DEF day

\* What is asked about a window, and the time that is answered.
LEMMA WindowOf ==
  ASSUME Asked, answer # None, answer.kind = "window"
  PROVE  \E w \in Windows, now \in Times :
           \E checked \in SoonAfter(now) :
             \E asked \in SoonAfter(checked) :
               /\ w.days # {} /\ answer.window = w /\ answer.now = now /\ answer.asked = asked
               /\ answer.within = Within(w, checked)
               /\ answer.until = NextTime(w, asked, IF Within(w, checked) THEN w.end ELSE w.start)
<1>1. \A s, q : Preview(s, q).kind # "window"
  BY DEF Preview
<1>2. \A o, estimate, q, profile, held, netLiq :
        Impact(o, estimate, q, profile, held, netLiq).kind # "window"
  BY DEF Impact
<1>3. PICK w \in Windows, now \in Times :
        \E checked \in SoonAfter(now) :
          \E asked \in SoonAfter(checked) : answer = Status(w, now, checked, asked)
  BY <1>1, <1>2 DEF Asked
<1>4. PICK checked \in SoonAfter(now) :
        \E asked \in SoonAfter(checked) : answer = Status(w, now, checked, asked)
  BY <1>3
<1>5. PICK asked \in SoonAfter(checked) : answer = Status(w, now, checked, asked)
  BY <1>4
<1>6. /\ w.days # {} /\ answer.window = w /\ answer.now = now /\ answer.asked = asked
      /\ answer.within = Within(w, checked)
      /\ answer.until = NextTime(w, asked, IF Within(w, checked) THEN w.end ELSE w.start)
  BY <1>5 DEF Status
<1>7. QED BY <1>3, <1>4, <1>5, <1>6

\* NextTime, by the day of the time and by its time of day.
LEMMA NextTimeIs ==
  ASSUME NEW w \in Windows, w.days # {}, NEW t \in Nat, NEW time \in TimesOfDay
  PROVE  NextTime(w, t, time) =
           LET day == t \div DayLength IN
           IF day % 7 \in w.days /\ TimeOfDay(t) < time
             THEN day * DayLength + time
             ELSE (day + NextOf(w, t)) * DayLength + time
<1> DEFINE day == t \div DayLength
<1>1. day \in Nat /\ TimeOfDay(t) \in TimesOfDay /\ t = day * DayLength + TimeOfDay(t)
  BY DayAndTime
<1>2. Weekday(t) = day % 7
  BY DEF Weekday
<1>3. NextOf(w, t) \in Nat
  BY NextOpening
<1>4. NextTime(w, t, time) =
        IF Weekday(t) \in w.days /\ TimeOfDay(t) < time
          THEN (t - TimeOfDay(t)) + time
          ELSE (t - TimeOfDay(t)) + NextOf(w, t) * DayLength + time
  BY DEF NextTime, NextOf, AheadOf
<1> HIDE DEF day
<1>5. /\ (day + NextOf(w, t)) * DayLength = day * DayLength + NextOf(w, t) * DayLength
      /\ day * DayLength \in Nat /\ NextOf(w, t) * DayLength \in Nat
  BY <1>1, <1>3, DaysAdd
<1>6. t - TimeOfDay(t) = day * DayLength
  BY <1>1, <1>5, DayAssumption DEF TimesOfDay
<1>7. NextTime(w, t, time) =
        IF day % 7 \in w.days /\ TimeOfDay(t) < time
          THEN day * DayLength + time
          ELSE (day + NextOf(w, t)) * DayLength + time
  BY <1>2, <1>4, <1>5, <1>6
<1>8. QED BY <1>7 DEF day

\* A time between two times is on a day between theirs: on the first day it is not
\* before the first, and on the last before the last.
LEMMA Between ==
  ASSUME NEW first \in Nat, NEW day \in Nat, NEW time \in TimesOfDay,
         NEW until, until = day * DayLength + time, NEW t \in first .. until - 1
  PROVE  LET its == t \div DayLength
             firstDay == first \div DayLength IN
         /\ its \in firstDay .. day
         /\ its = firstDay => TimeOfDay(first) <= TimeOfDay(t)
         /\ its = day => TimeOfDay(t) < time
<1> DEFINE its == t \div DayLength
           firstDay == first \div DayLength
<1>1. day * DayLength \in Nat /\ time \in Nat /\ DayLength \in Nat /\ time < DayLength
  BY DaysAdd, DayAssumption DEF TimesOfDay
<1>2. t \in Nat /\ first <= t /\ t < day * DayLength + time
  BY <1>1
<1>3. its \in Nat /\ TimeOfDay(t) \in TimesOfDay /\ t = its * DayLength + TimeOfDay(t)
  BY <1>2, DayAndTime
<1>4. /\ firstDay \in Nat /\ TimeOfDay(first) \in TimesOfDay
      /\ first = firstDay * DayLength + TimeOfDay(first)
  BY DayAndTime
<1> HIDE DEF its, firstDay
<1>5. its * DayLength \in Nat /\ firstDay * DayLength \in Nat
  BY <1>3, <1>4, DaysAdd
<1>6. ~(day < its)
  <2>1. ASSUME day < its PROVE FALSE
    <3>1. day * DayLength + DayLength <= its * DayLength
      BY <1>3, <2>1, LaterDay
    <3>2. QED BY <1>1, <1>2, <1>3, <1>5, <3>1 DEF TimesOfDay
  <2>2. QED BY <2>1
<1>7. ~(its < firstDay)
  <2>1. ASSUME its < firstDay PROVE FALSE
    <3>1. its * DayLength + DayLength <= firstDay * DayLength
      BY <1>3, <1>4, <2>1, LaterDay
    <3>2. QED BY <1>1, <1>2, <1>3, <1>4, <1>5, <3>1 DEF TimesOfDay
  <2>2. QED BY <2>1
<1>8. its = firstDay => TimeOfDay(first) <= TimeOfDay(t)
  BY <1>2, <1>3, <1>4, <1>5 DEF TimesOfDay
<1>9. its = day => TimeOfDay(t) < time
  BY <1>1, <1>2, <1>3, <1>5 DEF TimesOfDay
<1>10. its \in firstDay .. day
  BY <1>3, <1>4, <1>6, <1>7
<1>11. QED BY <1>8, <1>9, <1>10 DEF its, firstDay

\* Inside a window, it closes at the next end, and is open until then.
LEMMA ClosesAtEnd ==
  ASSUME NEW w \in Windows, w.days # {}, NEW t \in Nat, Within(w, t)
  PROVE  /\ NextTime(w, t, w.end) \in Nat
         /\ ~Within(w, NextTime(w, t, w.end))
         /\ \A x \in t .. NextTime(w, t, w.end) - 1 : Within(w, x)
<1> DEFINE day == t \div DayLength
           until == day * DayLength + w.end
<1>1. w.start \in TimesOfDay /\ w.end \in TimesOfDay
  BY WindowAssumption
<1>2. day \in Nat /\ TimeOfDay(t) \in TimesOfDay
  BY DayAndTime
<1>3. day % 7 \in w.days /\ w.start <= TimeOfDay(t) /\ TimeOfDay(t) < w.end
  BY DEF Within, Weekday
<1>4. NextTime(w, t, w.end) = until
  BY <1>1, <1>3, NextTimeIs
<1>5. until \in Nat /\ TimeOfDay(until) = w.end
  BY <1>1, <1>2, OneDay
<1>6. ~Within(w, until)
  BY <1>1, <1>5, DayAssumption DEF Within, TimesOfDay
<1>7. ASSUME NEW x \in t .. until - 1
      PROVE  Within(w, x)
  <2>1. /\ x \div DayLength \in day .. day
        /\ x \div DayLength = day => TimeOfDay(t) <= TimeOfDay(x)
        /\ x \div DayLength = day => TimeOfDay(x) < w.end
    <3>1. until = day * DayLength + w.end
      OBVIOUS
    <3> HIDE DEF until, day
    <3>2. QED BY <1>1, <1>2, <3>1, Between DEF day
  <2>2. x \in Nat
    BY <1>5
  <2>3. TimeOfDay(x) \in TimesOfDay
    BY <2>2, DayAndTime
  <2>4. x \div DayLength = day
    BY <1>2, <2>1
  <2>5. w.start <= TimeOfDay(x)
    BY <1>1, <1>2, <1>3, <2>1, <2>3, <2>4, DayAssumption DEF TimesOfDay
  <2>6. QED BY <1>3, <2>1, <2>4, <2>5 DEF Within, Weekday
<1> HIDE DEF until
<1>8. QED BY <1>4, <1>5, <1>6, <1>7

\* Outside a window that does not go past midnight, it opens at the next start, and
\* is closed until then.
LEMMA OpensAtStart ==
  ASSUME NEW w \in Windows, w.days # {}, w.start < w.end, NEW t \in Nat, ~Within(w, t)
  PROVE  /\ NextTime(w, t, w.start) \in Nat
         /\ Within(w, NextTime(w, t, w.start))
         /\ \A x \in t .. NextTime(w, t, w.start) - 1 : ~Within(w, x)
<1> DEFINE day == t \div DayLength
           today == day % 7 \in w.days /\ TimeOfDay(t) < w.start
           last == IF today THEN day ELSE day + NextOf(w, t)
           until == last * DayLength + w.start
<1>1. w.start \in TimesOfDay /\ w.end \in TimesOfDay
  BY WindowAssumption
<1>2. day \in Nat /\ TimeOfDay(t) \in TimesOfDay
  BY DayAndTime
<1>3. NextTime(w, t, w.start) = until
  BY <1>1, NextTimeIs
<1>4. /\ NextOf(w, t) \in 1 .. 7
      /\ (day + NextOf(w, t)) % 7 \in w.days
      /\ \A d \in 1 .. 7 : d < NextOf(w, t) => (day + d) % 7 \notin w.days
  BY NextOpening
<1>5. ~today => day % 7 \notin w.days \/ w.end <= TimeOfDay(t)
  BY <1>1, <1>2, DayAssumption DEF Within, Weekday, TimesOfDay
<1>6. last \in Nat /\ last % 7 \in w.days
  BY <1>2, <1>4
<1> HIDE DEF last, today
<1>7. until \in Nat /\ Weekday(until) = last % 7 /\ TimeOfDay(until) = w.start
  BY <1>1, <1>6, OneDay
<1>8. Within(w, until)
  BY <1>1, <1>6, <1>7, DayAssumption DEF Within, TimesOfDay
<1>9. ASSUME NEW x \in t .. until - 1
      PROVE  ~Within(w, x)
  <2> DEFINE its == x \div DayLength
  <2>1. /\ its \in day .. last
        /\ its = day => TimeOfDay(t) <= TimeOfDay(x)
        /\ its = last => TimeOfDay(x) < w.start
    <3>1. until = last * DayLength + w.start
      OBVIOUS
    <3> HIDE DEF until
    <3>2. QED BY <1>1, <1>6, <3>1, Between
  <2>2. x \in Nat
    BY <1>7
  <2>3. TimeOfDay(x) \in TimesOfDay
    BY <2>2, DayAndTime
  <2>4. CASE its = last
    <3>1. ~(w.start <= TimeOfDay(x))
      BY <1>1, <2>1, <2>3, <2>4, DayAssumption DEF TimesOfDay
    <3>2. QED BY <3>1 DEF Within
  <2>5. CASE its = day /\ its # last
    <3>1. ~today
      BY <2>5 DEF last
    <3>2. day % 7 \notin w.days \/ ~(TimeOfDay(x) < w.end)
      BY <1>1, <1>2, <1>5, <2>1, <2>3, <2>5, <3>1, DayAssumption DEF TimesOfDay
    <3>3. QED BY <2>5, <3>2 DEF Within, Weekday
  <2>6. CASE its # day /\ its # last
    <3> DEFINE d == its - day
    <3> HIDE DEF its, day, until
    <3>1. ~today /\ last = day + NextOf(w, t)
      BY <1>2, <1>6, <2>1, <2>6 DEF last
    <3>2. NextOf(w, t) \in 1 .. 7 /\ day \in Nat /\ its \in day .. last
      BY <1>2, <1>4, <2>1
    <3>3. d \in 1 .. 7 /\ d < NextOf(w, t) /\ day + d = its
      BY <2>6, <3>1, <3>2
    <3> HIDE DEF d
    <3>4. its % 7 \notin w.days
      BY <1>4, <3>3
    <3>5. QED BY <3>4 DEF Within, Weekday, its
  <2>7. QED BY <2>4, <2>5, <2>6
<1> HIDE DEF until
<1>10. QED BY <1>3, <1>7, <1>8, <1>9

\* The next time is the first after the read at which it is that time of a day of the
\* window.
LEMMA NextIsFirst ==
  ASSUME NEW w \in Windows, w.days # {}, NEW t \in Nat, NEW time \in TimesOfDay
  PROVE  LET until == NextTime(w, t, time) IN
         /\ until \in Nat /\ until > t
         /\ Weekday(until) \in w.days /\ TimeOfDay(until) = time
         /\ \A x \in t + 1 .. until - 1 : ~(Weekday(x) \in w.days /\ TimeOfDay(x) = time)
<1> DEFINE day == t \div DayLength
           today == day % 7 \in w.days /\ TimeOfDay(t) < time
           last == IF today THEN day ELSE day + NextOf(w, t)
           until == last * DayLength + time
<1>1. /\ day \in Nat /\ TimeOfDay(t) \in TimesOfDay
      /\ t = day * DayLength + TimeOfDay(t)
  BY DayAndTime
<1>2. NextTime(w, t, time) = until
  BY NextTimeIs
<1>3. /\ NextOf(w, t) \in 1 .. 7
      /\ (day + NextOf(w, t)) % 7 \in w.days
      /\ \A d \in 1 .. 7 : d < NextOf(w, t) => (day + d) % 7 \notin w.days
  BY NextOpening
<1>4. ~today => day % 7 \notin w.days \/ time <= TimeOfDay(t)
  BY <1>1, DayAssumption DEF TimesOfDay
<1>5. last \in Nat /\ last % 7 \in w.days
  BY <1>1, <1>3
<1>6. today => last = day /\ TimeOfDay(t) < time
  OBVIOUS
<1>7. ~today => last = day + NextOf(w, t)
  OBVIOUS
<1> HIDE DEF last, today, day
<1>8. until \in Nat /\ Weekday(until) = last % 7 /\ TimeOfDay(until) = time
  BY <1>5, OneDay
<1>9. until > t
  <2>1. CASE today
    <3>1. day * DayLength \in Nat
      BY <1>1, DaysAdd
    <3>2. QED BY <1>1, <1>6, <2>1, <3>1, DayAssumption DEF TimesOfDay
  <2>2. CASE ~today
    <3>1. day < last
      BY <1>1, <1>3, <1>7, <2>2
    <3>2. day * DayLength + DayLength <= last * DayLength
      BY <1>1, <1>5, <3>1, LaterDay
    <3>3. day * DayLength \in Nat /\ last * DayLength \in Nat
      BY <1>1, <1>5, DaysAdd
    <3>4. QED BY <1>1, <3>2, <3>3, DayAssumption DEF TimesOfDay
  <2>3. QED BY <2>1, <2>2
<1>10. ASSUME NEW x \in t + 1 .. until - 1
       PROVE  ~(Weekday(x) \in w.days /\ TimeOfDay(x) = time)
  <2> DEFINE its == x \div DayLength
  <2>1. x \in t .. until - 1 /\ x \in Nat /\ x > t
    BY <1>8
  <2>2. /\ its \in day .. last
        /\ its = last => TimeOfDay(x) < time
    <3>1. until = last * DayLength + time
      OBVIOUS
    <3> HIDE DEF until
    <3>2. QED BY <1>5, <2>1, <3>1, Between DEF day
  <2>3. TimeOfDay(x) \in TimesOfDay /\ x = its * DayLength + TimeOfDay(x) /\ its \in Nat
    BY <2>1, DayAndTime
  <2>4. CASE its = last
    BY <2>2, <2>3, <2>4, DayAssumption DEF TimesOfDay
  <2>5. CASE its = day /\ its # last
    <3>1. ~today
      BY <1>6, <2>5
    <3>2. TimeOfDay(t) < TimeOfDay(x)
      <4>1. day * DayLength \in Nat /\ x = day * DayLength + TimeOfDay(x)
        BY <1>1, <2>3, <2>5, DaysAdd
      <4>2. QED BY <1>1, <2>1, <2>3, <4>1, DayAssumption DEF TimesOfDay
    <3>3. day % 7 \notin w.days \/ TimeOfDay(x) # time
      BY <1>1, <1>4, <2>3, <3>1, <3>2, DayAssumption DEF TimesOfDay
    <3>4. QED BY <2>5, <3>3 DEF Weekday
  <2>6. CASE its # day /\ its # last
    <3> DEFINE d == its - day
    <3> HIDE DEF its, until
    <3>1. ~today /\ last = day + NextOf(w, t)
      BY <1>1, <1>6, <1>7, <2>2, <2>6
    <3>2. NextOf(w, t) \in 1 .. 7 /\ day \in Nat /\ its \in day .. last
      BY <1>1, <1>3, <2>2
    <3>3. d \in 1 .. 7 /\ d < NextOf(w, t) /\ day + d = its
      BY <2>6, <3>1, <3>2
    <3> HIDE DEF d
    <3>4. its % 7 \notin w.days
      BY <1>3, <3>3
    <3>5. QED BY <3>4 DEF Weekday, its
  <2>7. QED BY <2>4, <2>5, <2>6
<1> HIDE DEF until
<1>11. QED BY <1>2, <1>5, <1>8, <1>9, <1>10

\* A window that does not go past midnight opens at its start and closes at its end, on
\* its days.
LEMMA TurnIs ==
  ASSUME NEW w \in Windows, w.start < w.end, NEW t \in Nat, t > 0, NEW open \in BOOLEAN
  PROVE  Turns(w, t, open) <=>
           /\ Weekday(t) \in w.days
           /\ TimeOfDay(t) = IF open THEN w.end ELSE w.start
<1> DEFINE day == t \div DayLength
           before == (t - 1) \div DayLength
<1>1. w.start \in TimesOfDay /\ w.end \in TimesOfDay
  BY WindowAssumption
<1>2. /\ day \in Nat /\ TimeOfDay(t) \in TimesOfDay
      /\ t = day * DayLength + TimeOfDay(t)
  BY DayAndTime
<1>3. /\ before \in Nat /\ TimeOfDay(t - 1) \in TimesOfDay
      /\ t - 1 = before * DayLength + TimeOfDay(t - 1)
  <2>1. t - 1 \in Nat
    OBVIOUS
  <2>2. QED BY <2>1, DayAndTime
<1>4. Weekday(t) = day % 7 /\ Weekday(t - 1) = before % 7
  BY DEF Weekday
<1> HIDE DEF day, before
<1>5. day * DayLength \in Nat /\ before * DayLength \in Nat
  BY <1>2, <1>3, DaysAdd
<1>6. CASE TimeOfDay(t) = 0
  <2>1. TimeOfDay(t - 1) = DayLength - 1
    <3>1. before < day
      <4>1. ASSUME ~(before < day) PROVE FALSE
        <5>1. CASE before = day
          BY <1>2, <1>3, <1>5, <1>6, <5>1, DayAssumption DEF TimesOfDay
        <5>2. CASE day < before
          <6>1. day * DayLength + DayLength <= before * DayLength
            BY <1>2, <1>3, <5>2, LaterDay
          <6>2. QED BY <1>2, <1>3, <1>5, <1>6, <6>1, DayAssumption DEF TimesOfDay
        <5>3. QED BY <1>2, <1>3, <4>1, <5>1, <5>2
      <4>2. QED BY <4>1
    <3>2. before * DayLength + DayLength <= day * DayLength
      BY <1>2, <1>3, <3>1, LaterDay
    <3>3. QED BY <1>2, <1>3, <1>5, <1>6, <3>2, DayAssumption DEF TimesOfDay
  <2>2. ~Within(w, t - 1)
    BY <1>1, <2>1, DayAssumption DEF Within, TimesOfDay
  <2>3. Within(w, t) <=> Weekday(t) \in w.days /\ w.start = 0
    BY <1>1, <1>6, DayAssumption DEF Within, TimesOfDay
  <2>4. Within(w, t - 1) = FALSE /\ Within(w, t) \in BOOLEAN
    BY <2>2 DEF Within
  <2>5. w.end # 0
    BY <1>1, DayAssumption DEF TimesOfDay
  <2>6. CASE open = TRUE
    BY <1>6, <2>4, <2>5, <2>6 DEF Turns
  <2>7. CASE open = FALSE
    BY <1>6, <2>3, <2>4, <2>7 DEF Turns
  <2>8. QED BY <2>6, <2>7
<1>7. CASE TimeOfDay(t) # 0
  <2>1. before = day /\ TimeOfDay(t - 1) = TimeOfDay(t) - 1
    <3>1. ~(before < day)
      <4>1. ASSUME before < day PROVE FALSE
        <5>1. before * DayLength + DayLength <= day * DayLength
          BY <1>2, <1>3, <4>1, LaterDay
        <5>2. QED BY <1>2, <1>3, <1>5, <1>7, <5>1, DayAssumption DEF TimesOfDay
      <4>2. QED BY <4>1
    <3>2. ~(day < before)
      <4>1. ASSUME day < before PROVE FALSE
        <5>1. day * DayLength + DayLength <= before * DayLength
          BY <1>2, <1>3, <4>1, LaterDay
        <5>2. QED BY <1>2, <1>3, <1>5, <5>1, DayAssumption DEF TimesOfDay
      <4>2. QED BY <4>1
    <3>3. before = day
      BY <1>2, <1>3, <3>1, <3>2
    <3>4. QED BY <1>2, <1>3, <1>5, <3>3, DayAssumption DEF TimesOfDay
  <2>2. Weekday(t - 1) = Weekday(t)
    BY <1>4, <2>1
  <2>3. TimeOfDay(t) \in Int /\ w.start \in Int /\ w.end \in Int
    BY <1>1, <1>2, DayAssumption DEF TimesOfDay
  <2>4. Within(w, t - 1) <=>
          Weekday(t) \in w.days /\ w.start <= TimeOfDay(t) - 1 /\ TimeOfDay(t) - 1 < w.end
    BY <2>1, <2>2 DEF Within
  <2>5. Within(w, t) <=>
          Weekday(t) \in w.days /\ w.start <= TimeOfDay(t) /\ TimeOfDay(t) < w.end
    BY DEF Within
  <2>6. Within(w, t) \in BOOLEAN /\ Within(w, t - 1) \in BOOLEAN
    BY DEF Within
  <2>7. CASE open = TRUE
    <3>1. Turns(w, t, open) <=> Within(w, t - 1) /\ ~Within(w, t)
      BY <2>6, <2>7 DEF Turns
    <3>2. TimeOfDay(t) - 1 < w.end /\ ~(TimeOfDay(t) < w.end) <=> TimeOfDay(t) = w.end
      BY <2>3
    <3>3. TimeOfDay(t) = w.end => w.start <= TimeOfDay(t) - 1 /\ w.start <= TimeOfDay(t)
      BY <2>3
    <3>4. w.start <= TimeOfDay(t) - 1 => w.start <= TimeOfDay(t)
      BY <2>3
    <3>5. QED BY <2>4, <2>5, <2>7, <3>1, <3>2, <3>3, <3>4
  <2>8. CASE open = FALSE
    <3>1. Turns(w, t, open) <=> ~Within(w, t - 1) /\ Within(w, t)
      BY <2>6, <2>8 DEF Turns
    <3>2. ~(w.start <= TimeOfDay(t) - 1) /\ w.start <= TimeOfDay(t) <=> TimeOfDay(t) = w.start
      BY <2>3
    <3>3. TimeOfDay(t) = w.start => TimeOfDay(t) < w.end
      BY <2>3
    <3>4. TimeOfDay(t) < w.end => TimeOfDay(t) - 1 < w.end
      BY <2>3
    <3>5. QED BY <2>4, <2>5, <2>8, <3>1, <3>2, <3>3, <3>4
  <2>9. QED BY <2>7, <2>8
<1>8. QED BY <1>6, <1>7

\* The time that the status of the window names is the first, since the last of its reads
\* of the clock, at which the window turns from what the status says; and unless it has
\* turned between the reads, the first since the time that is shown: get_window_status,
\* with get_next_window_start and _end.
THEOREM WindowsKeepTheirPromise == Spec => []WindowPromiseIsKept
<1>1. ASSUME Asked, answer # None, answer.kind = "window",
             answer.window.start < answer.window.end
      PROVE  /\ answer.until > answer.asked
             /\ Turns(answer.window, answer.until, answer.within)
             /\ \A t \in answer.asked + 1 .. answer.until - 1 :
                  ~Turns(answer.window, t, answer.within)
             /\ (\A t \in answer.now .. answer.asked :
                   Within(answer.window, t) = answer.within)
                  => (\A t \in answer.now .. answer.until - 1 :
                        Within(answer.window, t) = answer.within)
  <2>1. PICK w \in Windows, now \in Times :
          \E checked \in SoonAfter(now) :
            \E asked \in SoonAfter(checked) :
              /\ w.days # {} /\ answer.window = w /\ answer.now = now /\ answer.asked = asked
              /\ answer.within = Within(w, checked)
              /\ answer.until = NextTime(w, asked, IF Within(w, checked) THEN w.end ELSE w.start)
    BY <1>1, WindowOf
  <2>0. PICK checked \in SoonAfter(now) :
          \E asked \in SoonAfter(checked) :
            /\ w.days # {} /\ answer.window = w /\ answer.now = now /\ answer.asked = asked
            /\ answer.within = Within(w, checked)
            /\ answer.until = NextTime(w, asked, IF Within(w, checked) THEN w.end ELSE w.start)
    BY <2>1
  <2>2. PICK asked \in SoonAfter(checked) :
          /\ w.days # {} /\ answer.window = w /\ answer.now = now /\ answer.asked = asked
          /\ answer.within = Within(w, checked)
          /\ answer.until = NextTime(w, asked, IF Within(w, checked) THEN w.end ELSE w.start)
    BY <2>0
  <2>3. asked \in Nat /\ now \in Nat /\ now <= asked
    BY DelayAssumption, DayAssumption DEF Times, SoonAfter
  <2> DEFINE open == Within(w, checked)
             time == IF open THEN w.end ELSE w.start
             until == NextTime(w, asked, time)
  <2>4. time \in TimesOfDay /\ open \in BOOLEAN /\ w.start < w.end
    BY <1>1, <2>2, WindowAssumption DEF Within
  <2>5. /\ until \in Nat /\ until > asked
        /\ Weekday(until) \in w.days /\ TimeOfDay(until) = time
        /\ \A x \in asked + 1 .. until - 1 : ~(Weekday(x) \in w.days /\ TimeOfDay(x) = time)
    <3>1. until = NextTime(w, asked, time)
      OBVIOUS
    <3> HIDE DEF time, until
    <3>2. QED BY <2>2, <2>3, <2>4, <3>1, NextIsFirst
  <2>6. answer.until = until /\ answer.within = open
    BY <2>2
  <2>7. Turns(w, until, open)
    <3> HIDE DEF open, until
    <3>1. until > 0
      BY <2>3, <2>5
    <3>2. QED BY <2>4, <2>5, <3>1, TurnIs
  <2>8. ASSUME NEW t \in asked + 1 .. until - 1 PROVE ~Turns(w, t, open)
    <3> HIDE DEF open, until
    <3>1. t \in Nat /\ t > 0
      BY <2>3, <2>5
    <3>2. QED BY <2>4, <2>5, <3>1, TurnIs
  <2>9. ASSUME \A t \in now .. asked : Within(w, t) = open, NEW t \in now .. until - 1
        PROVE  Within(w, t) = open
    <3>1. asked \in now .. asked /\ Within(w, asked) = open
      BY <2>3, <2>9
    <3>2. CASE t <= asked
      BY <2>3, <2>5, <2>9, <3>2
    <3>3. CASE ~(t <= asked)
      <4>1. t \in asked .. until - 1
        BY <2>3, <2>5, <3>3
      <4>2. CASE open
        <5>1. until = NextTime(w, asked, w.end) /\ Within(w, asked)
          BY <3>1, <4>2
        <5>2. Within(w, t)
          BY <2>2, <2>3, <4>1, <5>1, ClosesAtEnd
        <5>3. QED BY <4>2, <5>2 DEF Within
      <4>3. CASE ~open
        <5>1. until = NextTime(w, asked, w.start) /\ ~Within(w, asked)
          BY <3>1, <4>3
        <5>2. ~Within(w, t)
          BY <2>2, <2>3, <2>4, <4>1, <5>1, OpensAtStart
        <5>3. QED BY <4>3, <5>2 DEF Within
      <4>4. QED BY <4>2, <4>3
    <3>4. QED BY <3>2, <3>3
  <2>10. QED
    <3> HIDE DEF open, until
    <3>1. QED BY <2>2, <2>5, <2>6, <2>7, <2>8, <2>9
<1>2. Asked => WindowPromiseIsKept
  BY <1>1 DEF WindowPromiseIsKept
<1>3. QED BY <1>2, AskedHolds, PTL
=============================================================================
