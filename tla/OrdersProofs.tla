---------------------------- MODULE OrdersProofs ----------------------------
(***************************************************************************)
(* What holds of orders, brackets and cancellations for every set of       *)
(* requests and every number of attempts.                                  *)
(***************************************************************************)
EXTENDS Orders, TLAPS

(***************************************************************************)
(* Orders and their families                                               *)
(***************************************************************************)

LEMMA OrderParts ==
  \A o \in Orders :
    /\ Request(o) \in Requests /\ Role(o) \in Roles /\ Attempt(o) \in Attempts
    /\ o = <<Request(o), Role(o), Attempt(o)>>
BY DEF Orders, Request, Role, Attempt

LEMMA MakeOrder ==
  ASSUME NEW r \in Requests, NEW role \in Roles, NEW a \in Attempts
  PROVE  /\ <<r, role, a>> \in Orders
         /\ Request(<<r, role, a>>) = r
         /\ Role(<<r, role, a>>) = role
         /\ Attempt(<<r, role, a>>) = a
BY DEF Orders, Request, Role, Attempt

LEMMA SameOrder ==
  ASSUME NEW o \in Orders, NEW p \in Orders,
         Request(o) = Request(p), Role(o) = Role(p), Attempt(o) = Attempt(p)
  PROVE  o = p
BY OrderParts

LEMMA EntryFacts ==
  ASSUME NEW o \in Orders
  PROVE  /\ Entry(o) \in Orders
         /\ Request(Entry(o)) = Request(o) /\ Attempt(Entry(o)) = Attempt(o)
         /\ Role(Entry(o)) = "entry" /\ ~IsChild(Entry(o))
         /\ ~IsChild(o) => Entry(o) = o
<1>1. "entry" \in Roles
  BY DEF Roles
<1>2. Request(o) \in Requests /\ Attempt(o) \in Attempts
  BY OrderParts
<1>3. /\ Entry(o) \in Orders
      /\ Request(Entry(o)) = Request(o) /\ Attempt(Entry(o)) = Attempt(o)
      /\ Role(Entry(o)) = "entry"
  BY <1>1, <1>2, MakeOrder DEF Entry
<1>4. ~IsChild(o) => Entry(o) = o
  BY OrderParts DEF IsChild, Entry
<1>5. QED BY <1>3, <1>4 DEF IsChild

LEMMA FamilyFacts ==
  ASSUME NEW o \in Orders, NEW c \in Family(o)
  PROVE  /\ c \in Orders
         /\ Request(c) = Request(o) /\ Attempt(c) = Attempt(o)
         /\ Entry(c) = Entry(o)
         /\ IsBracket(c) = IsBracket(o)
<1>1. PICK role \in Roles : c = <<Request(o), role, Attempt(o)>>
  BY DEF Family
<1>2. Request(o) \in Requests /\ Attempt(o) \in Attempts
  BY OrderParts
<1>3. c \in Orders /\ Request(c) = Request(o) /\ Attempt(c) = Attempt(o)
  BY <1>1, <1>2, MakeOrder
<1>4. QED BY <1>3 DEF Entry, IsBracket

LEMMA FamilyHas ==
  ASSUME NEW o \in Orders, NEW c \in Orders,
         Request(c) = Request(o), Attempt(c) = Attempt(o)
  PROVE  c \in Family(o)
BY OrderParts DEF Family

\* A family has one entry and two exits.
LEMMA Siblings ==
  ASSUME NEW o \in Orders, NEW c \in Family(o), NEW d \in Family(o),
         IsChild(o), IsChild(c), IsChild(d), c # o, d # o
  PROVE  c = d
<1>1. Role(c) # Role(o) /\ Role(d) # Role(o)
  BY FamilyFacts, SameOrder
<1>2. Role(c) \in Roles /\ Role(d) \in Roles /\ Role(o) \in Roles
  BY FamilyFacts, OrderParts
<1>3. Role(c) = Role(d)
  BY <1>1, <1>2 DEF IsChild, Roles
<1>4. QED BY <1>3, FamilyFacts, SameOrder

(***************************************************************************)
(* Types                                                                   *)
(***************************************************************************)

LEMMA SentOrders == Sent \subseteq Orders
BY DEF Sent

LEMMA PlacingIsPlace ==
  ASSUME OrdersTypeOK, NEW stage, Placing(stage)
  PROVE  job \in PlaceJobs
BY DEF OrdersTypeOK, Placing, CancelJobs

LEMMA CancellingIsCancel ==
  ASSUME OrdersTypeOK, Cancelling
  PROVE  job \in CancelJobs
BY DEF OrdersTypeOK, Cancelling, PlaceJobs

LEMMA LegFacts ==
  ASSUME job \in PlaceJobs, NEW role \in Roles
  PROVE  /\ Leg(role) \in Orders
         /\ Request(Leg(role)) = job.request
         /\ Role(Leg(role)) = role
         /\ Attempt(Leg(role)) = job.attempt
<1>1. job.request \in Requests /\ job.attempt \in Attempts
  BY DEF PlaceJobs
<1>2. QED BY <1>1, MakeOrder DEF Leg

LEMMA InitType == OrdersInit => OrdersTypeOK
BY DEF OrdersInit, OrdersTypeOK, Statuses, Trades

LEMMA EndType ==
  ASSUME OrdersTypeOK, NEW o, End(o)
  PROVE  book' \in [Orders -> Statuses]
BY DEF OrdersTypeOK, End, Statuses

LEMMA BrokerType ==
  ASSUME OrdersTypeOK, BrokerMoves
  PROVE  OrdersTypeOK'
<1>1. book' \in [Orders -> Statuses] /\ shown' \subseteq Orders
  <2>1. PICK o \in Sent : Fill(o) \/ CancelAtIB(o) \/ Discard(o)
    BY DEF BrokerMoves
  <2>2. CASE Fill(o)
    BY <2>2 DEF Fill, OrdersTypeOK, Statuses
  <2>3. CASE CancelAtIB(o)
    BY <2>3, EndType DEF CancelAtIB, OrdersTypeOK
  <2>4. CASE Discard(o)
    BY <2>4, EndType DEF Discard, OrdersTypeOK
  <2>5. QED BY <2>1, <2>2, <2>3, <2>4
<1>2. QED BY <1>1 DEF BrokerMoves, registry, OrdersTypeOK

LEMMA ReceiveType ==
  ASSUME OrdersTypeOK, NEW o \in Orders, Receive(o)
  PROVE  book' \in [Orders -> Statuses] /\ shown' \subseteq Orders
<1>1. shown' \subseteq Orders
  BY DEF Receive, OrdersTypeOK
<1>2. CASE book' = [book EXCEPT ![o] = "cancelled"]
  BY <1>1, <1>2 DEF OrdersTypeOK, Statuses
<1>3. CASE book' = [c \in Orders |->
             IF c \in Family(o) /\ (c = o \/ book[c] = "held")
               THEN IF Transmits(o) THEN "working" ELSE "held"
               ELSE book[c]]
  BY <1>1, <1>3 DEF OrdersTypeOK, Statuses
<1>4. QED BY <1>2, <1>3 DEF Receive

LEMMA ToldType == \A status \in Statuses : Told(status) \in Trades
BY DEF Told, Trades, Done

LEMMA RegisterType ==
  ASSUME OrdersTypeOK, book' \in [Orders -> Statuses], job \in PlaceJobs,
         NEW os, NEW name \in Names, NEW last \in Orders, Register(os, name, last)
  PROVE  /\ key' \in [Orders -> Names \cup {"none"}]
         /\ seen' \in [Orders -> Trades]
         /\ latest' \in [Requests -> Orders \cup {None}]
<1>1. key' \in [Orders -> Names \cup {"none"}]
  BY DEF Register, OrdersTypeOK
<1>2. seen' \in [Orders -> Trades]
  <2>1. \A o \in Orders : Told(book'[o]) \in Trades
    BY ToldType
  <2>2. QED BY <2>1 DEF Register, OrdersTypeOK
<1>3. latest' \in [Requests -> Orders \cup {None}]
  BY DEF Register, OrdersTypeOK
<1>4. QED BY <1>1, <1>2, <1>3

LEMMA StageType ==
  ASSUME job \in PlaceJobs, NEW s \in PlaceStages, Stage(s)
  PROVE  job' \in PlaceJobs
BY DEF PlaceJobs, Stage

LEMMA PlaceLegType ==
  ASSUME OrdersTypeOK, NEW from, NEW role \in Roles, NEW to \in PlaceStages,
         PlaceLeg(from, role, to)
  PROVE  OrdersTypeOK'
<1>1. job \in PlaceJobs
  BY PlacingIsPlace DEF PlaceLeg
<1>2. book' \in [Orders -> Statuses] /\ shown' \subseteq Orders
  BY <1>1, LegFacts, ReceiveType DEF PlaceLeg
<1>3. job' \in PlaceJobs
  BY <1>1, StageType DEF PlaceLeg
<1>4. QED BY <1>2, <1>3 DEF PlaceLeg, registry, OrdersTypeOK

LEMMA PlaceType ==
  ASSUME OrdersTypeOK, PlaceStep
  PROVE  OrdersTypeOK'
<1>1. "entry" \in Roles /\ "takeProfit" \in Roles /\ "stopLoss" \in Roles /\ "orderId" \in Names
  BY DEF Roles, Names
<1>2. "entry" \in PlaceStages /\ "takeProfit" \in PlaceStages /\ "sent" \in PlaceStages
  BY DEF PlaceStages
<1>3. CASE PlaceSimple
  <2>1. job \in PlaceJobs /\ Leg("entry") \in Orders
    BY <1>1, <1>3, PlacingIsPlace, LegFacts DEF PlaceSimple
  <2>2. book' \in [Orders -> Statuses] /\ shown' \subseteq Orders
    BY <1>3, <2>1, ReceiveType DEF PlaceSimple
  <2>3. /\ key' \in [Orders -> Names \cup {"none"}]
        /\ seen' \in [Orders -> Trades]
        /\ latest' \in [Requests -> Orders \cup {None}]
    BY <1>1, <1>3, <2>1, <2>2, RegisterType DEF PlaceSimple
  <2>4. job' \in PlaceJobs
    BY <1>2, <1>3, <2>1, StageType DEF PlaceSimple
  <2>5. QED BY <1>3, <2>2, <2>3, <2>4 DEF PlaceSimple, OrdersTypeOK
<1>4. CASE PlaceDone
  <2>1. Leg("entry") \in Orders
    BY <1>1, <1>4, PlacingIsPlace, LegFacts DEF PlaceDone
  <2>2. Told(book[Leg("entry")]) \in Trades
    BY <2>1, ToldType DEF OrdersTypeOK
  <2>3. seen' \in [Orders -> Trades]
    BY <1>4, <2>2 DEF PlaceDone, OrdersTypeOK
  <2>4. QED BY <1>4, <2>3 DEF PlaceDone, ib, OrdersTypeOK
<1>5. CASE PlaceEntry \/ PlaceTakeProfit \/ PlaceStopLoss
  BY <1>1, <1>2, <1>5, PlaceLegType DEF PlaceEntry, PlaceTakeProfit, PlaceStopLoss
<1>6. CASE BracketDone
  <2>1. job \in PlaceJobs /\ Leg("stopLoss") \in Orders
    BY <1>1, <1>6, PlacingIsPlace, LegFacts DEF BracketDone
  <2>2. book' = book /\ shown' = shown /\ enabled' = enabled /\ job' = None
    BY <1>6 DEF BracketDone, ib
  <2>3. PICK name \in Names : Register({Leg(role) : role \in Roles}, name, Leg("stopLoss"))
    BY <1>6 DEF BracketDone
  <2>4. book' \in [Orders -> Statuses]
    BY <2>2 DEF OrdersTypeOK
  <2>5. /\ key' \in [Orders -> Names \cup {"none"}]
        /\ seen' \in [Orders -> Trades]
        /\ latest' \in [Requests -> Orders \cup {None}]
    BY <2>1, <2>3, <2>4, RegisterType
  <2>6. QED BY <2>2, <2>5 DEF OrdersTypeOK
<1>7. QED BY <1>3, <1>4, <1>5, <1>6 DEF PlaceStep

LEMMA CancelJobType ==
  ASSUME NEW os \in SUBSET Orders, NEW name \in Names, NEW by \in Askers
  PROVE  CancelJob(os, name, by) \in CancelJobs
BY DEF CancelJob, CancelJobs

\* A cancellation that is not over is one.
LEMMA CancelGoesOn ==
  ASSUME OrdersTypeOK, CancelNext \/ CancelOutcome
  PROVE  job' \in CancelJobs
<1>1. job \in CancelJobs
  BY CancellingIsCancel DEF CancelNext, CancelOutcome
<1>2. CASE CancelNext
  <2>1. PICK o \in job.todo : CancelMissing(o) \/ CancelNothing(o) \/ CancelRequest(o)
    BY <1>2 DEF CancelNext
  <2>2. CASE CancelMissing(o)
    BY <1>1, <2>2 DEF CancelMissing, CancelJobs
  <2>3. CASE CancelNothing(o)
    BY <1>1, <2>3 DEF CancelNothing, CancelJobs
  <2>4. CASE CancelRequest(o)
    <3>1. o \in Orders
      BY <1>1, <2>1 DEF CancelJobs
    <3>2. QED BY <1>1, <2>4, <3>1 DEF CancelRequest, CancelJobs
  <2>5. QED BY <2>1, <2>2, <2>3, <2>4
<1>3. CASE CancelOutcome
  BY <1>1, <1>3 DEF CancelOutcome, CancelJobs
<1>4. QED BY <1>2, <1>3

LEMMA CancelType ==
  ASSUME OrdersTypeOK, CancelStep
  PROVE  OrdersTypeOK'
<1>1. CASE CancelNext
  <2>1. PICK o \in job.todo : CancelMissing(o) \/ CancelNothing(o) \/ CancelRequest(o)
    BY <1>1 DEF CancelNext
  <2>2. job \in CancelJobs /\ job' \in CancelJobs
    BY <1>1, CancellingIsCancel, CancelGoesOn DEF CancelNext
  <2>3. book' \in [Orders -> Statuses] /\ shown' = shown
    <3>1. CASE CancelMissing(o) \/ CancelNothing(o)
      BY <3>1 DEF CancelMissing, CancelNothing, ib, OrdersTypeOK
    <3>2. CASE CancelRequest(o)
      BY <3>2, EndType DEF CancelRequest, OrdersTypeOK, Statuses
    <3>3. QED BY <2>1, <3>1, <3>2
  <2>4. QED BY <1>1, <2>2, <2>3 DEF CancelNext, registry, OrdersTypeOK
<1>2. CASE CancelOutcome
  <2>1. job' \in CancelJobs
    BY <1>2, CancelGoesOn
  <2>2. QED BY <1>2, <2>1 DEF CancelOutcome, ib, registry, OrdersTypeOK
<1>3. CASE CancelDone
  BY <1>3 DEF CancelDone, ib, registry, OrdersTypeOK
<1>4. QED BY <1>1, <1>2, <1>3 DEF CancelStep

LEMMA BeginType ==
  ASSUME OrdersTypeOK, NEW r \in Requests, PlaceBegins(r)
  PROVE  OrdersTypeOK'
<1>1. job' \in PlaceJobs
  BY DEF PlaceBegins, PlaceJobs, PlaceStages, Askers
<1>2. QED BY <1>1 DEF PlaceBegins, ib, registry, OrdersTypeOK

LEMMA CancelBeginType ==
  ASSUME OrdersTypeOK, NEW os \in OrderSets, NEW name \in Names, CancelBegins(os, name)
  PROVE  OrdersTypeOK'
<1>1. os \in SUBSET Orders
  BY SentOrders DEF OrderSets
<1>2. job' \in CancelJobs
  BY <1>1, CancelJobType DEF CancelBegins, Askers
<1>3. QED BY <1>2 DEF CancelBegins, ib, registry, OrdersTypeOK

LEMMA OtherType ==
  ASSUME OrdersTypeOK, JobFails \/ LoseClient \/ SetControl \/ RestartOrders
  PROVE  OrdersTypeOK'
<1>1. CASE JobFails
  BY <1>1 DEF JobFails, ib, registry, OrdersTypeOK
<1>2. CASE LoseClient
  <2>1. job' \in PlaceJobs \cup CancelJobs
    BY <1>2 DEF LoseClient, OrdersTypeOK, PlaceJobs, CancelJobs
  <2>2. QED BY <1>2, <2>1 DEF LoseClient, ib, registry, OrdersTypeOK
<1>3. CASE SetControl
  BY <1>3 DEF SetControl, ib, registry, OrdersTypeOK
<1>4. CASE RestartOrders
  BY <1>4 DEF RestartOrders, OrdersTypeOK, Trades
<1>5. QED BY <1>1, <1>2, <1>3, <1>4

LEMMA NextType == OrdersTypeOK /\ [OrdersNext]_ordersVars => OrdersTypeOK'
<1> SUFFICES ASSUME OrdersTypeOK, [OrdersNext]_ordersVars PROVE OrdersTypeOK'
  OBVIOUS
<1>1. CASE UNCHANGED ordersVars
  BY <1>1 DEF ordersVars, ib, registry, OrdersTypeOK
<1>2. CASE OrdersNext
  BY <1>2, BeginType, CancelBeginType, PlaceType, CancelType, BrokerType, OtherType
     DEF OrdersNext
<1>3. QED BY <1>1, <1>2

\* The variables keep their types, with any number of requests and attempts.
THEOREM OrdersTypeCorrect == OrdersSpec => []OrdersTypeOK
BY InitType, NextType, PTL DEF OrdersSpec

(***************************************************************************)
(* The inductive invariant                                                 *)
(***************************************************************************)

PlaceRuns == job # None /\ job.kind = "place"

\* No leg is sent before its entry, and none twice.
LegsInOrder ==
  /\ \A o \in Sent : Entry(o) \in Sent
  /\ PlaceRuns =>
       /\ job.stage = "checked" => Leg("entry") \notin Sent
       /\ job.stage # "checked" => Leg("entry") \in Sent
       /\ job.stage = "entry" => Leg("takeProfit") \notin Sent /\ Leg("stopLoss") \notin Sent
       /\ job.stage = "takeProfit" => Leg("takeProfit") \in Sent /\ Leg("stopLoss") \notin Sent

\* The entry of a bracket is released with its exits.
Released == {"working", "cancelling", "filled"}
WholeInv ==
  \A o \in Sent :
    (IsBracket(o) /\ ~IsChild(o) /\ book[o] \in Released) => Children(o) \subseteq Sent

\* One exit that is filled leaves the other cancelled.
ExitInv ==
  \A o \in Sent :
    (IsBracket(o) /\ IsChild(o) /\ book[o] = "filled")
      => /\ book[Entry(o)] = "filled"
         /\ \A c \in Family(o) : (IsChild(c) /\ c # o) => book[c] = "cancelled"

\* The registry is right about orders that are done, and IB shows those that are not
\* cancelled.
SeenInv == \A o \in Orders : seen[o] \in Done => book[o] = seen[o]
ShownInv == KeepsClientId => \A o \in Sent : book[o] # "cancelled" => o \in shown

\* Of two attempts one is cancelled; while a third is made, both are.
OnceInv ==
  KeepsClientId =>
    /\ \A o, p \in Sent :
         (Request(o) = Request(p) /\ Attempt(o) # Attempt(p) /\ HasRef(o))
           => book[o] = "cancelled" \/ book[p] = "cancelled"
    /\ PlaceRuns =>
         \A o \in Sent :
           (Request(o) = job.request /\ Attempt(o) # job.attempt /\ HasRef(o))
             => book[o] = "cancelled"

\* As long as nothing was rejected, what a cancellation is through with is not open.
CancelInv ==
  (Cancelling /\ ~job.rejected)
    => \A o \in job.all \ (job.todo \cup {job.waits}) : o \in shown => ~IsOpen(o)

IInv ==
  /\ OrdersTypeOK
  /\ LegsInOrder /\ WholeInv /\ ExitInv
  /\ SeenInv /\ ShownInv /\ OnceInv /\ CancelInv

(***************************************************************************)
(* Steps that place nothing                                                *)
(***************************************************************************)

\* What such a step may do to the orders at IB.
Calm ==
  /\ \A o \in Orders :
       /\ book'[o] = "none" <=> book[o] = "none"
       /\ book[o] \in Done => book'[o] = book[o]
       /\ book'[o] \in Released => book[o] \in Released
  /\ shown' \subseteq shown
  /\ \A o \in shown \ shown' : book'[o] = "cancelled"

\* The job goes on with what it did, or it is over.
SameWork ==
  job' # None =>
    /\ job # None /\ job'.kind = job.kind
    /\ job.kind = "place" =>
         job'.request = job.request /\ job'.attempt = job.attempt /\ job'.stage = job.stage
    /\ job.kind = "cancel" =>
         /\ job'.all = job.all /\ job'.todo = job.todo /\ job'.waits = job.waits
         /\ job'.rejected = job.rejected

LEMMA StillCalm == UNCHANGED ib => Calm
BY DEF ib, Calm

LEMMA EndCalm ==
  ASSUME OrdersTypeOK, NEW o \in Orders, End(o), book[o] \in Open
  PROVE  /\ \A c \in Orders :
              /\ book'[c] = "none" <=> book[c] = "none"
              /\ book[c] \in Done => book'[c] = book[c]
              /\ book'[c] \in Released => book[c] \in Released
              /\ book'[c] = "filled" => book[c] = "filled"
         /\ book'[o] = "cancelled"
BY DEF OrdersTypeOK, End, IsOpen, Open, Done, Released

LEMMA BrokerCalm ==
  ASSUME OrdersTypeOK, BrokerMoves
  PROVE  Calm
<1>1. PICK o \in Sent : Fill(o) \/ CancelAtIB(o) \/ Discard(o)
  BY DEF BrokerMoves
<1>2. o \in Orders
  BY SentOrders
<1>3. CASE Fill(o)
  <2>1. \A c \in Orders :
          book'[c] = IF c = o THEN "filled"
                     ELSE IF IsChild(o) /\ c \in Children(o) /\ IsOpen(c) THEN "cancelled"
                     ELSE book[c]
    BY <1>3 DEF Fill
  <2>2. book[o] \in {"working", "cancelling"} /\ shown' = shown
    BY <1>3 DEF Fill
  <2>3. QED BY <2>1, <2>2 DEF Calm, IsOpen, Open, Done, Released
<1>4. CASE CancelAtIB(o)
  <2>1. book[o] \in Open /\ End(o) /\ shown' = shown
    BY <1>4 DEF CancelAtIB, Open
  <2>2. QED BY <1>2, <2>1, EndCalm DEF Calm
<1>5. CASE Discard(o)
  <2>1. book[o] \in Open /\ End(o)
    BY <1>5 DEF Discard, Open
  <2>2. shown' = shown \/ shown' = shown \ {o}
    BY <1>5 DEF Discard
  <2>3. QED BY <1>2, <2>1, <2>2, EndCalm DEF Calm
<1>6. QED BY <1>1, <1>3, <1>4, <1>5

\* A cancellation fills nothing.
LEMMA CancelCalm ==
  ASSUME OrdersTypeOK, CancelStep
  PROVE  Calm /\ (\A o \in Orders : book'[o] = "filled" => book[o] = "filled")
<1>1. CASE CancelNext
  <2>1. PICK o \in job.todo : CancelMissing(o) \/ CancelNothing(o) \/ CancelRequest(o)
    BY <1>1 DEF CancelNext
  <2>2. o \in Orders
    BY <1>1, <2>1, CancellingIsCancel DEF CancelNext, CancelJobs
  <2>3. CASE UNCHANGED ib
    BY <2>3, StillCalm DEF ib
  <2>4. CASE CancelRequest(o)
    <3>1. shown' = shown
      BY <2>4 DEF CancelRequest
    <3>2. CASE book[o] = "working" /\ book' = [book EXCEPT ![o] = "cancelling"]
      BY <3>1, <3>2 DEF Calm, OrdersTypeOK, Done, Released
    <3>3. CASE book[o] = "held" /\ End(o)
      <4>1. book[o] \in Open
        BY <3>3 DEF Open
      <4>2. QED BY <2>2, <3>1, <3>3, <4>1, EndCalm DEF Calm
    <3>4. CASE UNCHANGED book
      BY <3>1, <3>4, StillCalm DEF ib
    <3>5. QED BY <2>4, <3>2, <3>3, <3>4 DEF CancelRequest
  <2>5. QED BY <2>1, <2>3, <2>4 DEF CancelMissing, CancelNothing, ib
<1>2. CASE CancelOutcome \/ CancelDone
  BY <1>2, StillCalm DEF CancelOutcome, CancelDone, ib
<1>3. QED BY <1>1, <1>2 DEF CancelStep

LEMMA CalmSent == OrdersTypeOK /\ Calm => Sent' = Sent
BY DEF OrdersTypeOK, Calm, Sent

\* What is stated of IB alone is kept.
LEMMA CalmWhole ==
  ASSUME OrdersTypeOK, Calm, WholeInv
  PROVE  WholeInv'
<1>1. Sent' = Sent
  BY CalmSent
<1>2. SUFFICES ASSUME NEW o \in Sent, IsBracket(o), ~IsChild(o), book'[o] \in Released
               PROVE  Children(o) \subseteq Sent
  BY <1>1 DEF WholeInv
<1>3. o \in Orders /\ book[o] \in Released
  BY <1>2, SentOrders DEF Calm
<1>4. QED BY <1>2, <1>3 DEF WholeInv

LEMMA CalmExit ==
  ASSUME OrdersTypeOK, Calm, ExitInv, \A o \in Orders : book'[o] = "filled" => book[o] = "filled"
  PROVE  ExitInv'
<1>1. Sent' = Sent
  BY CalmSent
<1>2. SUFFICES ASSUME NEW o \in Sent, IsBracket(o), IsChild(o), book'[o] = "filled"
               PROVE  /\ book'[Entry(o)] = "filled"
                      /\ \A c \in Family(o) : (IsChild(c) /\ c # o) => book'[c] = "cancelled"
  BY <1>1 DEF ExitInv
<1>3. o \in Orders /\ book[o] = "filled"
  BY <1>2, SentOrders
<1>4. /\ book[Entry(o)] = "filled"
      /\ \A c \in Family(o) : (IsChild(c) /\ c # o) => book[c] = "cancelled"
  BY <1>2, <1>3 DEF ExitInv
<1>5. Entry(o) \in Orders /\ \A c \in Family(o) : c \in Orders
  BY <1>3, EntryFacts, FamilyFacts
<1>6. QED BY <1>4, <1>5 DEF Calm, Done

LEMMA FillExit ==
  ASSUME OrdersTypeOK, WholeInv, ExitInv, NEW x \in Sent, Fill(x), Calm
  PROVE  ExitInv'
<1>1. Sent' = Sent /\ x \in Orders
  BY CalmSent, SentOrders
<1>2. \A c \in Orders :
        book'[c] = IF c = x THEN "filled"
                   ELSE IF IsChild(x) /\ c \in Children(x) /\ IsOpen(c) THEN "cancelled"
                   ELSE book[c]
  BY DEF Fill
<1>3. book[x] \in {"working", "cancelling"} /\ Active(x)
  BY DEF Fill
<1>4. SUFFICES ASSUME NEW o \in Sent, IsBracket(o), IsChild(o), book'[o] = "filled"
               PROVE  /\ book'[Entry(o)] = "filled"
                      /\ \A c \in Family(o) : (IsChild(c) /\ c # o) => book'[c] = "cancelled"
  BY <1>1 DEF ExitInv
<1>5. o \in Orders /\ Entry(o) \in Orders /\ ~IsChild(Entry(o)) /\ \A c \in Family(o) : c \in Orders
  BY <1>4, SentOrders, EntryFacts, FamilyFacts
<1>6. CASE o = x
  <2>1. book[Entry(o)] = "filled"
    BY <1>3, <1>4, <1>6 DEF Active
  <2>2. book'[Entry(o)] = "filled"
    BY <1>5, <2>1 DEF Calm, Done
  <2>3. SUFFICES ASSUME NEW c \in Family(o), IsChild(c), c # o
                 PROVE  book'[c] = "cancelled"
    BY <2>2
  <2>4. /\ c \in Orders /\ Entry(c) = Entry(o) /\ IsBracket(c) = IsBracket(o)
        /\ Request(c) = Request(o) /\ Attempt(c) = Attempt(o)
    BY <1>5, <2>3, FamilyFacts
  <2>5. c \in Children(o)
    BY <2>3 DEF Children
  <2>6. c \in Sent
    <3>1. Entry(o) \in Sent /\ IsBracket(Entry(o)) /\ book[Entry(o)] \in Released
      BY <1>4, <1>5, <2>1, EntryFacts DEF Sent, IsBracket, Released
    <3>2. Children(Entry(o)) \subseteq Sent
      BY <1>5, <3>1 DEF WholeInv
    <3>3. c \in Family(Entry(o)) /\ c # Entry(o)
      BY <1>5, <2>3, <2>4, EntryFacts, FamilyHas
    <3>4. QED BY <2>3, <3>2, <3>3 DEF Children
  <2>7. book[c] # "filled"
    <3>1. SUFFICES ASSUME book[c] = "filled" PROVE FALSE
      OBVIOUS
    <3>2. o \in Family(c)
      BY <1>5, <2>4, FamilyHas
    <3>3. book[o] = "cancelled"
      BY <1>4, <2>3, <2>4, <2>6, <3>1, <3>2 DEF ExitInv
    <3>4. QED BY <1>3, <1>6, <3>3
  <2>8. book[c] = "cancelled" \/ IsOpen(c)
    BY <2>4, <2>6, <2>7 DEF OrdersTypeOK, Statuses, Sent, IsOpen, Open
  <2>9. QED BY <1>2, <1>4, <1>6, <2>3, <2>4, <2>5, <2>8
<1>7. CASE o # x
  <2>1. book[o] = "filled"
    BY <1>2, <1>4, <1>5, <1>7
  <2>2. /\ book[Entry(o)] = "filled"
        /\ \A c \in Family(o) : (IsChild(c) /\ c # o) => book[c] = "cancelled"
    BY <1>4, <2>1 DEF ExitInv
  <2>3. QED BY <1>5, <2>2 DEF Calm, Done
<1>8. QED BY <1>6, <1>7

LEMMA BrokerExit ==
  ASSUME OrdersTypeOK, WholeInv, ExitInv, BrokerMoves
  PROVE  ExitInv'
<1>1. Calm
  BY BrokerCalm
<1>2. PICK o \in Sent : Fill(o) \/ CancelAtIB(o) \/ Discard(o)
  BY DEF BrokerMoves
<1>3. CASE Fill(o)
  BY <1>1, <1>2, <1>3, FillExit
<1>4. CASE CancelAtIB(o) \/ Discard(o)
  <2>1. o \in Orders /\ End(o) /\ book[o] \in Open
    BY <1>4, SentOrders DEF CancelAtIB, Discard, Open
  <2>2. \A c \in Orders : book'[c] = "filled" => book[c] = "filled"
    BY <2>1, EndCalm
  <2>3. QED BY <1>1, <2>2, CalmExit
<1>5. QED BY <1>2, <1>3, <1>4

LEMMA CalmShown ==
  ASSUME OrdersTypeOK, Calm, ShownInv
  PROVE  ShownInv'
<1>1. Sent' = Sent
  BY CalmSent
<1>2. SUFFICES ASSUME KeepsClientId, NEW o \in Sent, book'[o] # "cancelled"
               PROVE  o \in shown'
  BY <1>1 DEF ShownInv
<1>3. o \in Orders /\ book[o] # "cancelled"
  BY <1>2, SentOrders DEF Calm, Done
<1>4. o \in shown
  BY <1>2, <1>3 DEF ShownInv
<1>5. QED BY <1>2, <1>4 DEF Calm

\* What relates the job to the orders is kept as long as the job does the same.
LEMMA CalmJob ==
  ASSUME OrdersTypeOK, Calm, SameWork, LegsInOrder, OnceInv, CancelInv
  PROVE  LegsInOrder' /\ OnceInv' /\ CancelInv'
<1>1. Sent' = Sent
  BY CalmSent
<1>2. PlaceRuns' => PlaceRuns /\ job'.request = job.request /\ job'.attempt = job.attempt
                             /\ job'.stage = job.stage
  BY DEF PlaceRuns, SameWork
<1>3. LegsInOrder'
  BY <1>1, <1>2 DEF LegsInOrder, Leg, Entry
<1>4. OnceInv'
  <2>1. \A o \in Sent : book[o] = "cancelled" => book'[o] = "cancelled"
    BY SentOrders DEF Calm, Done
  <2>2. QED BY <1>1, <1>2, <2>1 DEF OnceInv
<1>5. CancelInv'
  <2>1. SUFFICES ASSUME Cancelling', ~job'.rejected,
                        NEW o \in job'.all \ (job'.todo \cup {job'.waits}), o \in shown'
                 PROVE  ~IsOpen(o)'
    BY DEF CancelInv
  <2>2. Cancelling /\ ~job.rejected /\ o \in job.all \ (job.todo \cup {job.waits})
    BY <2>1 DEF Cancelling, SameWork
  <2>3. o \in shown /\ o \in Orders
    BY <2>1 DEF Calm, OrdersTypeOK
  <2>4. ~IsOpen(o)
    BY <2>2, <2>3 DEF CancelInv
  <2>5. book[o] \in Done \/ book[o] = "none"
    BY <2>3, <2>4 DEF IsOpen, Open, Done, OrdersTypeOK, Statuses
  <2>6. book'[o] \in Done \/ book'[o] = "none"
    BY <2>3, <2>5 DEF Calm, Done
  <2>7. QED BY <2>6 DEF IsOpen, Open, Done
<1>6. QED BY <1>3, <1>4, <1>5

\* All of it, for a step that fills nothing or is IB's own.
LEMMA CalmInv ==
  ASSUME IInv, OrdersTypeOK', Calm, SameWork, SeenInv',
         BrokerMoves \/ (\A o \in Orders : book'[o] = "filled" => book[o] = "filled")
  PROVE  IInv'
<1>1. LegsInOrder' /\ OnceInv' /\ CancelInv'
  BY CalmJob DEF IInv
<1>2. ExitInv'
  BY BrokerExit, CalmExit DEF IInv
<1>3. WholeInv' /\ ShownInv'
  BY CalmWhole, CalmShown DEF IInv
<1>4. QED BY <1>1, <1>2, <1>3 DEF IInv

LEMMA CalmSeen ==
  ASSUME Calm, SeenInv, UNCHANGED seen
  PROVE  SeenInv'
BY DEF Calm, SeenInv, Done

(***************************************************************************)
(* Cancelling                                                              *)
(***************************************************************************)

\* Without a placement the order of the legs and of the attempts is IB's alone.
LEMMA NoPlacement ==
  ASSUME OrdersTypeOK, Calm, LegsInOrder, OnceInv, ~PlaceRuns'
  PROVE  LegsInOrder' /\ OnceInv'
<1>1. Sent' = Sent
  BY CalmSent
<1>2. LegsInOrder'
  BY <1>1 DEF LegsInOrder, Entry
<1>3. \A o \in Sent : book[o] = "cancelled" => book'[o] = "cancelled"
  BY SentOrders DEF Calm, Done
<1>4. QED BY <1>1, <1>2, <1>3 DEF OnceInv

\* A cancellation is through with one order more, which is not open.
LEMMA OneMore ==
  ASSUME OrdersTypeOK, Calm, CancelInv, Cancelling, NEW x \in Orders,
         ~job'.rejected => ~job.rejected,
         job'.all \ (job'.todo \cup {job'.waits}) \subseteq
           (job.all \ (job.todo \cup {job.waits})) \cup {x},
         ~job'.rejected => (x \in shown /\ x \notin job.all \ (job.todo \cup {job.waits})
                              /\ x \in job'.all \ (job'.todo \cup {job'.waits}) => ~IsOpen(x))
  PROVE  CancelInv'
<1>1. SUFFICES ASSUME Cancelling', ~job'.rejected,
                      NEW o \in job'.all \ (job'.todo \cup {job'.waits}), o \in shown'
               PROVE  ~IsOpen(o)'
  BY DEF CancelInv
<1>2. o \in shown /\ o \in Orders
  BY <1>1 DEF Calm, OrdersTypeOK
<1>3. ~IsOpen(o)
  <2>1. CASE o \in job.all \ (job.todo \cup {job.waits})
    BY <1>1, <1>2, <2>1 DEF CancelInv
  <2>2. CASE o \notin job.all \ (job.todo \cup {job.waits})
    BY <1>1, <1>2, <2>2
  <2>3. QED BY <2>1, <2>2
<1>4. book[o] \in Done \/ book[o] = "none"
  BY <1>2, <1>3 DEF IsOpen, Open, Done, OrdersTypeOK, Statuses
<1>5. book'[o] \in Done \/ book'[o] = "none"
  BY <1>2, <1>4 DEF Calm, Done
<1>6. QED BY <1>5 DEF IsOpen, Open, Done

\* What an order is said to be, when it is said to be done, it is.
LEMMA StatusDone ==
  ASSUME OrdersTypeOK, SeenInv, NEW o \in Orders, Status(o) \in Done
  PROVE  ~IsOpen(o)
BY DEF Status, SeenInv, IsOpen, Open, Done

LEMMA CancelNextInv ==
  ASSUME IInv, CancelNext
  PROVE  CancelInv'
<1> USE DEF IInv
<1>1. Calm
  BY CancelCalm DEF CancelStep
<1>2. job \in CancelJobs /\ Cancelling /\ job.waits = None
  BY CancellingIsCancel DEF CancelNext
<1>3. PICK o \in job.todo : CancelMissing(o) \/ CancelNothing(o) \/ CancelRequest(o)
  BY DEF CancelNext
<1>4. o \in Orders
  BY <1>2, <1>3 DEF CancelJobs
<1>5. CASE CancelMissing(o)
  <2>1. job'.all = job.all /\ job'.todo = job.todo \ {o} /\ job'.waits = job.waits
        /\ job'.rejected = job.rejected
    BY <1>2, <1>5 DEF CancelMissing, CancelJobs
  <2>2. o \in shown => ~IsOpen(o)
    BY <1>5 DEF CancelMissing, Missed
  <2>3. QED BY <1>1, <1>2, <1>4, <2>1, <2>2, OneMore
<1>6. CASE CancelNothing(o)
  <2>1. job'.all = job.all /\ job'.todo = job.todo \ {o} /\ job'.waits = job.waits
        /\ job'.rejected = job.rejected
    BY <1>2, <1>6 DEF CancelNothing, CancelJobs
  <2>2. ~IsOpen(o)
    BY <1>4, <1>6, StatusDone DEF CancelNothing
  <2>3. QED BY <1>1, <1>2, <1>4, <2>1, <2>2, OneMore
<1>7. CASE CancelRequest(o)
  <2>1. job'.all = job.all /\ job'.todo = job.todo \ {o} /\ job'.waits = o
        /\ job'.rejected = job.rejected
    BY <1>2, <1>7 DEF CancelRequest, CancelJobs
  <2>2. None \notin job.all
    BY <1>2, NoneAssumption DEF CancelJobs
  <2>3. job'.all \ (job'.todo \cup {job'.waits}) = job.all \ (job.todo \cup {job.waits})
    BY <1>2, <1>3, <2>1, <2>2
  <2>4. QED BY <1>1, <1>2, <1>4, <2>1, <2>3, OneMore
<1>8. QED BY <1>3, <1>5, <1>6, <1>7

LEMMA CancelOutcomeInv ==
  ASSUME IInv, CancelOutcome
  PROVE  CancelInv'
<1> USE DEF IInv
<1>1. Calm
  BY CancelCalm DEF CancelStep
<1>2. job \in CancelJobs /\ Cancelling /\ job.waits # None
  BY CancellingIsCancel DEF CancelOutcome
<1>3. job.waits \in Orders
  BY <1>2 DEF CancelJobs
<1>4. PICK raised \in BOOLEAN :
        job' = [job EXCEPT !.waits = None,
                           !.rejected = @ \/ raised \/ Status(job.waits) # "cancelled"]
  BY DEF CancelOutcome
<1>5. /\ job'.all = job.all /\ job'.todo = job.todo /\ job'.waits = None
      /\ ~job'.rejected => ~job.rejected /\ Status(job.waits) = "cancelled"
  BY <1>2, <1>4 DEF CancelJobs
<1>6. ~job'.rejected => ~IsOpen(job.waits)
  BY <1>3, <1>5, StatusDone DEF Done
<1>7. QED BY <1>1, <1>2, <1>3, <1>5, <1>6, OneMore

LEMMA CancelStepInv ==
  ASSUME IInv, CancelStep
  PROVE  IInv'
<1>1. OrdersTypeOK'
  BY CancelType DEF IInv
<1>2. Calm /\ (\A o \in Orders : book'[o] = "filled" => book[o] = "filled")
  BY CancelCalm DEF IInv
<1>3. UNCHANGED registry /\ job \in CancelJobs
  BY CancellingIsCancel DEF CancelStep, CancelNext, CancelOutcome, CancelDone, IInv
<1>4. SeenInv'
  BY <1>2, <1>3, CalmSeen DEF IInv, registry
<1>5. WholeInv' /\ ExitInv' /\ ShownInv'
  BY <1>2, CalmWhole, CalmExit, CalmShown DEF IInv
<1>6. CASE CancelDone
  <2>1. SameWork
    BY <1>6 DEF CancelDone, SameWork
  <2>2. QED BY <1>1, <1>2, <1>4, <2>1, CalmInv
<1>7. CASE CancelNext \/ CancelOutcome
  <2>1. job' \in CancelJobs
    BY <1>7, CancelGoesOn DEF IInv
  <2>2. ~PlaceRuns'
    BY <2>1 DEF PlaceRuns, CancelJobs
  <2>3. LegsInOrder' /\ OnceInv'
    BY <1>2, <2>2, NoPlacement DEF IInv
  <2>4. CancelInv'
    BY <1>7, CancelNextInv, CancelOutcomeInv
  <2>5. QED BY <1>1, <1>4, <1>5, <2>3, <2>4 DEF IInv
<1>8. QED BY <1>6, <1>7 DEF CancelStep

(***************************************************************************)
(* Beginnings and ends                                                     *)
(***************************************************************************)

LEMMA PlaceBeginInv ==
  ASSUME IInv, NEW r \in Requests, PlaceBegins(r)
  PROVE  IInv'
<1>1. OrdersTypeOK' /\ UNCHANGED ib /\ UNCHANGED registry
  BY BeginType DEF IInv, PlaceBegins
<1>2. Calm /\ \A o \in Orders : book'[o] = book[o]
  BY <1>1, StillCalm DEF ib
<1>3. WholeInv' /\ ExitInv' /\ ShownInv' /\ SeenInv'
  BY <1>1, <1>2, CalmWhole, CalmExit, CalmShown, CalmSeen DEF IInv, registry
<1>4. Sent' = Sent
  BY <1>2, CalmSent DEF IInv
<1>5. PICK a \in Attempts :
        /\ IsNext(r, a)
        /\ job' = [kind |-> "place", by |-> "tool", request |-> r, attempt |-> a,
                   stage |-> "checked", loose |-> FALSE]
  BY DEF PlaceBegins
<1>6. /\ job'.kind = "place" /\ job'.request = r /\ job'.attempt = a
      /\ job'.stage = "checked"
  BY <1>5
<1>7. LegsInOrder'
  <2>1. Leg("entry")' \notin Sent
    BY <1>5, <1>6 DEF Leg, IsNext
  <2>2. QED BY <1>4, <1>6, <2>1 DEF LegsInOrder, Entry, IInv
<1>8. OnceInv'
  <2>1. SUFFICES ASSUME KeepsClientId
                 PROVE  \A o \in Sent : Request(o) = r /\ HasRef(o) => book[o] = "cancelled"
    BY <1>1, <1>4, <1>6 DEF OnceInv, ib, IInv
  <2>2. \A o \in shown : Request(o) = r => ~HasRef(o)
    BY DEF PlaceBegins, Exists
  <2>3. QED BY <2>1, <2>2 DEF ShownInv, IInv
<1>9. CancelInv'
  BY <1>6 DEF CancelInv, Cancelling
<1>10. QED BY <1>1, <1>3, <1>7, <1>8, <1>9 DEF IInv

LEMMA CancelBeginInv ==
  ASSUME IInv, NEW os \in SUBSET Orders, NEW name \in Names, NEW by \in Askers,
         job' = CancelJob(os, name, by), UNCHANGED <<ib, registry>>, enabled' \in BOOLEAN
  PROVE  IInv'
<1>1. job' \in CancelJobs
  BY CancelJobType
<1>2. OrdersTypeOK'
  BY <1>1 DEF IInv, OrdersTypeOK, ib, registry
<1>3. Calm /\ \A o \in Orders : book'[o] = book[o]
  BY StillCalm DEF ib
<1>4. WholeInv' /\ ExitInv' /\ ShownInv' /\ SeenInv'
  BY <1>3, CalmWhole, CalmExit, CalmShown, CalmSeen DEF IInv, registry
<1>5. ~PlaceRuns'
  BY <1>1 DEF PlaceRuns, CancelJobs
<1>6. LegsInOrder' /\ OnceInv'
  BY <1>3, <1>5, NoPlacement DEF IInv
<1>7. job'.all \ (job'.todo \cup {job'.waits}) = {}
  BY DEF CancelJob
<1>8. CancelInv'
  BY <1>7 DEF CancelInv
<1>9. QED BY <1>2, <1>4, <1>6, <1>8 DEF IInv

\* Steps that leave IB, or all but IB, as it is.
LEMMA OutsideInv ==
  ASSUME IInv, OrdersTypeOK', SameWork,
         \/ BrokerMoves
         \/ UNCHANGED <<ib, seen>>
         \/ RestartOrders
  PROVE  IInv'
<1>1. CASE BrokerMoves
  <2>1. Calm /\ UNCHANGED seen
    BY <1>1, BrokerCalm DEF IInv, BrokerMoves, registry
  <2>2. SeenInv'
    BY <2>1, CalmSeen DEF IInv
  <2>3. QED BY <1>1, <2>1, <2>2, CalmInv
<1>2. CASE UNCHANGED <<ib, seen>>
  <2>1. Calm /\ \A o \in Orders : book'[o] = book[o]
    BY <1>2, StillCalm DEF ib
  <2>2. SeenInv'
    BY <1>2, <2>1, CalmSeen DEF IInv
  <2>3. QED BY <2>1, <2>2, CalmInv
<1>3. CASE RestartOrders
  <2>1. SeenInv' /\ UNCHANGED book /\ job' = None
    BY <1>3 DEF RestartOrders, SeenInv, Done
  <2>2. CASE KeepsClientId
    <3>1. UNCHANGED ib
      BY <1>3, <2>2 DEF RestartOrders, ib
    <3>2. QED BY <2>1, <3>1, StillCalm, CalmInv
  <2>3. CASE ~KeepsClientId
    <3>1. Sent' = Sent
      BY <2>1 DEF Sent
    <3>2. WholeInv' /\ ExitInv'
      BY <2>1, <3>1 DEF IInv, WholeInv, ExitInv
    <3>3. LegsInOrder'
      BY <2>1, <3>1 DEF IInv, LegsInOrder, PlaceRuns, Entry
    <3>4. CancelInv' /\ ShownInv' /\ OnceInv'
      BY <2>1, <2>3 DEF CancelInv, Cancelling, ShownInv, OnceInv
    <3>5. QED BY <2>1, <3>2, <3>3, <3>4 DEF IInv
  <2>4. QED BY <2>2, <2>3
<1>4. QED BY <1>1, <1>2, <1>3

(***************************************************************************)
(* Placing                                                                 *)
(***************************************************************************)

\* What changes at IB with a new order.
LEMMA ReceiveFacts ==
  ASSUME OrdersTypeOK, NEW o \in Orders, o \notin Sent, Receive(o)
  PROVE  /\ Sent' = Sent \cup {o}
         /\ \A c \in Orders \ {o} :
              /\ book[c] \in Done => book'[c] = book[c]
              /\ book'[c] \in Done => book'[c] = book[c]
              /\ book'[c] \in Released
                   => book[c] \in Released \/ (Transmits(o) /\ c \in Family(o))
         /\ book'[o] \in {"working", "held", "cancelled"}
         /\ book'[o] = "working" => Transmits(o)
         /\ shown' = shown \cup {o}
<1>1. o \in Family(o)
  BY FamilyHas
<1>2. shown' = shown \cup {o}
  BY DEF Receive
<1>3. CASE book' = [book EXCEPT ![o] = "cancelled"]
  BY <1>2, <1>3 DEF OrdersTypeOK, Sent, Done, Released
<1>4. CASE book' = [c \in Orders |->
             IF c \in Family(o) /\ (c = o \/ book[c] = "held")
               THEN IF Transmits(o) THEN "working" ELSE "held"
               ELSE book[c]]
  <2>1. Sent' = Sent \cup {o}
    BY <1>1, <1>4 DEF OrdersTypeOK, Sent
  <2>2. \A c \in Orders \ {o} :
          /\ book[c] \in Done => book'[c] = book[c]
          /\ book'[c] \in Done => book'[c] = book[c]
          /\ book'[c] \in Released
               => book[c] \in Released \/ (Transmits(o) /\ c \in Family(o))
    BY <1>4 DEF OrdersTypeOK, Done, Released
  <2>3. book'[o] = IF Transmits(o) THEN "working" ELSE "held"
    BY <1>1, <1>4
  <2>4. QED BY <1>2, <2>1, <2>2, <2>3
<1>5. QED BY <1>3, <1>4 DEF Receive

LEMMA ReceiveWhole ==
  ASSUME IInv, NEW o \in Orders, o \notin Sent, Receive(o),
         IsBracket(o) /\ Transmits(o) => Family(o) \subseteq Sent \cup {o}
  PROVE  WholeInv'
<1>1. OrdersTypeOK
  BY DEF IInv
<1>2. Sent' = Sent \cup {o}
  BY <1>1, ReceiveFacts
<1>3. SUFFICES ASSUME NEW e \in Sent', IsBracket(e), ~IsChild(e), book'[e] \in Released
               PROVE  Children(e) \subseteq Sent'
  BY DEF WholeInv
<1>4. e \in Orders
  BY <1>2, <1>3, SentOrders
<1>5. CASE e = o
  <2>1. book'[o] \in {"working", "held", "cancelled"} /\ (book'[o] = "working" => Transmits(o))
    BY <1>1, ReceiveFacts
  <2>2. Transmits(o)
    BY <1>3, <1>5, <2>1 DEF Released
  <2>3. QED BY <1>3, <1>5, <2>2 DEF Transmits, IsChild
<1>6. CASE e # o
  <2>1. book[e] \in Released \/ (Transmits(o) /\ e \in Family(o))
    BY <1>1, <1>3, <1>4, <1>6, ReceiveFacts
  <2>2. CASE book[e] \in Released
    <3>1. e \in Sent
      BY <1>2, <1>3, <1>6
    <3>2. QED BY <1>2, <1>3, <2>2, <3>1 DEF WholeInv, IInv
  <2>3. CASE Transmits(o) /\ e \in Family(o)
    <3>1. IsBracket(o) /\ Request(e) = Request(o) /\ Attempt(e) = Attempt(o)
      BY <1>3, <2>3, FamilyFacts
    <3>2. Family(o) \subseteq Sent'
      BY <1>2, <2>3, <3>1
    <3>3. Family(e) = Family(o)
      BY <3>1 DEF Family
    <3>4. QED BY <3>2, <3>3 DEF Children
  <2>4. QED BY <2>1, <2>2, <2>3
<1>7. QED BY <1>5, <1>6

LEMMA ReceiveExit ==
  ASSUME IInv, NEW o \in Orders, o \notin Sent, Receive(o)
  PROVE  ExitInv'
<1>1. OrdersTypeOK
  BY DEF IInv
<1>2. Sent' = Sent \cup {o} /\ book[o] = "none"
  BY <1>1, ReceiveFacts DEF Sent
<1>3. \A c \in Orders \ {o} :
        /\ book[c] \in Done => book'[c] = book[c]
        /\ book'[c] \in Done => book'[c] = book[c]
  BY <1>1, ReceiveFacts
<1>4. SUFFICES ASSUME NEW x \in Sent', IsBracket(x), IsChild(x), book'[x] = "filled"
               PROVE  /\ book'[Entry(x)] = "filled"
                      /\ \A c \in Family(x) : (IsChild(c) /\ c # x) => book'[c] = "cancelled"
  BY DEF ExitInv
<1>5. x \in Sent /\ x \in Orders /\ x # o
  <2>1. book'[o] # "filled"
    BY <1>1, ReceiveFacts
  <2>2. QED BY <1>2, <1>4, <2>1, SentOrders
<1>6. book[x] = "filled"
  BY <1>3, <1>4, <1>5 DEF Done
<1>7. /\ book[Entry(x)] = "filled"
      /\ \A c \in Family(x) : (IsChild(c) /\ c # x) => book[c] = "cancelled"
  BY <1>4, <1>5, <1>6 DEF ExitInv, IInv
<1>8. Entry(x) \in Orders /\ \A c \in Family(x) : c \in Orders
  BY <1>5, EntryFacts, FamilyFacts
<1>9. QED BY <1>2, <1>3, <1>7, <1>8 DEF Done

LEMMA ReceiveShown ==
  ASSUME IInv, NEW o \in Orders, o \notin Sent, Receive(o)
  PROVE  ShownInv'
<1>1. /\ Sent' = Sent \cup {o} /\ shown' = shown \cup {o}
      /\ \A c \in Orders \ {o} : book[c] \in Done => book'[c] = book[c]
  BY ReceiveFacts DEF IInv
<1>2. SUFFICES ASSUME KeepsClientId, NEW c \in Sent, c # o, book'[c] # "cancelled"
               PROVE  c \in shown
  BY <1>1 DEF ShownInv
<1>3. book[c] # "cancelled"
  BY <1>1, <1>2, SentOrders DEF Done
<1>4. QED BY <1>2, <1>3 DEF ShownInv, IInv

LEMMA ReceiveOnce ==
  ASSUME IInv, job \in PlaceJobs, NEW role \in Roles,
         Leg(role) \notin Sent, Receive(Leg(role)),
         job'.request = job.request, job'.attempt = job.attempt
  PROVE  OnceInv'
<1>1. /\ Leg(role) \in Orders
      /\ Request(Leg(role)) = job.request /\ Attempt(Leg(role)) = job.attempt
  BY LegFacts
<1>2. /\ Sent' = Sent \cup {Leg(role)}
      /\ \A c \in Orders \ {Leg(role)} : book[c] \in Done => book'[c] = book[c]
  BY <1>1, ReceiveFacts DEF IInv
<1>3. PlaceRuns
  BY NoneAssumption DEF PlaceRuns, PlaceJobs
<1>4. SUFFICES ASSUME KeepsClientId PROVE OnceInv'
  BY DEF OnceInv
<1>5. \A c \in Sent : book[c] = "cancelled" => book'[c] = "cancelled"
  BY <1>2, SentOrders DEF Done
<1>6. \A c \in Sent :
        (Request(c) = job.request /\ Attempt(c) # job.attempt /\ HasRef(c))
          => book[c] = "cancelled"
  BY <1>3, <1>4 DEF OnceInv, IInv
<1>7. ASSUME NEW c \in Sent', NEW d \in Sent',
             Request(c) = Request(d), Attempt(c) # Attempt(d), HasRef(c)
      PROVE  book'[c] = "cancelled" \/ book'[d] = "cancelled"
  <2>1. HasRef(d)
    BY <1>7 DEF HasRef
  <2>2. CASE c = Leg(role)
    BY <1>1, <1>2, <1>5, <1>6, <1>7, <2>1, <2>2
  <2>3. CASE d = Leg(role)
    BY <1>1, <1>2, <1>5, <1>6, <1>7, <2>3
  <2>4. CASE c \in Sent /\ d \in Sent
    <3>1. book[c] = "cancelled" \/ book[d] = "cancelled"
      BY <1>4, <1>7, <2>4 DEF OnceInv, IInv
    <3>2. QED BY <1>5, <2>4, <3>1
  <2>5. QED BY <1>2, <2>2, <2>3, <2>4
<1>8. \A c \in Sent' :
        (Request(c) = job'.request /\ Attempt(c) # job'.attempt /\ HasRef(c))
          => book'[c] = "cancelled"
  BY <1>1, <1>2, <1>5, <1>6
<1>9. QED BY <1>7, <1>8 DEF OnceInv

\* Everything but the order of the legs, which depends on the leg, and the registry.
LEMMA ReceiveInv ==
  ASSUME IInv, job \in PlaceJobs, NEW role \in Roles, NEW to \in PlaceStages, Stage(to),
         Leg(role) \notin Sent, Receive(Leg(role)),
         (Type[job.request] = "bracket" /\ role = "stopLoss")
           => Leg("entry") \in Sent /\ Leg("takeProfit") \in Sent
  PROVE  /\ WholeInv' /\ ExitInv' /\ ShownInv' /\ OnceInv' /\ CancelInv'
         /\ job'.kind = "place" /\ job'.stage = to
         /\ job'.request = job.request /\ job'.attempt = job.attempt
<1>1. /\ job'.kind = "place" /\ job'.stage = to
      /\ job'.request = job.request /\ job'.attempt = job.attempt
  BY DEF Stage, PlaceJobs
<1>2. /\ Leg(role) \in Orders /\ Role(Leg(role)) = role
      /\ Request(Leg(role)) = job.request /\ Attempt(Leg(role)) = job.attempt
  BY LegFacts
<1>3. IsBracket(Leg(role)) /\ Transmits(Leg(role)) => Family(Leg(role)) \subseteq Sent \cup {Leg(role)}
  <2>1. SUFFICES ASSUME IsBracket(Leg(role)), Transmits(Leg(role))
                 PROVE  Family(Leg(role)) \subseteq Sent \cup {Leg(role)}
    OBVIOUS
  <2>2. Type[job.request] = "bracket" /\ role = "stopLoss"
    BY <1>2, <2>1 DEF IsBracket, Transmits
  <2>3. Family(Leg(role)) = {Leg(part) : part \in Roles}
    BY <1>2 DEF Family, Leg
  <2>4. QED BY <2>2, <2>3 DEF Roles
<1>4. WholeInv' /\ ExitInv' /\ ShownInv'
  BY <1>2, <1>3, ReceiveWhole, ReceiveExit, ReceiveShown
<1>5. OnceInv'
  BY <1>1, ReceiveOnce
<1>6. CancelInv'
  BY <1>1 DEF CancelInv, Cancelling
<1>7. QED BY <1>1, <1>4, <1>5, <1>6

LEMMA ToldDone == \A status : Told(status) \in Done => Told(status) = status
BY DEF Told, Done

\* A leg that is sent in its turn.
LEMMA LegInTurn ==
  ASSUME IInv, job \in PlaceJobs, NEW role \in Roles, NEW to \in PlaceStages, Stage(to),
         Receive(Leg(role)),
         \/ job.stage = "checked" /\ role = "entry" /\ to \in {"entry", "sent"}
         \/ job.stage = "entry" /\ role = "takeProfit" /\ to = "takeProfit"
         \/ job.stage = "takeProfit" /\ role = "stopLoss" /\ to = "sent"
  PROVE  /\ Leg(role) \notin Sent
         /\ LegsInOrder' /\ WholeInv' /\ ExitInv' /\ ShownInv' /\ OnceInv' /\ CancelInv'
<1>1. PlaceRuns
  BY NoneAssumption DEF PlaceRuns, PlaceJobs
<1>2. /\ \A o \in Sent : Entry(o) \in Sent
      /\ job.stage = "checked" => Leg("entry") \notin Sent
      /\ job.stage # "checked" => Leg("entry") \in Sent
      /\ job.stage = "entry" => Leg("takeProfit") \notin Sent /\ Leg("stopLoss") \notin Sent
      /\ job.stage = "takeProfit" => Leg("takeProfit") \in Sent /\ Leg("stopLoss") \notin Sent
  BY <1>1 DEF IInv, LegsInOrder
<1>3. Leg(role) \notin Sent
  BY <1>2
<1>4. /\ WholeInv' /\ ExitInv' /\ ShownInv' /\ OnceInv' /\ CancelInv'
      /\ job'.kind = "place" /\ job'.stage = to
      /\ job'.request = job.request /\ job'.attempt = job.attempt
  BY <1>2, <1>3, ReceiveInv
<1>5. Leg(role) \in Orders
  BY LegFacts
<1>6. Sent' = Sent \cup {Leg(role)}
  BY <1>3, <1>5, ReceiveFacts DEF IInv
<1>7. \A part \in Roles : /\ Entry(Leg(part)) = Leg("entry")
                          /\ Leg(part)' = Leg(part)
                          /\ Leg(part) = Leg(role) => part = role
  BY <1>4 DEF Entry, Leg, Request, Attempt
<1>8. "entry" \in Roles /\ "takeProfit" \in Roles /\ "stopLoss" \in Roles
  BY DEF Roles
<1>9. \A o \in Sent' : Entry(o) \in Sent'
  <2>1. Entry(Leg(role)) \in Sent'
    BY <1>2, <1>6, <1>7
  <2>2. QED BY <1>2, <1>6, <2>1
<1>10. Leg("entry") \notin Sent => Leg("takeProfit") \notin Sent /\ Leg("stopLoss") \notin Sent
  BY <1>2, <1>7, <1>8
<1>11. /\ to = "entry" => Leg("takeProfit") \notin Sent' /\ Leg("stopLoss") \notin Sent'
       /\ to = "takeProfit" => Leg("takeProfit") \in Sent' /\ Leg("stopLoss") \notin Sent'
  BY <1>2, <1>6, <1>7, <1>8, <1>10
<1>12. Leg("entry") \in Sent' /\ to # "checked"
  BY <1>2, <1>6
<1>13. LegsInOrder'
  <2>1. \A o \in Sent' : Entry(o)' = Entry(o)
    BY DEF Entry
  <2>2. QED BY <1>4, <1>7, <1>8, <1>9, <1>11, <1>12, <2>1 DEF LegsInOrder
<1>14. QED BY <1>3, <1>4, <1>13

LEMMA ReceiveSeen ==
  ASSUME IInv, NEW o \in Orders, o \notin Sent, Receive(o), UNCHANGED seen
  PROVE  SeenInv'
<1>1. \A c \in Orders \ {o} : book[c] \in Done => book'[c] = book[c]
  BY ReceiveFacts DEF IInv
<1>2. seen[o] \notin Done
  BY DEF SeenInv, IInv, Sent, Done
<1>3. QED BY <1>1, <1>2 DEF SeenInv, IInv

LEMMA PlaceLegInv ==
  ASSUME IInv, NEW from, NEW role \in Roles, NEW to \in PlaceStages, PlaceLeg(from, role, to),
         \/ from = "checked" /\ role = "entry" /\ to = "entry"
         \/ from = "entry" /\ role = "takeProfit" /\ to = "takeProfit"
         \/ from = "takeProfit" /\ role = "stopLoss" /\ to = "sent"
  PROVE  IInv'
<1>1. OrdersTypeOK'
  BY PlaceLegType DEF IInv
<1>2. job \in PlaceJobs /\ job.stage = from
  BY PlacingIsPlace DEF PlaceLeg, Placing, IInv
<1>3. Stage(to) /\ Receive(Leg(role)) /\ UNCHANGED seen
  BY DEF PlaceLeg, registry
<1>4. /\ Leg(role) \notin Sent
      /\ LegsInOrder' /\ WholeInv' /\ ExitInv' /\ ShownInv' /\ OnceInv' /\ CancelInv'
  BY <1>2, <1>3, LegInTurn
<1>5. SeenInv'
  BY <1>2, <1>3, <1>4, LegFacts, ReceiveSeen
<1>6. QED BY <1>1, <1>4, <1>5 DEF IInv

LEMMA PlaceStepInv ==
  ASSUME IInv, PlaceStep
  PROVE  IInv'
<1>1. OrdersTypeOK'
  BY PlaceType DEF IInv
<1>2. "entry" \in Roles /\ "takeProfit" \in Roles /\ "stopLoss" \in Roles
  BY DEF Roles
<1>3. "entry" \in PlaceStages /\ "takeProfit" \in PlaceStages /\ "sent" \in PlaceStages
  BY DEF PlaceStages
<1>4. CASE PlaceSimple
  <2>1. job \in PlaceJobs /\ job.stage = "checked" /\ Stage("sent") /\ Receive(Leg("entry"))
    BY <1>4, PlacingIsPlace DEF PlaceSimple, Placing, IInv
  <2>2. /\ Leg("entry") \notin Sent
        /\ LegsInOrder' /\ WholeInv' /\ ExitInv' /\ ShownInv' /\ OnceInv' /\ CancelInv'
    BY <1>2, <1>3, <2>1, LegInTurn
  <2>3. \A c \in Orders \ {Leg("entry")} : book[c] \in Done => book'[c] = book[c]
    BY <1>2, <2>1, <2>2, LegFacts, ReceiveFacts DEF IInv
  <2>4. seen' = [o \in Orders |-> IF o \in {Leg("entry")} THEN Told(book'[o]) ELSE seen[o]]
    BY <1>4 DEF PlaceSimple, Register
  <2>5. SeenInv'
    BY <2>3, <2>4, ToldDone DEF SeenInv, IInv
  <2>6. QED BY <1>1, <2>2, <2>5 DEF IInv
<1>5. CASE PlaceDone \/ BracketDone
  <2>1. UNCHANGED ib /\ job' = None
    BY <1>5 DEF PlaceDone, BracketDone
  <2>2. Calm /\ (\A o \in Orders : book'[o] = book[o]) /\ SameWork
    BY <2>1, StillCalm DEF ib, SameWork
  <2>3. SeenInv'
    <3>1. CASE PlaceDone
      BY <2>2, <3>1, ToldDone DEF PlaceDone, SeenInv, IInv, OrdersTypeOK
    <3>2. CASE BracketDone
      <4>1. PICK name \in Names : Register({Leg(role) : role \in Roles}, name, Leg("stopLoss"))
        BY <3>2 DEF BracketDone
      <4>2. \A o \in Orders : seen'[o] = Told(book'[o]) \/ seen'[o] = seen[o]
        BY <4>1 DEF Register
      <4>3. QED BY <2>2, <4>2, ToldDone DEF SeenInv, IInv
    <3>3. QED BY <1>5, <3>1, <3>2
  <2>4. QED BY <1>1, <2>2, <2>3, CalmInv
<1>6. CASE PlaceEntry
  BY <1>2, <1>3, <1>6, PlaceLegInv DEF PlaceEntry
<1>7. CASE PlaceTakeProfit
  BY <1>2, <1>3, <1>7, PlaceLegInv DEF PlaceTakeProfit
<1>8. CASE PlaceStopLoss
  BY <1>2, <1>3, <1>8, PlaceLegInv DEF PlaceStopLoss
<1>9. QED BY <1>4, <1>5, <1>6, <1>7, <1>8 DEF PlaceStep

(***************************************************************************)
(* The theorems                                                            *)
(***************************************************************************)

LEMMA InitInv == OrdersInit => IInv
<1> SUFFICES ASSUME OrdersInit PROVE IInv
  OBVIOUS
<1>1. OrdersTypeOK
  BY InitType
<1>2. Sent = {} /\ job = None /\ \A o \in Orders : seen[o] = "none"
  BY DEF OrdersInit, Sent
<1>3. LegsInOrder /\ WholeInv /\ ExitInv /\ SeenInv
  BY <1>2 DEF LegsInOrder, PlaceRuns, WholeInv, ExitInv, SeenInv, Done
<1>4. ShownInv /\ OnceInv /\ CancelInv
  BY <1>2 DEF ShownInv, OnceInv, PlaceRuns, CancelInv, Cancelling
<1>5. QED BY <1>1, <1>3, <1>4 DEF IInv

\* What ends, loses or restarts a job, and what others do.
LEMMA OtherInv ==
  ASSUME IInv, JobFails \/ LoseClient \/ SetControl \/ RestartOrders \/ BrokerMoves
  PROVE  IInv'
<1>1. OrdersTypeOK'
  BY OtherType, BrokerType DEF IInv
<1>2. SameWork
  <2>1. CASE JobFails \/ RestartOrders
    BY <2>1 DEF JobFails, RestartOrders, SameWork
  <2>2. CASE SetControl \/ BrokerMoves
    BY <2>2 DEF SetControl, BrokerMoves, SameWork
  <2>3. CASE LoseClient
    <3>1. job \in PlaceJobs \cup CancelJobs
      BY <2>3 DEF LoseClient, IInv, OrdersTypeOK
    <3>2. CASE job \in PlaceJobs
      BY <2>3, <3>2 DEF LoseClient, SameWork, PlaceJobs
    <3>3. CASE job \in CancelJobs
      BY <2>3, <3>3 DEF LoseClient, SameWork, CancelJobs
    <3>4. QED BY <3>1, <3>2, <3>3
  <2>4. QED BY <2>1, <2>2, <2>3
<1>3. BrokerMoves \/ UNCHANGED <<ib, seen>> \/ RestartOrders
  BY DEF JobFails, LoseClient, SetControl, registry
<1>4. QED BY <1>1, <1>2, <1>3, OutsideInv

LEMMA NextInv == IInv /\ [OrdersNext]_ordersVars => IInv'
<1> SUFFICES ASSUME IInv, [OrdersNext]_ordersVars PROVE IInv'
  OBVIOUS
<1>1. CASE UNCHANGED ordersVars
  <2>1. OrdersTypeOK'
    BY <1>1, NextType DEF IInv
  <2>2. SameWork /\ UNCHANGED <<ib, seen>>
    BY <1>1 DEF ordersVars, registry, SameWork
  <2>3. QED BY <2>1, <2>2, OutsideInv
<1>2. ASSUME NEW r \in Requests, PlaceBegins(r) PROVE IInv'
  BY <1>2, PlaceBeginInv
<1>3. ASSUME NEW os \in OrderSets, NEW name \in Names, CancelBegins(os, name) PROVE IInv'
  <2>1. os \in SUBSET Orders /\ "tool" \in Askers
    BY SentOrders DEF OrderSets, Askers
  <2>2. job' = CancelJob(os, name, "tool") /\ UNCHANGED <<ib, registry>> /\ enabled' \in BOOLEAN
    BY <1>3 DEF CancelBegins, IInv, OrdersTypeOK
  <2>3. QED BY <2>1, <2>2, CancelBeginInv
<1>4. CASE PlaceStep \/ CancelStep
  BY <1>4, PlaceStepInv, CancelStepInv
<1>5. CASE JobFails \/ BrokerMoves \/ SetControl \/ RestartOrders
  BY <1>5, OtherInv
<1>6. QED BY <1>1, <1>2, <1>3, <1>4, <1>5 DEF OrdersNext

LEMMA InvImplies ==
  ASSUME IInv
  PROVE  BracketGoesOutWhole /\ ExitsMatchEntry /\ NoDuplicateOrder /\ CancelledSetIsDone
<1>1. BracketGoesOutWhole
  BY DEF IInv, WholeInv, BracketGoesOutWhole, Released
<1>2. ExitsMatchEntry
  <2>1. SUFFICES ASSUME NEW o \in Sent, IsBracket(o), Role(o) # "entry", book[o] = "filled"
                 PROVE  /\ book[Entry(o)] = "filled"
                        /\ \A c \in Family(o) : Role(c) # "entry" /\ c # o => book[c] # "filled"
    BY DEF ExitsMatchEntry
  <2>2. IsChild(o)
    BY <2>1 DEF IsChild
  <2>3. /\ book[Entry(o)] = "filled"
        /\ \A c \in Family(o) : (IsChild(c) /\ c # o) => book[c] = "cancelled"
    BY <2>1, <2>2 DEF IInv, ExitInv
  <2>4. QED BY <2>3 DEF IsChild
<1>3. NoDuplicateOrder
  <2>1. SUFFICES ASSUME KeepsClientId, NEW o \in Sent, NEW p \in Sent,
                        Request(o) = Request(p), Role(o) = Role(p), HasRef(o),
                        Alive(o), Alive(p)
                 PROVE  o = p
    BY DEF NoDuplicateOrder
  <2>2. book[o] # "cancelled" /\ book[p] # "cancelled"
    BY <2>1 DEF Alive, Open
  <2>3. Attempt(o) = Attempt(p)
    BY <2>1, <2>2 DEF IInv, OnceInv
  <2>4. QED BY <2>1, <2>3, SentOrders, SameOrder
<1>4. CancelledSetIsDone
  BY DEF CancelledSetIsDone, Result, IInv, CancelInv
<1>5. QED BY <1>1, <1>2, <1>3, <1>4

LEMMA OrdersInvHolds == OrdersSpec => []IInv
BY InitInv, NextInv, PTL DEF OrdersSpec

\* Wherever a placement breaks off, a bracket whose entry is out of the client's hands
\* has both its exits.
THEOREM BracketsAreWhole == OrdersSpec => []BracketGoesOutWhole
<1>1. IInv => BracketGoesOutWhole
  BY InvImplies
<1>2. QED BY <1>1, OrdersInvHolds, PTL

\* Whatever IB fills, cancels and discards meanwhile, an exit is filled only after its
\* entry, and only one of the two is.
THEOREM OneExitIsFilled == OrdersSpec => []ExitsMatchEntry
<1>1. IInv => ExitsMatchEntry
  BY InvImplies
<1>2. QED BY <1>1, OrdersInvHolds, PTL

\* If IB shows the orders of an earlier process, no number of retries gives a
\* clientOrderId that orders carry a second live order.
THEOREM RetriesAddNothing == OrdersSpec => []NoDuplicateOrder
<1>1. IInv => NoDuplicateOrder
  BY InvImplies
<1>2. QED BY <1>1, OrdersInvHolds, PTL

\* What cancel_order_set reports as cancelled is done at IB, though it goes on after
\* failures and folds the outcomes into one status.
THEOREM CancelledSetsAreDone == OrdersSpec => []CancelledSetIsDone
<1>1. IInv => CancelledSetIsDone
  BY InvImplies
<1>2. QED BY <1>1, OrdersInvHolds, PTL
(***************************************************************************)
(* A client order id stands for one order                                  *)
(***************************************************************************)

\* What a step does to the orders at IB: nothing, something to the legs of one attempt,
\* or it sends a leg in its turn.
OneFamily(o) == \A c \in Orders \ Family(o) : book'[c] = book[c]
Settles == Calm /\ \E o \in Orders : OneFamily(o)
LegGoes(role) ==
  /\ job \in PlaceJobs /\ Leg(role) \notin Sent /\ Receive(Leg(role))
  /\ role # "entry" => Type[job.request] = "bracket" /\ Leg("entry") \in Sent

LEMMA EndFamily ==
  ASSUME OrdersTypeOK, NEW o \in Orders, End(o)
  PROVE  OneFamily(o)
<1>1. o \in Family(o)
  BY FamilyHas
<1>2. QED BY <1>1 DEF End, OneFamily, Children

LEMMA BrokerSettles ==
  ASSUME OrdersTypeOK, BrokerMoves
  PROVE  Settles
<1>1. PICK o \in Sent : Fill(o) \/ CancelAtIB(o) \/ Discard(o)
  BY DEF BrokerMoves
<1>2. o \in Orders /\ o \in Family(o)
  BY SentOrders, FamilyHas
<1>3. CASE Fill(o)
  BY <1>2, <1>3, BrokerCalm DEF Fill, OneFamily, Children, Settles
<1>4. CASE CancelAtIB(o) \/ Discard(o)
  BY <1>2, <1>4, BrokerCalm, EndFamily DEF CancelAtIB, Discard, Settles
<1>5. QED BY <1>1, <1>3, <1>4

LEMMA CancelSettles ==
  ASSUME OrdersTypeOK, CancelStep
  PROVE  UNCHANGED book \/ Settles
<1>1. CASE CancelNext
  <2>1. PICK o \in job.todo : CancelMissing(o) \/ CancelNothing(o) \/ CancelRequest(o)
    BY <1>1 DEF CancelNext
  <2>2. o \in Orders /\ o \in Family(o)
    BY <1>1, <2>1, CancellingIsCancel, FamilyHas DEF CancelNext, CancelJobs
  <2>3. CASE CancelRequest(o)
    <3>1. UNCHANGED book \/ OneFamily(o)
      BY <2>2, <2>3, EndFamily DEF CancelRequest, OneFamily, OrdersTypeOK
    <3>2. QED BY <2>2, <3>1, CancelCalm DEF Settles
  <2>4. QED BY <2>1, <2>3 DEF CancelMissing, CancelNothing, ib
<1>2. CASE CancelOutcome \/ CancelDone
  BY <1>2 DEF CancelOutcome, CancelDone, ib
<1>3. QED BY <1>1, <1>2 DEF CancelStep

LEMMA LegsAreSent ==
  ASSUME IInv, PlaceStep
  PROVE  PlaceDone \/ BracketDone \/ \E role \in Roles : LegGoes(role)
<1>1. "entry" \in Roles /\ "takeProfit" \in Roles /\ "stopLoss" \in Roles
  BY DEF Roles
<1>2. OrdersTypeOK /\ LegsInOrder
  BY DEF IInv
<1>3. \A stage : Placing(stage) => job \in PlaceJobs /\ PlaceRuns /\ job.stage = stage
  BY <1>2, PlacingIsPlace DEF Placing, PlaceRuns
<1>4. CASE PlaceSimple \/ PlaceEntry
  <2>1. Placing("checked") /\ Receive(Leg("entry"))
    BY <1>4 DEF PlaceSimple, PlaceEntry, PlaceLeg
  <2>2. LegGoes("entry")
    BY <1>2, <1>3, <2>1 DEF LegGoes, LegsInOrder
  <2>3. QED BY <1>1, <2>2
<1>5. CASE PlaceTakeProfit
  <2>1. Placing("entry") /\ Receive(Leg("takeProfit")) /\ Type[job.request] = "bracket"
    BY <1>5 DEF PlaceTakeProfit, PlaceLeg
  <2>2. LegGoes("takeProfit")
    BY <1>2, <1>3, <2>1 DEF LegGoes, LegsInOrder
  <2>3. QED BY <1>1, <2>2
<1>6. CASE PlaceStopLoss
  <2>1. Placing("takeProfit") /\ Receive(Leg("stopLoss")) /\ Type[job.request] = "bracket"
    BY <1>6 DEF PlaceStopLoss, PlaceLeg
  <2>2. LegGoes("stopLoss")
    BY <1>2, <1>3, <2>1 DEF LegGoes, LegsInOrder
  <2>3. QED BY <1>1, <2>2
<1>7. QED BY <1>4, <1>5, <1>6 DEF PlaceStep

LEMMA PlaceSends ==
  ASSUME IInv, PlaceStep
  PROVE  UNCHANGED book \/ \E role \in Roles : LegGoes(role)
BY LegsAreSent DEF PlaceDone, BracketDone, ib

LEMMA StepKinds ==
  ASSUME IInv, [OrdersNext]_ordersVars
  PROVE  UNCHANGED book \/ Settles \/ \E role \in Roles : LegGoes(role)
<1>1. CASE BrokerMoves \/ CancelStep \/ PlaceStep
  BY <1>1, BrokerSettles, CancelSettles, PlaceSends DEF IInv
<1>2. CASE \/ \E r \in Requests : PlaceBegins(r)
           \/ \E os \in OrderSets, name \in Names : CancelBegins(os, name)
           \/ JobFails \/ SetControl \/ RestartOrders \/ UNCHANGED ordersVars
  BY <1>2 DEF PlaceBegins, CancelBegins, JobFails, SetControl, RestartOrders, ordersVars, ib
<1>3. QED BY <1>1, <1>2 DEF OrdersNext

\* The legs of an attempt, by their statuses.
LEMMA LegOf ==
  ASSUME NEW r \in Keyed, NEW a \in Attempts, NEW role \in Roles
  PROVE  /\ <<r, role, a>> \in Orders
         /\ Request(<<r, role, a>>) = r /\ Attempt(<<r, role, a>>) = a
         /\ Role(<<r, role, a>>) = role
         /\ HasRef(<<r, role, a>>)
BY MakeOrder DEF Keyed, HasRef

\* Of an attempt that goes on or was filled, no other attempt is alive.
LEMMA OthersAreOver ==
  ASSUME IInv, KeepsClientId, NEW r \in Keyed, NEW a \in Attempts, NEW b \in Attempts, a # b,
         Goes(r, a) \/ EntryOf(r, a) = "filled"
  PROVE  ~Goes(r, b) /\ EntryOf(r, b) # "filled"
<1>1. PICK role \in Roles : book[<<r, role, a>>] \in Open \cup {"filled"}
  BY DEF Goes, EntryOf, Roles
<1>2. <<r, role, a>> \in Sent /\ book[<<r, role, a>>] # "cancelled"
  BY <1>1, LegOf DEF Sent, Open
<1>3. ASSUME NEW other \in Roles
      PROVE  book[<<r, other, b>>] \in {"none", "cancelled"}
  <2>1. CASE <<r, other, b>> \in Sent
    BY <1>2, <2>1, LegOf DEF IInv, OnceInv
  <2>2. CASE <<r, other, b>> \notin Sent
    BY <2>2, LegOf DEF Sent
  <2>3. QED BY <2>1, <2>2
<1>4. QED BY <1>3 DEF Goes, EntryOf, Open, Roles

\* The ledger of a step that changes it for one attempt at most.
LEMMA LedgerSame ==
  ASSUME \A r \in Keyed : \A a \in Attempts :
           (Goes(r, a)' <=> Goes(r, a)) /\ (EntryOf(r, a)' = "filled" <=> EntryOf(r, a) = "filled")
  PROVE  UNCHANGED Ledger!ledgerVars
BY DEF Ledger!ledgerVars

LEMMA LedgerMoves ==
  ASSUME NEW r \in Keyed, NEW a \in Attempts,
         \A q \in Keyed : \A b \in Attempts : (q # r \/ b # a) =>
           (Goes(q, b)' <=> Goes(q, b)) /\ (EntryOf(q, b)' = "filled" <=> EntryOf(q, b) = "filled"),
         \A b \in Attempts \ {a} : ~Goes(r, b) /\ EntryOf(r, b) # "filled",
         \/ Goes(r, a) /\ ~Goes(r, a)'
         \/ ~Goes(r, a) /\ EntryOf(r, a) # "filled" /\ Goes(r, a)'
  PROVE  Ledger!LedgerNext
<1> DEFINE open == [q \in Keyed |-> {b \in Attempts : Goes(q, b)}]
           filled == [q \in Keyed |-> {b \in Attempts : EntryOf(q, b) = "filled" /\ ~Goes(q, b)}]
<1>1. open' \in [Keyed -> SUBSET Attempts] /\ filled' \in [Keyed -> SUBSET Attempts]
  OBVIOUS
<1>2. \A other \in Keyed \ {r} : open'[other] = open[other] /\ filled'[other] = filled[other]
  OBVIOUS
<1>3. \A other \in Keyed \ {r} : Ledger!Keep(other)
  BY <1>2 DEF Ledger!Keep
<1>4. \A b \in Attempts \ {a} :
        /\ b \notin open[r] /\ b \notin open'[r]
        /\ b \notin filled[r] /\ b \notin filled'[r]
  OBVIOUS
<1>5. /\ open[r] \subseteq {a} /\ open'[r] \subseteq {a}
      /\ filled[r] \subseteq {a} /\ filled'[r] \subseteq {a}
  <2>1. /\ open[r] \subseteq Attempts /\ open'[r] \subseteq Attempts
        /\ filled[r] \subseteq Attempts /\ filled'[r] \subseteq Attempts
    OBVIOUS
  <2> HIDE DEF open, filled
  <2>2. QED BY <1>4, <2>1
<1>6. CASE Goes(r, a) /\ ~Goes(r, a)'
  <2>1. a \in open[r] /\ a \notin open'[r] /\ a \notin filled[r]
    BY <1>6
  <2>2. open[r] = {a} /\ open'[r] = {} /\ filled[r] = {} /\ filled'[r] \in {{}, {a}}
    <3> HIDE DEF open, filled
    <3>1. QED BY <1>5, <2>1
  <2>3. Ledger!Finish(r)
    BY <2>2 DEF Ledger!Finish
  <2>4. QED BY <1>1, <1>3, <2>3 DEF Ledger!LedgerNext
<1>7. CASE ~Goes(r, a) /\ EntryOf(r, a) # "filled" /\ Goes(r, a)'
  <2>1. a \notin open[r] /\ a \in open'[r] /\ a \notin filled[r] /\ a \notin filled'[r]
    BY <1>7
  <2>2. open[r] = {} /\ open'[r] = {a} /\ filled[r] = {} /\ filled'[r] = {}
    <3> HIDE DEF open, filled
    <3>1. QED BY <1>5, <2>1
  <2>3. Ledger!Place(r)
    BY <2>2 DEF Ledger!Place
  <2>4. QED BY <1>1, <1>3, <2>3 DEF Ledger!LedgerNext
<1>8. QED BY <1>6, <1>7

LEMMA SettlesLedger ==
  ASSUME IInv, KeepsClientId, Settles
  PROVE  [Ledger!LedgerNext]_(Ledger!ledgerVars)
<1>1. PICK o \in Orders : OneFamily(o)
  BY DEF Settles
<1>2. Calm /\ OrdersTypeOK
  BY DEF Settles, IInv
<1>3. ASSUME NEW q \in Keyed, NEW b \in Attempts, q # Request(o) \/ b # Attempt(o),
             NEW role \in Roles
      PROVE  book'[<<q, role, b>>] = book[<<q, role, b>>]
  <2>1. <<q, role, b>> \in Orders \ Family(o)
    BY <1>3, LegOf, FamilyFacts
  <2>2. QED BY <1>1, <2>1 DEF OneFamily
<1>4. ASSUME NEW q \in Keyed, NEW b \in Attempts, q # Request(o) \/ b # Attempt(o)
      PROVE  /\ Goes(q, b)' <=> Goes(q, b)
             /\ EntryOf(q, b)' = "filled" <=> EntryOf(q, b) = "filled"
  BY <1>3, <1>4 DEF Goes, EntryOf, Roles
<1>5. ASSUME NEW q \in Keyed, NEW b \in Attempts
      PROVE  /\ Goes(q, b)' => Goes(q, b)
             /\ EntryOf(q, b) = "filled" => EntryOf(q, b)' = "filled"
             /\ EntryOf(q, b)' = "filled" => EntryOf(q, b) = "filled" \/ Goes(q, b)
  <2>1. ASSUME NEW role \in Roles
        PROVE  /\ book'[<<q, role, b>>] = "none" <=> book[<<q, role, b>>] = "none"
               /\ book[<<q, role, b>>] \in Done => book'[<<q, role, b>>] = book[<<q, role, b>>]
               /\ book'[<<q, role, b>>] \in Released => book[<<q, role, b>>] \in Released
               /\ book[<<q, role, b>>] \in Statuses
    BY <1>2, LegOf DEF Calm, OrdersTypeOK
  <2>2. \A role \in Roles :
          book'[<<q, role, b>>] \in Open => book[<<q, role, b>>] \in Open
    BY <2>1 DEF Open, Done, Statuses
  <2>3. Goes(q, b)' => Goes(q, b)
    BY <2>1, <2>2 DEF Goes, EntryOf, Roles
  <2>4. "entry" \in Roles
    BY DEF Roles
  <2>5. EntryOf(q, b) = "filled" => EntryOf(q, b)' = "filled"
    BY <2>1, <2>4 DEF EntryOf, Done
  <2>6. EntryOf(q, b)' = "filled" => EntryOf(q, b) \in Released
    BY <2>1, <2>4 DEF EntryOf, Released
  <2>7. EntryOf(q, b) \in Released => EntryOf(q, b) = "filled" \/ Goes(q, b)
    BY <2>4 DEF EntryOf, Goes, Released, Open
  <2>8. QED BY <2>3, <2>5, <2>6, <2>7
<1>6. Attempt(o) \in Attempts
  BY OrderParts
<1>7. CASE Request(o) \in Keyed /\ Goes(Request(o), Attempt(o)) /\ ~Goes(Request(o), Attempt(o))'
  <2>1. \A b \in Attempts \ {Attempt(o)} :
          ~Goes(Request(o), b) /\ EntryOf(Request(o), b) # "filled"
    BY <1>6, <1>7, OthersAreOver
  <2>2. QED BY <1>4, <1>6, <1>7, <2>1, LedgerMoves
<1>8. CASE ~(Request(o) \in Keyed /\ Goes(Request(o), Attempt(o)) /\ ~Goes(Request(o), Attempt(o))')
  <2>1. ASSUME NEW q \in Keyed, NEW b \in Attempts
        PROVE  /\ Goes(q, b)' <=> Goes(q, b)
               /\ EntryOf(q, b)' = "filled" /\ ~Goes(q, b)' <=> EntryOf(q, b) = "filled" /\ ~Goes(q, b)
    BY <1>4, <1>5, <1>8
  <2>2. QED BY <2>1 DEF Ledger!ledgerVars
<1>9. QED BY <1>7, <1>8

LEMMA SendsLedger ==
  ASSUME IInv, KeepsClientId, NEW role \in Roles, LegGoes(role)
  PROVE  [Ledger!LedgerNext]_(Ledger!ledgerVars)
<1> SUFFICES ASSUME NEW r, r = job.request, NEW a, a = job.attempt, NEW o, o = Leg(role)
             PROVE  [Ledger!LedgerNext]_(Ledger!ledgerVars)
  OBVIOUS
<1>1. r \in Requests /\ a \in Attempts /\ PlaceRuns
  BY NoneAssumption DEF LegGoes, PlaceJobs, PlaceRuns
<1>2. /\ o \in Orders /\ o \notin Sent /\ o = <<r, role, a>>
      /\ Request(o) = r /\ Role(o) = role /\ Attempt(o) = a
  BY LegFacts DEF LegGoes, Leg
<1>3. Receive(o) /\ OrdersTypeOK
  BY DEF LegGoes, IInv
<1>4. /\ Sent' = Sent \cup {o}
      /\ \A c \in Orders \ {o} :
           /\ book[c] \in Done => book'[c] = book[c]
           /\ book'[c] \in Done => book'[c] = book[c]
      /\ book'[o] \in {"working", "held", "cancelled"}
  BY <1>2, <1>3, ReceiveFacts
<1>5. "entry" \in Roles
  BY DEF Roles
<1>6. ASSUME NEW c \in Orders, c # o
      PROVE  /\ book'[c] \in Open <=> book[c] \in Open
             /\ book'[c] = "none" <=> book[c] = "none"
             /\ book'[c] = "filled" <=> book[c] = "filled"
  <2>1. book[c] \in Statuses /\ book'[c] \in Statuses
    <3>1. book' \in [Orders -> Statuses]
      BY <1>2, <1>3, ReceiveType
    <3>2. QED BY <1>3, <3>1 DEF OrdersTypeOK
  <2>2. book'[c] = "none" <=> book[c] = "none"
    BY <1>4, <1>6 DEF Sent
  <2>3. QED BY <1>4, <1>6, <2>1, <2>2 DEF Statuses, Open, Done
<1>7. ASSUME NEW q \in Keyed, NEW b \in Attempts, q # r \/ b # a
      PROVE  /\ Goes(q, b)' <=> Goes(q, b)
             /\ EntryOf(q, b)' = "filled" <=> EntryOf(q, b) = "filled"
  <2>1. \A part \in Roles : <<q, part, b>> \in Orders /\ <<q, part, b>> # o
    BY <1>2, <1>7, LegOf
  <2>2. QED BY <1>5, <1>6, <2>1 DEF Goes, EntryOf
<1>8. CASE r \notin Keyed
  BY <1>7, <1>8, LedgerSame
<1>9. CASE r \in Keyed /\ role = "entry"
  <2>1. EntryOf(r, a) = "none"
    BY <1>2, <1>9 DEF Sent, EntryOf
  <2>2. \A part \in Roles : part # "entry" => book'[<<r, part, a>>] \notin Open
    <3>1. SUFFICES ASSUME NEW part \in Roles, part # "entry"
                   PROVE  book'[<<r, part, a>>] \notin Open
      OBVIOUS
    <3>2. <<r, part, a>> \in Orders /\ Entry(<<r, part, a>>) = <<r, "entry", a>>
      BY <1>1, <1>9, LegOf DEF Entry
    <3>3. <<r, part, a>> # o
      BY <1>1, <1>2, <1>9, <3>1, LegOf
    <3>4. <<r, part, a>> \notin Sent
      BY <1>2, <1>9, <3>2 DEF IInv, LegsInOrder
    <3>5. book[<<r, part, a>>] \notin Open
      BY <3>2, <3>4 DEF Sent, Open
    <3>6. QED BY <1>6, <3>2, <3>3, <3>5
  <2>3. EntryOf(r, a)' \in {"working", "held", "cancelled"}
    BY <1>2, <1>4, <1>9 DEF EntryOf
  <2>4. ~Goes(r, a) /\ EntryOf(r, a) # "filled" /\ EntryOf(r, a)' # "filled"
    BY <2>1, <2>3 DEF Goes
  <2>5. CASE EntryOf(r, a)' = "cancelled"
    <3>1. ~Goes(r, a)'
      BY <2>2, <2>5 DEF Goes, EntryOf, Open
    <3>2. QED BY <1>7, <2>4, <3>1, LedgerSame
  <2>6. CASE EntryOf(r, a)' # "cancelled"
    <3>1. Goes(r, a)'
      BY <1>5, <2>3, <2>6 DEF Goes, EntryOf, Open
    <3>2. ASSUME NEW b \in Attempts \ {a} PROVE ~Goes(r, b) /\ EntryOf(r, b) # "filled"
      <4>1. ASSUME NEW part \in Roles PROVE book[<<r, part, b>>] \in {"none", "cancelled"}
        <5>1. CASE <<r, part, b>> \in Sent
          BY <1>1, <1>9, <3>2, <5>1, LegOf DEF IInv, OnceInv
        <5>2. CASE <<r, part, b>> \notin Sent
          BY <1>9, <5>2, LegOf DEF Sent
        <5>3. QED BY <5>1, <5>2
      <4>2. QED BY <1>5, <4>1 DEF Goes, EntryOf, Open
    <3>3. QED BY <1>1, <1>7, <1>9, <2>4, <3>1, <3>2, LedgerMoves
  <2>7. QED BY <2>5, <2>6
<1>10. CASE r \in Keyed /\ role # "entry"
  <2>1. /\ <<r, "entry", a>> \in Sent /\ <<r, "entry", a>> # o
        /\ Type[r] = "bracket"
    BY <1>2, <1>10 DEF LegGoes, Leg
  <2>2. /\ <<r, "entry", a>> \in Orders
        /\ Request(<<r, "entry", a>>) = r /\ Attempt(<<r, "entry", a>>) = a
        /\ Role(<<r, "entry", a>>) = "entry"
    BY <1>1, <1>5, <1>10, LegOf
  <2>3. IsChild(o) /\ Entry(o) = <<r, "entry", a>>
    BY <1>2, <1>10 DEF IsChild, Entry
  <2>4. book[<<r, "entry", a>>] \notin Released
    <3>1. o \in Children(<<r, "entry", a>>)
      BY <1>2, <2>1, <2>2, <2>3, FamilyHas DEF Children
    <3>2. IsBracket(<<r, "entry", a>>) /\ ~IsChild(<<r, "entry", a>>)
      BY <2>1, <2>2 DEF IsBracket, IsChild
    <3>3. QED BY <1>2, <2>1, <3>1, <3>2 DEF IInv, WholeInv
  <2>5. EntryOf(r, a) # "filled" /\ EntryOf(r, a)' # "filled" /\ EntryOf(r, a) # "none"
    <3>1. EntryOf(r, a) # "filled" /\ EntryOf(r, a) # "none"
      BY <2>1, <2>4 DEF EntryOf, Released, Sent
    <3>2. QED BY <1>6, <2>1, <2>2, <3>1 DEF EntryOf
  <2>6. Goes(r, a)' <=> Goes(r, a)
    <3>1. CASE EntryOf(r, a) = "cancelled"
      <4>1. book' = [book EXCEPT ![o] = "cancelled"]
        BY <1>3, <2>3, <3>1 DEF Receive, EntryOf
      <4>2. book'[o] \notin Open /\ book[o] \notin Open
        BY <1>2, <1>3, <4>1 DEF OrdersTypeOK, Open, Sent
      <4>3. \A part \in Roles :
              book'[<<r, part, a>>] \in Open <=> book[<<r, part, a>>] \in Open
        BY <1>1, <1>6, <1>10, <4>2, LegOf
      <4>4. EntryOf(r, a)' # "none"
        BY <1>6, <2>1, <2>2, <2>5 DEF EntryOf
      <4>5. QED BY <2>5, <4>3, <4>4 DEF Goes
    <3>2. CASE EntryOf(r, a) # "cancelled"
      <4>1. EntryOf(r, a) \in Open
        BY <1>3, <2>2, <2>5, <3>2 DEF EntryOf, OrdersTypeOK, Statuses, Open
      <4>2. EntryOf(r, a)' \in Open
        BY <1>6, <2>1, <2>2, <4>1 DEF EntryOf
      <4>3. QED BY <1>5, <4>1, <4>2 DEF Goes, EntryOf, Open
    <3>3. QED BY <3>1, <3>2
  <2>7. QED BY <1>7, <2>5, <2>6, LedgerSame
<1>11. QED BY <1>8, <1>9, <1>10

LEMMA LedgerStart == OrdersInit => Ledger!LedgerInit
BY DEF OrdersInit, Ledger!LedgerInit, Goes, EntryOf, Open, Orders, Keyed, Roles

\* What a step does to the orders is a step of the ledger, or nothing.
LEMMA LedgerStep ==
  ASSUME IInv, KeepsClientId,
         UNCHANGED book \/ Settles \/ \E role \in Roles : LegGoes(role)
  PROVE  [Ledger!LedgerNext]_(Ledger!ledgerVars)
<1>1. CASE UNCHANGED book
  BY <1>1 DEF Ledger!ledgerVars, Goes, EntryOf
<1>2. QED BY <1>1, SettlesLedger, SendsLedger

\* If IB shows the orders of an earlier process, place_order keeps its promise to those
\* who retry it: wherever an attempt breaks off, whatever restarts and whatever IB
\* does to the legs, the next attempt is made only when no other is open or filled.
THEOREM OrdersImplementLedger == KeepsClientId => (OrdersSpec => ImplementsLedger)
<1> SUFFICES ASSUME KeepsClientId PROVE OrdersSpec => ImplementsLedger
  OBVIOUS
<1>1. IInv /\ [OrdersNext]_ordersVars => [Ledger!LedgerNext]_(Ledger!ledgerVars)
  BY StepKinds, LedgerStep
<1>2. QED
  BY <1>1, LedgerStart, OrdersInvHolds, PTL DEF OrdersSpec, ImplementsLedger, Ledger!LedgerSpec

(***************************************************************************)
(* Client ids that change                                                  *)
(*                                                                         *)
(* If a restart takes another client id, IB hides the orders placed before *)
(* it.  Among those that it shows, retries still add nothing.              *)
(***************************************************************************)

OnceHere ==
  /\ \A o, p \in shown :
       (Request(o) = Request(p) /\ Attempt(o) # Attempt(p) /\ HasRef(o))
         => book[o] = "cancelled" \/ book[p] = "cancelled"
  /\ PlaceRuns =>
       \A o \in shown :
         (Request(o) = job.request /\ Attempt(o) # job.attempt /\ HasRef(o))
           => book[o] = "cancelled"

\* Of the orders that IB shows to this process, at most one for a clientOrderId, or one
\* bracket, is open or filled, whatever became of those of earlier processes.
NoDuplicateHere ==
  \A o, p \in shown :
    (Request(o) = Request(p) /\ Role(o) = Role(p) /\ HasRef(o) /\ Alive(o) /\ Alive(p))
      => o = p

LEMMA CancelIsNoPlacement ==
  ASSUME OrdersTypeOK, CancelStep
  PROVE  ~PlaceRuns' /\ enabled' = enabled
<1>1. CASE CancelNext \/ CancelOutcome
  <2>1. job' \in CancelJobs
    BY <1>1, CancelGoesOn
  <2>2. QED BY <1>1, <2>1 DEF PlaceRuns, CancelJobs, CancelNext, CancelOutcome
<1>2. CASE CancelDone
  BY <1>2 DEF CancelDone, PlaceRuns
<1>3. QED BY <1>1, <1>2 DEF CancelStep

\* Steps that show nothing more and place nothing else.
LEMMA HereLess ==
  ASSUME OrdersTypeOK, OnceHere, shown' \subseteq shown,
         \A o \in Orders : book[o] = "cancelled" => book'[o] = "cancelled",
         PlaceRuns' => PlaceRuns /\ job'.request = job.request /\ job'.attempt = job.attempt
  PROVE  OnceHere'
<1>1. shown \subseteq Orders
  BY DEF OrdersTypeOK
<1>2. QED BY <1>1 DEF OnceHere

LEMMA HereBegins ==
  ASSUME OnceHere, NEW r \in Requests, PlaceBegins(r)
  PROVE  OnceHere'
<1>1. UNCHANGED ib /\ job'.request = r
  BY DEF PlaceBegins
<1>2. \A o \in shown : ~(Request(o) = r /\ HasRef(o))
  BY DEF PlaceBegins, Exists
<1>3. QED BY <1>1, <1>2 DEF OnceHere, ib

\* A leg is of the attempt that is being made, and every other is cancelled.
LEMMA HereSends ==
  ASSUME OrdersTypeOK, OnceHere, NEW role \in Roles, LegGoes(role),
         job' = None \/ \E to : Stage(to)
  PROVE  OnceHere'
<1> SUFFICES ASSUME NEW o, o = Leg(role) PROVE OnceHere'
  OBVIOUS
<1>1. /\ o \in Orders /\ o \notin Sent /\ Receive(o)
      /\ Request(o) = job.request /\ Attempt(o) = job.attempt
  BY LegFacts DEF LegGoes
<1>2. /\ \A c \in Orders \ {o} : book[c] = "cancelled" => book'[c] = "cancelled"
      /\ shown' = shown \cup {o} /\ shown \subseteq Orders
  BY <1>1, ReceiveFacts DEF Done, OrdersTypeOK
<1>3. PlaceRuns
  BY NoneAssumption DEF LegGoes, PlaceJobs, PlaceRuns
<1>4. PlaceRuns' => job'.request = job.request /\ job'.attempt = job.attempt
  BY DEF LegGoes, PlaceJobs, PlaceRuns, Stage
<1>5. ASSUME NEW c \in shown \cup {o}, Request(c) = Request(o), Attempt(c) # Attempt(o), HasRef(c)
      PROVE  book'[c] = "cancelled"
  BY <1>1, <1>2, <1>3, <1>5 DEF OnceHere
<1>6. ASSUME NEW c \in shown', NEW d \in shown',
             Request(c) = Request(d), Attempt(c) # Attempt(d), HasRef(c)
      PROVE  book'[c] = "cancelled" \/ book'[d] = "cancelled"
  <2>1. HasRef(d)
    BY <1>6 DEF HasRef
  <2>2. CASE c = o \/ d = o
    BY <1>2, <1>5, <1>6, <2>1, <2>2
  <2>3. CASE c # o /\ d # o
    BY <1>2, <1>6, <2>3 DEF OnceHere
  <2>4. QED BY <2>2, <2>3
<1>7. QED BY <1>1, <1>2, <1>4, <1>5, <1>6 DEF OnceHere

LEMMA HereKept ==
  ASSUME IInv, OnceHere, [OrdersNext]_ordersVars
  PROVE  OnceHere'
<1>1. OrdersTypeOK
  BY DEF IInv
<1>2. CASE \E r \in Requests : PlaceBegins(r)
  BY <1>2, HereBegins
<1>3. CASE PlaceStep
  <2>1. job' = None \/ \E to : Stage(to)
    BY <1>3 DEF PlaceStep, PlaceSimple, PlaceDone, PlaceEntry, PlaceTakeProfit, PlaceStopLoss,
                PlaceLeg, BracketDone
  <2>2. CASE \E role \in Roles : LegGoes(role)
    BY <1>1, <2>1, <2>2, HereSends
  <2>3. CASE PlaceDone \/ BracketDone
    BY <1>1, <2>3, HereLess DEF PlaceDone, BracketDone, ib, PlaceRuns
  <2>4. QED BY <1>3, <2>2, <2>3, LegsAreSent
<1>4. CASE CancelStep
  <2>1. Calm /\ ~PlaceRuns'
    BY <1>1, <1>4, CancelCalm, CancelIsNoPlacement
  <2>2. QED BY <1>1, <2>1, HereLess DEF Calm, Done
<1>5. CASE BrokerMoves
  <2>1. Calm /\ job' = job
    BY <1>1, <1>5, BrokerCalm DEF BrokerMoves
  <2>2. QED BY <1>1, <2>1, HereLess DEF Calm, Done, PlaceRuns
<1>6. CASE \/ \E os \in OrderSets, name \in Names : CancelBegins(os, name)
           \/ JobFails \/ SetControl \/ RestartOrders \/ UNCHANGED ordersVars
  <2>1. shown' \subseteq shown /\ book' = book
    BY <1>6 DEF CancelBegins, JobFails, SetControl, RestartOrders, ordersVars, ib
  <2>2. job' = job \/ ~PlaceRuns'
    BY <1>6 DEF CancelBegins, CancelJob, JobFails, SetControl, RestartOrders, ordersVars, PlaceRuns
  <2>3. QED BY <1>1, <2>1, <2>2, HereLess DEF PlaceRuns
<1>7. QED BY <1>2, <1>3, <1>4, <1>5, <1>6 DEF OrdersNext

\* Whatever client ids the processes take: a retry adds nothing to the orders that IB
\* shows to its own, even where an earlier process has left orders that it hides.
THEOREM RetriesAddNothingHere == OrdersSpec => []NoDuplicateHere
<1>1. OrdersInit => OnceHere
  BY DEF OrdersInit, OnceHere, PlaceRuns
<1>2. IInv /\ OnceHere /\ [OrdersNext]_ordersVars => OnceHere'
  BY HereKept
<1>3. IInv /\ OnceHere => NoDuplicateHere
  <2>1. SUFFICES ASSUME IInv, OnceHere, NEW o \in shown, NEW p \in shown,
                        Request(o) = Request(p), Role(o) = Role(p), HasRef(o),
                        Alive(o), Alive(p)
                 PROVE  o = p
    BY DEF NoDuplicateHere
  <2>2. o \in Orders /\ p \in Orders
    BY <2>1 DEF IInv, OrdersTypeOK
  <2>3. Attempt(o) = Attempt(p)
    BY <2>1 DEF OnceHere, Alive, Open
  <2>4. QED BY <2>1, <2>2, <2>3, SameOrder
<1>4. QED BY <1>1, <1>2, <1>3, OrdersInvHolds, PTL DEF OrdersSpec
=============================================================================
