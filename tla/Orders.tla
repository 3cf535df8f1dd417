------------------------------- MODULE Orders -------------------------------
(***************************************************************************)
(* The order functions of ibkr_core/orders.py as the worker thread of one  *)
(* server process executes them, one job at a time: placing an order or    *)
(* the three legs of a bracket, and cancelling a set of orders.            *)
(* Interactive Brokers moves between any two calls that a job makes.       *)
(*                                                                         *)
(* Every job begins with a connection of its own (module Session): the     *)
(* Trade objects in the registry are brought up to date by the job that    *)
(* placed the orders and not afterwards.  A job that only reads, or that   *)
(* ends before it has sent anything, leaves everything as it is, and has   *)
(* no step here: the placement that validation or control.json stops, the  *)
(* one that finds its order in place, queries, and failed connections.     *)
(*                                                                         *)
(* An order has two names: the orderId of its client and, once IB has      *)
(* assigned it, the permId.  The registry knows it by one of them.         *)
(***************************************************************************)
EXTENDS Naturals

CONSTANTS
  Requests,         \* order specs, each with a clientOrderId of its own
  Type,             \* Type[r]: "simple", "auction" (MOC, OPG) or "bracket"
  Transmit,         \* Transmit[r]: transmit, or bracketTransmit, of the spec
  KeepsClientId,    \* after a restart IB shows the orders placed before it
  MaxAttempts,      \* bound on the times an order is placed
  None

Types == {"simple", "auction", "bracket"}
Roles == {"entry", "takeProfit", "stopLoss"}
Attempts == 1 .. MaxAttempts
Orders == Requests \X Roles \X Attempts
Names == {"orderId", "permId"}

Statuses == {"none", "held", "working", "cancelling", "filled", "cancelled"}
Done == {"filled", "cancelled"}
Trades == {"none", "open"} \cup Done
Open == {"held", "working", "cancelling"}

ASSUME TypeAssumption == Type \in [Requests -> Types]
ASSUME TransmitAssumption == Transmit \in [Requests -> BOOLEAN]
ASSUME BoundAssumption == MaxAttempts \in Nat

Askers == {"tool", "stop", "nobody"}
PlaceStages == {"checked", "entry", "takeProfit", "sent"}
PlaceJobs ==
  [kind : {"place"}, by : Askers, request : Requests, attempt : Attempts,
   stage : PlaceStages, loose : BOOLEAN]
CancelJobs ==
  [kind : {"cancel"}, by : Askers, name : Names, todo : SUBSET Orders, all : SUBSET Orders,
   waits : Orders \cup {None}, found : BOOLEAN, rejected : BOOLEAN, loose : BOOLEAN]

ASSUME NoneAssumption == None \notin Requests \cup Orders \cup PlaceJobs \cup CancelJobs

VARIABLES
  \* Interactive Brokers
  book,             \* book[o]: the status of order o
  shown,            \* the orders it shows to this client id
  \* the OrderRegistry of the process
  key,              \* key[o]: the name o is registered under, or "none"
  seen,             \* seen[o]: what its Trade object says, "none" if there is none
  latest,           \* latest[r]: _client_order_ids, the order for clientOrderId r
  \* the service
  enabled,          \* control.json lets orders through
  job               \* what the worker does

registry == <<key, seen, latest>>
ib == <<book, shown>>
ordersVars == <<ib, registry, enabled, job>>

OrdersInit ==
  /\ book = [o \in Orders |-> "none"]
  /\ shown = {}
  /\ key = [o \in Orders |-> "none"]
  /\ seen = [o \in Orders |-> "none"]
  /\ latest = [r \in Requests |-> None]
  /\ enabled \in BOOLEAN
  /\ job = None

Request(o) == o[1]
Role(o) == o[2]
Attempt(o) == o[3]
Sent == {o \in Orders : book[o] # "none"}
IsOpen(o) == book[o] \in Open

Entry(o) == <<Request(o), "entry", Attempt(o)>>
Family(o) == {<<Request(o), role, Attempt(o)>> : role \in Roles}
IsBracket(o) == Type[Request(o)] = "bracket"

(***************************************************************************)
(* What an order is built with                                             *)
(***************************************************************************)

\* Mutant: the entry of a bracket is transmitted at once.
TransmitsAtOnce(o) ==
  IF IsBracket(o) THEN Role(o) # "takeProfit" ELSE Transmit[Request(o)]

\* order.transmit: of a bracket only the stop loss, which releases all three.
Transmits(o) ==
  /\ Transmit[Request(o)]
  /\ IsBracket(o) => Role(o) = "stopLoss"

\* Mutant: the legs of a bracket are independent orders.
ChildAlone(o) == FALSE

\* order.parentId and ocaGroup of the two exits.
IsChild(o) == Role(o) # "entry"

\* Mutant: no order carries the client order id.
RefForgotten(o) == FALSE

\* order.orderRef: the auction types return before it is set.
HasRef(o) == Type[Request(o)] # "auction"

(***************************************************************************)
(* Interactive Brokers                                                     *)
(***************************************************************************)

Children(o) == {c \in Family(o) : IsChild(c) /\ c # o}

\* A child works at the exchange once its parent is filled.
Active(o) == IsChild(o) => book[Entry(o)] = "filled"

\* An entry that ends without a fill takes its children with it; an exit that is
\* filled cancels the rest of its OCA group.
Fill(o) ==
  /\ book[o] \in {"working", "cancelling"} /\ Active(o)
  /\ book' = [c \in Orders |->
       IF c = o THEN "filled"
       ELSE IF IsChild(o) /\ c \in Children(o) /\ IsOpen(c) THEN "cancelled" ELSE book[c]]
  /\ UNCHANGED shown

End(o) ==
  book' = [c \in Orders |->
    IF c = o \/ (~IsChild(o) /\ c \in Children(o) /\ IsOpen(c)) THEN "cancelled" ELSE book[c]]

\* A rejection, a cancellation that was asked for, or one by hand.
CancelAtIB(o) ==
  /\ book[o] \in {"working", "cancelling"}
  /\ End(o)
  /\ UNCHANGED shown

\* What was never transmitted may vanish, from sight too.
Discard(o) ==
  /\ book[o] = "held"
  /\ End(o)
  /\ \E lost \in BOOLEAN : shown' = IF lost THEN shown \ {o} ELSE shown

BrokerMoves ==
  /\ \E o \in Sent : Fill(o) \/ CancelAtIB(o) \/ Discard(o)
  /\ UNCHANGED <<registry, enabled, job>>

\* IB takes order o, or refuses it, as it does a child without a parent.
Receive(o) ==
  /\ \/ /\ IsChild(o) => book[Entry(o)] \notin {"none", "cancelled"}
        /\ book' = [c \in Orders |->
             IF c \in Family(o) /\ (c = o \/ book[c] = "held")
               THEN IF Transmits(o) THEN "working" ELSE "held"
               ELSE book[c]]
     \/ book' = [book EXCEPT ![o] = "cancelled"]
  /\ shown' = shown \cup {o}

(***************************************************************************)
(* Jobs                                                                    *)
(***************************************************************************)

Stage(s) == job' = [job EXCEPT !.stage = s]

Placing(stage) == job # None /\ job.kind = "place" /\ job.stage = stage
Cancelling == job # None /\ job.kind = "cancel"

\* The connection breaks, or IB refuses the contract or the quote.
JobFails ==
  /\ job # None
  /\ job' = None
  /\ UNCHANGED <<ib, registry, enabled>>

\* The caller of the job behind this one is cancelled while it disconnects the
\* client that this one uses: the service has no client then.
LoseClient ==
  /\ job # None
  /\ job' = [job EXCEPT !.loose = TRUE]
  /\ UNCHANGED <<ib, registry, enabled>>

(***************************************************************************)
(* place_order                                                             *)
(***************************************************************************)

\* Mutant: only the registry of this process is asked.
ExistsHere(r) == latest[r] # None

\* By the registry, or as _find_trade_by_client_order_id finds it at IB.
Exists(r) == latest[r] # None \/ \E o \in shown : Request(o) = r /\ HasRef(o)

\* The attempts of a request are counted.
IsNext(r, a) ==
  /\ <<r, "entry", a>> \notin Sent
  /\ \A b \in 1 .. a - 1 : <<r, "entry", b>> \in Sent

\* control.json lets orders through and there is none for this clientOrderId: the
\* contract is resolved and the order previewed.
PlaceBegins(r) ==
  /\ job = None
  /\ enabled /\ ~Exists(r)
  /\ \E a \in Attempts :
       /\ IsNext(r, a)
       /\ job' = [kind |-> "place", by |-> "tool", request |-> r, attempt |-> a,
                  stage |-> "checked", loose |-> FALSE]
  /\ UNCHANGED <<ib, registry, enabled>>

Leg(role) == <<job.request, role, job.attempt>>

\* Mutant: the status as IB has it.
ToldAsIs(status) == status

\* What a Trade says of an order that is not done does not matter further.
Told(status) == IF status \in Done THEN status ELSE "open"

\* register
Register(os, name, last) ==
  /\ key' = [o \in Orders |-> IF o \in os THEN name ELSE key[o]]
  /\ seen' = [o \in Orders |-> IF o \in os THEN Told(book'[o]) ELSE seen[o]]
  /\ latest' = [latest EXCEPT ![job.request] = last]

\* At once, when IB has not given a permId yet.
PlaceSimple ==
  /\ Placing("checked") /\ Type[job.request] # "bracket"
  /\ Receive(Leg("entry"))
  /\ Register({Leg("entry")}, "orderId", Leg("entry"))
  /\ Stage("sent")
  /\ UNCHANGED enabled

\* After the wait the Trade has the status that IB reported.
PlaceDone ==
  /\ Placing("sent") /\ Type[job.request] # "bracket"
  /\ seen' = [seen EXCEPT ![Leg("entry")] = Told(book[Leg("entry")])]
  /\ job' = None
  /\ UNCHANGED <<ib, key, latest, enabled>>

PlaceLeg(from, role, to) ==
  /\ Placing(from) /\ Type[job.request] = "bracket"
  /\ Receive(Leg(role))
  /\ Stage(to)
  /\ UNCHANGED <<registry, enabled>>

PlaceEntry == PlaceLeg("checked", "entry", "entry")
PlaceTakeProfit == PlaceLeg("entry", "takeProfit", "takeProfit")
PlaceStopLoss == PlaceLeg("takeProfit", "stopLoss", "sent")

\* The legs are registered one after the other, with or without a permId by now:
\* all have the same orderRef, and the index ends with the last.  One name stands for
\* whichever kind of id each leg got.
BracketDone ==
  /\ Placing("sent") /\ Type[job.request] = "bracket"
  /\ UNCHANGED <<ib, enabled>>
  /\ \E name \in Names : Register({Leg(role) : role \in Roles}, name, Leg("stopLoss"))
  /\ job' = None

PlaceStep ==
  \/ PlaceSimple \/ PlaceDone
  \/ PlaceEntry \/ PlaceTakeProfit \/ PlaceStopLoss \/ BracketDone

(***************************************************************************)
(* cancel_order_set and cancel_order                                       *)
(***************************************************************************)

CancelJob(os, name, by) ==
  [kind |-> "cancel", by |-> by, name |-> name, todo |-> os, all |-> os, waits |-> None,
   found |-> FALSE, rejected |-> FALSE, loose |-> FALSE]

\* A tool names one order, or the legs of a bracket.
CancelBegins(os, name) ==
  /\ job = None
  /\ job' = CancelJob(os, name, "tool")
  /\ UNCHANGED <<ib, registry, enabled>>

OrderSets == {{o} : o \in Sent} \cup {Family(o) \cap Sent : o \in Sent}

\* The registry's Trade, or what IB shows.  A completed order has lost its orderId,
\* if it was completed before this connection was made.
Status(o) == IF key[o] = job.name THEN seen[o] ELSE book[o]
Found(o) == key[o] = job.name \/ o \in shown
Missed(o) ==
  key[o] # job.name /\ (o \notin shown \/ (~IsOpen(o) /\ job.name = "orderId"))

CancelMissing(o) ==
  /\ Missed(o)
  /\ job' = [job EXCEPT !.todo = @ \ {o}]
  /\ UNCHANGED ib

CancelNothing(o) ==
  /\ Found(o) /\ Status(o) \in Done
  /\ job' = [job EXCEPT !.todo = @ \ {o}, !.found = TRUE]
  /\ UNCHANGED ib

\* The request goes out; or it does not, or comes too late.
CancelRequest(o) ==
  /\ Found(o) /\ Status(o) \notin Done
  /\ job' = [job EXCEPT !.todo = @ \ {o}, !.found = TRUE, !.waits = o]
  /\ \/ book[o] = "working" /\ book' = [book EXCEPT ![o] = "cancelling"]
     \/ book[o] = "held" /\ End(o)
     \/ UNCHANGED book
  /\ UNCHANGED shown

CancelNext ==
  /\ Cancelling /\ job.waits = None
  /\ \E o \in job.todo : CancelMissing(o) \/ CancelNothing(o) \/ CancelRequest(o)
  /\ UNCHANGED <<registry, enabled>>

\* Mutant: an exception is logged and forgotten.
CancelOutcomeLogged ==
  /\ Cancelling /\ job.waits # None
  /\ \E raised \in BOOLEAN :
       job' = [job EXCEPT !.waits = None,
                          !.rejected = @ \/ (~raised /\ Status(job.waits) # "cancelled")]
  /\ UNCHANGED <<ib, registry, enabled>>

\* The order is CANCELLED if its Trade says so after the wait, otherwise, or after
\* an exception, REJECTED.
CancelOutcome ==
  /\ Cancelling /\ job.waits # None
  /\ \E raised \in BOOLEAN :
       job' = [job EXCEPT !.waits = None,
                          !.rejected = @ \/ raised \/ Status(job.waits) # "cancelled"]
  /\ UNCHANGED <<ib, registry, enabled>>

Result ==
  IF ~job.found THEN "NOT_FOUND" ELSE IF job.rejected THEN "REJECTED" ELSE "CANCELLED"

CancelDone ==
  /\ Cancelling /\ job.waits = None /\ job.todo = {}
  /\ job' = None
  /\ UNCHANGED <<ib, registry, enabled>>

CancelStep == CancelNext \/ CancelOutcome \/ CancelDone

\* The process dies.  The registry was in memory; IB goes on.
RestartOrders ==
  /\ key' = [o \in Orders |-> "none"]
  /\ seen' = [o \in Orders |-> "none"]
  /\ latest' = [r \in Requests |-> None]
  /\ job' = None
  /\ shown' = IF KeepsClientId THEN shown ELSE {}
  /\ UNCHANGED <<book, enabled>>

\* control.json is written by others.
SetControl ==
  /\ enabled' = ~enabled
  /\ UNCHANGED <<ib, registry, job>>

OrdersNext ==
  \/ \E r \in Requests : PlaceBegins(r)
  \/ \E os \in OrderSets, name \in Names : CancelBegins(os, name)
  \/ PlaceStep \/ CancelStep \/ JobFails
  \/ BrokerMoves \/ SetControl \/ RestartOrders

OrdersSpec == OrdersInit /\ [][OrdersNext]_ordersVars

(***************************************************************************)
(* Properties                                                              *)
(***************************************************************************)

OrdersTypeOK ==
  /\ book \in [Orders -> Statuses] /\ shown \subseteq Orders
  /\ key \in [Orders -> Names \cup {"none"}]
  /\ seen \in [Orders -> Trades]
  /\ latest \in [Requests -> Orders \cup {None}]
  /\ enabled \in BOOLEAN
  /\ job \in PlaceJobs \cup CancelJobs \cup {None}

\* The entry of a bracket works, or is filled, only once its exits have been sent:
\* wherever the placement breaks off, no position is opened without them.
BracketGoesOutWhole ==
  \A o \in Sent :
    (IsBracket(o) /\ ~IsChild(o) /\ book[o] \in {"working", "filled"})
      => \A c \in Children(o) : c \in Sent

\* An exit is filled only after its entry, and only one of the two.
ExitsMatchEntry ==
  \A o \in Sent :
    (IsBracket(o) /\ Role(o) # "entry" /\ book[o] = "filled")
      => /\ book[Entry(o)] = "filled"
         /\ \A c \in Family(o) : Role(c) # "entry" /\ c # o => book[c] # "filled"

\* Whatever breaks off, restarts and is retried, a clientOrderId has one order, or
\* one bracket, that can be or was filled.  Of the auction types this holds until
\* a restart only.
Alive(o) == book[o] \in Open \cup {"filled"}
NoDuplicateOrder ==
  KeepsClientId =>
    \A o, p \in Sent :
      (Request(o) = Request(p) /\ Role(o) = Role(p) /\ HasRef(o) /\ Alive(o) /\ Alive(p))
        => o = p

\* As long as a cancellation may report its set as CANCELLED, the orders it is
\* through with are not open, as far as IB shows them.
CancelledSetIsDone ==
  (Cancelling /\ Result = "CANCELLED")
    => \A o \in job.all \ (job.todo \cup {job.waits}) : o \in shown => ~IsOpen(o)

\* Retries, restarts and what IB does meanwhile add up to one order, or one bracket,
\* for a client order id that its orders carry: an attempt is made only while no other
\* is open or was filled, and a fill is for good.
Keyed == {r \in Requests : Type[r] # "auction"}
EntryOf(r, a) == book[<<r, "entry", a>>]
Goes(r, a) == EntryOf(r, a) # "none" /\ \E role \in Roles : book[<<r, role, a>>] \in Open
Ledger == INSTANCE OrderLedger WITH
  Keys <- Keyed, Ids <- Attempts,
  open <- [r \in Keyed |-> {a \in Attempts : Goes(r, a)}],
  filled <- [r \in Keyed |-> {a \in Attempts : EntryOf(r, a) = "filled" /\ ~Goes(r, a)}]
ImplementsLedger == Ledger!LedgerSpec
=============================================================================
