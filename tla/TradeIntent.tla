---------------------------- MODULE TradeIntent ----------------------------
(***************************************************************************)
(* One persisted trade intent (trade_core/persistence.py), the tools of    *)
(* mcp_server/main.py that submit, reconcile and cancel it, the worker     *)
(* thread that runs their broker calls (services.py) and the order         *)
(* functions of ibkr_core/orders.py that those calls execute.              *)
(*                                                                         *)
(* A tool runs on the event loop: it reads the intent once and then awaits *)
(* one broker call per row of that snapshot.  A single worker thread runs  *)
(* the calls of all tools.  A tool gives a call up that runs too long; the *)
(* worker finishes it all the same.                                        *)
(*                                                                         *)
(* Every call begins with a new connection (get_client never recognises    *)
(* the client it has), made under a lock and by the worker itself: calls   *)
(* wait in the order they came, and none is handed to the worker before    *)
(* the one in front of it is through.  So a Trade object is brought up to  *)
(* date only while the call that placed the order runs; what the registry  *)
(* holds afterwards is the status seen then.                               *)
(*                                                                         *)
(* The worker's result and the row the tool writes from it are one step:   *)
(* nothing reads the rows in between that could not as well have read them *)
(* before.                                                                 *)
(***************************************************************************)
EXTENDS Naturals, Sequences, FiniteSetsExt

CONSTANTS
  Rows,             \* sequence_no of the basket's orders
  Calls,            \* slots for concurrent tool calls
  KeepsClientId,    \* after a restart IB shows the orders placed before it
  MaxApprovals,     \* bound on the approvals given for this intent
  None              \* "no call", "no broker call"

Kinds == {"place", "status", "cancel"}
Stages == {"started", "checked", "placed", "requested"}

ASSUME RowAssumption == Rows \subseteq Nat
ASSUME BoundAssumption == MaxApprovals \in Nat
ASSUME NoneAssumption ==
  /\ None \notin Calls
  /\ None \notin [kind : Kinds, row : Rows, call : Calls \cup {None}, stage : Stages]

VARIABLES
  \* tables trade_intent and intent_order
  row,              \* row[r]: the status of row r
  orderId,          \* orderId[r]: the row knows its broker order
  approval,         \* approval_status of the intent
  intent,           \* status of the intent
  \* approvals and control.json, as far as they matter here
  mode,             \* MCP_ORDER_APPROVAL_MODE
  tokens,           \* approved and unused trade_intent approvals
  given,            \* how many were ever given
  enabled,          \* control.json lets orders through
  \* the event loop
  pc,               \* pc[c]: "idle" or what call c does
  todo,             \* todo[c]: the rows of its snapshot c has still to handle
  \* the worker thread
  queue,            \* the broker calls that wait for the client, first come first
  op,               \* the one it runs
  registry,         \* registry[r]: the status of the Trade object it holds for r
  \* Interactive Brokers
  broker,           \* broker[r]: the order with the clientOrderId of r
  placed            \* placed[r]: how many orders were placed for r

tables == <<row, orderId, approval, intent>>
gates == <<mode, tokens, given, enabled>>
loop == <<pc, todo>>
worker == <<queue, op, registry>>
ib == <<broker, placed>>
vars == <<tables, gates, loop, worker, ib>>

RowStatuses == {"PLANNED", "SUBMITTED", "PARTIALLY_FILLED", "FILLED",
                "CANCELLED", "REJECTED", "FAILED", "SIMULATED"}
IntentStatuses == {"PENDING_APPROVAL", "APPROVED", "SUBMITTED", "PARTIALLY_FILLED",
                   "FILLED", "CANCELLED", "FAILED", "SIMULATED"}
ToolOf == [submit |-> "place", reconcile |-> "status", cancel |-> "cancel"]

\* An order at IB; the last three never change again.
Dead == {"filled", "cancelled", "partcancelled"}
Open == {"working", "partial", "cancelling"}
Brokerage == {"none"} \cup Open \cup Dead

(***************************************************************************)
(* Statuses                                                                *)
(***************************************************************************)

\* _trade_to_order_status: a fill with a remainder hides everything else.
Mapped(s) ==
  CASE s = "working" -> "SUBMITTED"
    [] s \in {"partial", "partcancelled"} -> "PARTIALLY_FILLED"
    [] s = "cancelling" -> "PENDING_CANCEL"
    [] s = "filled" -> "FILLED"
    [] s = "cancelled" -> "CANCELLED"

\* Mutant: a status without a mapping is written as it is.
FromStatusRaw(s) == Mapped(s)

\* _normalize_order_status(order_status = ...)
FromStatus(s) == IF Mapped(s) = "PENDING_CANCEL" THEN "FAILED" ELSE Mapped(s)

\* place_order answers REJECTED for a cancelled order, and the row follows it.
FromPlacement(s) == IF Mapped(s) = "CANCELLED" THEN "REJECTED" ELSE FromStatus(s)

\* Mutant: a request that is under way counts as done.
FromCancelOptimistic(s) ==
  IF s \in {"cancelling", "cancelled", "partcancelled"} THEN "CANCELLED" ELSE "FAILED"

\* cancel_order, from the raw status it ends with; all but CANCELLED is FAILED.
FromCancel(s) == IF s \in {"cancelled", "partcancelled"} THEN "CANCELLED" ELSE "FAILED"

\* What statuses of rows add up to.
Total(S) ==
  CASE S = {} -> "APPROVED"
    [] S = {"SIMULATED"} -> "SIMULATED"
    [] S = {"FILLED"} -> "FILLED"
    [] S = {"CANCELLED"} -> "CANCELLED"
    [] "PARTIALLY_FILLED" \in S -> "PARTIALLY_FILLED"
    [] "PARTIALLY_FILLED" \notin S /\ "SUBMITTED" \in S -> "SUBMITTED"
    [] S \cap {"PARTIALLY_FILLED", "SUBMITTED"} = {} /\ S \cap {"REJECTED", "FAILED"} # {} ->
         IF "FILLED" \in S THEN "PARTIALLY_FILLED" ELSE "FAILED"
    [] OTHER -> "APPROVED"

\* Mutant: the rows that failed are left out of the count.
AggregateOfTheRest(rows, appr) ==
  LET S == {rows[r] : r \in Rows} IN
  IF S # {} /\ appr = "pending" THEN "PENDING_APPROVAL" ELSE Total(S \ {"REJECTED", "FAILED"})

\* _aggregate_intent_status
Aggregate(rows, appr) ==
  LET S == {rows[r] : r \in Rows} IN
  IF S # {} /\ appr = "pending" THEN "PENDING_APPROVAL" ELSE Total(S)

(***************************************************************************)
(* What the steps have in common                                           *)
(***************************************************************************)

Init ==
  /\ mode \in {"telegram", "yolo"}
  /\ row = [r \in Rows |-> "PLANNED"]
  /\ orderId = [r \in Rows |-> FALSE]
  /\ approval = IF mode = "telegram" THEN "pending" ELSE "approved"
  /\ intent = Aggregate(row, approval)
  /\ tokens = 0 /\ given = 0 /\ enabled \in BOOLEAN
  /\ pc = [c \in Calls |-> "idle"]
  /\ todo = [c \in Calls |-> {}]
  /\ queue = << >> /\ op = None
  /\ registry = [r \in Rows |-> "none"]
  /\ broker = [r \in Rows |-> "none"]
  /\ placed = [r \in Rows |-> 0]

\* Every write of a row or of the approval recomputes the intent's status.
Record(r, s, known) ==
  /\ row' = [row EXCEPT ![r] = s]
  /\ orderId' = [orderId EXCEPT ![r] = @ \/ known]
  /\ intent' = Aggregate(row', approval)
  /\ UNCHANGED approval

SetApproval(s) ==
  /\ approval' = s
  /\ intent' = Aggregate(row, s)
  /\ UNCHANGED <<row, orderId>>

\* A tool goes on to the next row of its snapshot, or returns.
Continue(c, tool, left, q) ==
  /\ pc' = [pc EXCEPT ![c] = IF left = {} THEN "idle" ELSE tool]
  /\ todo' = [todo EXCEPT ![c] = left]
  /\ queue' = IF left = {} THEN q
              ELSE Append(q, [kind |-> ToolOf[tool], row |-> Min(left), call |-> c])

\* The worker is done with its call: the tool that still waits takes the
\* result (a write to the tables) and goes on.
Answer(result) ==
  /\ op' = None
  /\ IF op.call = None
       THEN UNCHANGED <<tables, loop, queue>>
       ELSE /\ result
            /\ Continue(op.call, pc[op.call], todo[op.call] \ {op.row}, queue)

NoRecord == UNCHANGED tables

(***************************************************************************)
(* The tools                                                               *)
(***************************************************************************)

Planned == {r \in Rows : row[r] = "PLANNED"}
Active == {r \in Rows : orderId[r] /\ row[r] \in {"SUBMITTED", "PARTIALLY_FILLED"}}

RequestIntentApproval ==
  /\ SetApproval(IF mode = "telegram" THEN "pending" ELSE "approved")
  /\ UNCHANGED <<gates, loop, worker, ib>>

\* submit_trade_intent up to its first await.
Submit(c) ==
  /\ pc[c] = "idle"
  /\ IF mode = "telegram"
       THEN tokens > 0 /\ tokens' = tokens - 1 /\ SetApproval("used")
       ELSE SetApproval(approval) /\ UNCHANGED tokens
  /\ Continue(c, "submit", Planned, queue)
  /\ UNCHANGED <<mode, given, enabled, op, registry, ib>>

Reconcile(c) ==
  /\ pc[c] = "idle"
  /\ Continue(c, "reconcile", Active, queue)
  /\ UNCHANGED <<tables, gates, op, registry, ib>>

Cancel(c) ==
  /\ pc[c] = "idle"
  /\ Continue(c, "cancel", Active, queue)
  /\ UNCHANGED <<tables, gates, op, registry, ib>>

\* wait_for gives up on a call that the worker runs; the worker does not.  The
\* tool records what it made of the error and goes on.  (A call that still waits
\* for the client has no timeout.)
Timeout(c) ==
  /\ op # None /\ op.call = c
  /\ \/ pc[c] = "submit" /\ Record(op.row, "REJECTED", FALSE)
     \/ pc[c] = "cancel" /\ Record(op.row, "FAILED", FALSE)
     \/ pc[c] = "reconcile" /\ NoRecord
  /\ Continue(c, pc[c], todo[c] \ {op.row}, queue)
  /\ op' = [op EXCEPT !.call = None]
  /\ UNCHANGED <<gates, registry, ib>>

\* The MCP client cancels the request: the tool is left at its await and records
\* nothing more.  Its call is not handed in any more, or goes on for nobody.
ClientCancels(c) ==
  /\ \/ /\ op # None /\ op.call = c
        /\ op' = [op EXCEPT !.call = None]
        /\ UNCHANGED queue
     \/ /\ \E i \in 1 .. Len(queue) :
             /\ queue[i].call = c
             /\ queue' = SubSeq(queue, 1, i - 1) \o SubSeq(queue, i + 1, Len(queue))
        /\ UNCHANGED op
  /\ pc' = [pc EXCEPT ![c] = "idle"]
  /\ todo' = [todo EXCEPT ![c] = {}]
  /\ UNCHANGED <<tables, gates, registry, ib>>

(***************************************************************************)
(* The worker                                                              *)
(***************************************************************************)

Running(kind, stage) == op # None /\ op.kind = kind /\ op.stage = stage

Start ==
  /\ op = None /\ queue # << >>
  /\ op' = [kind |-> Head(queue).kind, row |-> Head(queue).row,
            call |-> Head(queue).call, stage |-> "started"]
  /\ queue' = Tail(queue)
  /\ UNCHANGED <<tables, gates, loop, registry, ib>>

\* place_order: control.json suppresses the order, ...
PlaceSimulated ==
  /\ Running("place", "started") /\ ~enabled
  /\ Answer(Record(op.row, "SIMULATED", FALSE))
  /\ UNCHANGED <<gates, registry, ib>>

\* Mutant: only the registry of this process is asked.
ExistingInRegistry(r) == registry[r] # "none"

Existing(r) == registry[r] # "none" \/ (KeepsClientId /\ broker[r] # "none")

Seen(r) == IF registry[r] # "none" THEN registry[r] ELSE broker[r]

\* ... an order with this clientOrderId exists already, ...
PlaceExisting ==
  /\ Running("place", "started") /\ enabled /\ Existing(op.row)
  /\ Answer(Record(op.row, FromPlacement(Seen(op.row)), TRUE))
  /\ UNCHANGED <<gates, registry, ib>>

\* Mutant: the one that exists is not looked for.
PlaceCheckUnasked ==
  /\ Running("place", "started") /\ enabled
  /\ op' = [op EXCEPT !.stage = "checked"]
  /\ UNCHANGED <<tables, gates, loop, queue, registry, ib>>

\* ... or it goes on to resolve and preview the contract, which takes a while.
PlaceCheck ==
  /\ Running("place", "started") /\ enabled /\ ~Existing(op.row)
  /\ op' = [op EXCEPT !.stage = "checked"]
  /\ UNCHANGED <<tables, gates, loop, queue, registry, ib>>

PlaceOrder ==
  /\ Running("place", "checked")
  /\ broker' = [broker EXCEPT ![op.row] = "working"]
  /\ placed' = [placed EXCEPT ![op.row] = @ + 1]
  /\ registry' = [registry EXCEPT ![op.row] = "working"]
  /\ op' = [op EXCEPT !.stage = "placed"]
  /\ UNCHANGED <<tables, gates, loop, queue>>

\* After the short wait the Trade object has the status that IB reported.
PlaceDone ==
  /\ Running("place", "placed")
  /\ registry' = [registry EXCEPT ![op.row] = broker[op.row]]
  /\ Answer(Record(op.row, FromPlacement(broker[op.row]), TRUE))
  /\ UNCHANGED <<gates, ib>>

\* Validation fails, the connection is lost, IB refuses the contract.
PlaceRefused ==
  /\ Running("place", "started") \/ Running("place", "checked")
  /\ Answer(Record(op.row, "REJECTED", FALSE))
  /\ UNCHANGED <<gates, registry, ib>>

\* get_order_status: the registry's Trade first, then what IB shows.
StatusDone ==
  /\ Running("status", "started") /\ Existing(op.row)
  /\ Answer(Record(op.row, FromStatus(Seen(op.row)), TRUE))
  /\ UNCHANGED <<gates, registry, ib>>

\* The order is not found, or the call fails: the row is left alone.
StatusFails ==
  /\ Running("status", "started")
  /\ Answer(NoRecord)
  /\ UNCHANGED <<gates, registry, ib>>

\* cancel_order of an order that is done, as far as its Trade says.
CancelNothing ==
  /\ Running("cancel", "started") /\ Existing(op.row) /\ Seen(op.row) \in Dead
  /\ Answer(Record(op.row, FromCancel(Seen(op.row)), FALSE))
  /\ UNCHANGED <<gates, registry, ib>>

\* The request goes out; an order without fills shows PendingCancel.
CancelRequest ==
  /\ Running("cancel", "started") /\ Existing(op.row) /\ Seen(op.row) \notin Dead
  /\ op' = [op EXCEPT !.stage = "requested"]
  /\ broker' = [broker EXCEPT ![op.row] = IF @ = "working" THEN "cancelling" ELSE @]
  /\ UNCHANGED <<tables, gates, loop, queue, registry, placed>>

CancelDone ==
  /\ Running("cancel", "requested")
  /\ Answer(Record(op.row, FromCancel(Seen(op.row)), FALSE))
  /\ UNCHANGED <<gates, registry, ib>>

\* NOT_FOUND, or an exception: recorded as a failure either way.
CancelFails ==
  /\ Running("cancel", "started") \/ Running("cancel", "requested")
  /\ Answer(Record(op.row, "FAILED", FALSE))
  /\ UNCHANGED <<gates, registry, ib>>

WorkerStep ==
  \/ Start
  \/ PlaceSimulated \/ PlaceExisting \/ PlaceCheck \/ PlaceOrder \/ PlaceDone
  \/ PlaceRefused
  \/ StatusDone \/ StatusFails
  \/ CancelNothing \/ CancelRequest \/ CancelDone \/ CancelFails

(***************************************************************************)
(* Everybody else                                                          *)
(***************************************************************************)

BrokerMoves ==
  {<<"working", "partial">>, <<"working", "filled">>, <<"working", "cancelled">>,
   <<"partial", "filled">>, <<"partial", "partcancelled">>,
   <<"cancelling", "cancelled">>, <<"cancelling", "partial">>, <<"cancelling", "filled">>}

BrokerStep(r) ==
  /\ \E m \in BrokerMoves : broker[r] = m[1] /\ broker' = [broker EXCEPT ![r] = m[2]]
  /\ UNCHANGED <<tables, gates, loop, worker, placed>>

\* The operator approves the intent, or an approval runs out unused.
Approve ==
  /\ mode = "telegram" /\ given < MaxApprovals
  /\ given' = given + 1 /\ tokens' = tokens + 1
  /\ UNCHANGED <<tables, mode, enabled, loop, worker, ib>>

Expire ==
  /\ tokens > 0 /\ tokens' = tokens - 1
  /\ UNCHANGED <<tables, mode, given, enabled, loop, worker, ib>>

Toggle ==
  /\ enabled' = ~enabled
  /\ UNCHANGED <<tables, mode, tokens, given, loop, worker, ib>>

Restart ==
  /\ pc' = [c \in Calls |-> "idle"]
  /\ todo' = [c \in Calls |-> {}]
  /\ queue' = << >> /\ op' = None
  /\ registry' = [r \in Rows |-> "none"]
  /\ UNCHANGED <<tables, gates, ib>>

ToolStep(c) == Submit(c) \/ Reconcile(c) \/ Cancel(c) \/ Timeout(c) \/ ClientCancels(c)

Next ==
  \/ \E c \in Calls : ToolStep(c)
  \/ RequestIntentApproval
  \/ WorkerStep
  \/ \E r \in Rows : BrokerStep(r)
  \/ Approve \/ Expire \/ Toggle \/ Restart

Spec == Init /\ [][Next]_vars

(***************************************************************************)
(* Properties                                                              *)
(***************************************************************************)

TablesOK ==
  /\ row \in [Rows -> RowStatuses]
  /\ orderId \in [Rows -> BOOLEAN]
  /\ approval \in {"pending", "approved", "used"}
  /\ intent \in IntentStatuses

GatesOK ==
  /\ mode \in {"telegram", "yolo"}
  /\ given \in 0 .. MaxApprovals /\ tokens \in 0 .. given
  /\ enabled \in BOOLEAN

CallsOK ==
  /\ pc \in [Calls -> {"idle"} \cup DOMAIN ToolOf]
  /\ todo \in [Calls -> SUBSET Rows]
  /\ \A c \in Calls : pc[c] = "idle" => todo[c] = {}
  /\ queue \in Seq([kind : Kinds, row : Rows, call : Calls])

WorkerOK ==
  /\ op \in {None} \cup
       [kind : Kinds, row : Rows, call : Calls \cup {None}, stage : Stages]
  /\ registry \in [Rows -> Brokerage]

BrokerOK ==
  /\ broker \in [Rows -> Brokerage]
  /\ placed \in [Rows -> Nat]

\* The types of the variables.
TypeOK == TablesOK /\ GatesOK /\ CallsOK /\ WorkerOK /\ BrokerOK

\* clientOrderId "is used as the idempotency key" (main.py:871): whatever is
\* retried, given up, resubmitted or restarted, a row gets one order at most.
NoDuplicateOrder == KeepsClientId => \A r \in Rows : placed[r] <= 1

\* A row says FILLED or CANCELLED only of an order that is.
FinalClaimsAreTrue ==
  \A r \in Rows :
    /\ row[r] = "FILLED" => broker[r] = "filled"
    /\ row[r] = "CANCELLED" => broker[r] \in {"cancelled", "partcancelled"}

\* An intent says FILLED or CANCELLED only if every order of its basket is, also those
\* whose rows were recorded as failed, and PARTIALLY_FILLED only if there was a fill;
\* although no row was read from the broker when another was.
Filled == {"filled", "partial", "partcancelled"}
IntentClaimsAreTrue ==
  /\ intent = "FILLED" => \A r \in Rows : broker[r] = "filled"
  /\ intent = "CANCELLED" => \A r \in Rows : broker[r] \in {"cancelled", "partcancelled"}
  /\ intent = "PARTIALLY_FILLED" => \E r \in Rows : broker[r] \in Filled

\* cancel_trade_intent is to "cancel all active broker orders associated with a
\* trade intent" (main.py:1255), so when nothing is in flight the open order of a
\* row that was submitted must be one that it would cancel.
OpenOrdersAreActive ==
  ((\A c \in Calls : pc[c] = "idle") /\ op = None)
    => \A r \in Rows : (row[r] # "PLANNED" /\ broker[r] \in Open) => r \in Active

\* Whatever tools, time-outs and restarts do, the orders of a row are those of a client
\* order id: one is placed only while no other is open or was filled, if only in part.
Orders(r, statuses) == IF broker[r] \in statuses THEN {placed[r]} ELSE {}
Ledger == INSTANCE OrderLedger WITH
  Keys <- Rows, Ids <- Nat,
  open <- [r \in Rows |-> Orders(r, Open)],
  filled <- [r \in Rows |-> Orders(r, {"filled", "partcancelled"})]
ImplementsLedger == Ledger!LedgerSpec
=============================================================================
