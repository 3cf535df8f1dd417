------------------------- MODULE TradeIntentProofs -------------------------
(***************************************************************************)
(* What holds of a trade intent for every basket and any number of         *)
(* concurrent tool calls.                                                  *)
(***************************************************************************)
EXTENDS TradeIntent, WellFoundedInduction, SequenceTheorems, TLAPS

(***************************************************************************)
(* The next row of a snapshot is one of its rows.                          *)
(***************************************************************************)

LEMMA LeastExists ==
  ASSUME NEW S \in SUBSET Nat, S # {}
  PROVE  \E x \in S : \A y \in S : x =< y
<1>1. PICK x \in S : \A y \in S : ~ (<<y, x>> \in OpToRel(<, Nat))
  BY NatLessThanWellFounded, WFMin, Zenon
<1>2. \A y \in S : ~ (y < x)
  BY <1>1, Zenon DEF OpToRel
<1>3. QED BY <1>2

LEMMA MinIsRow ==
  ASSUME NEW S \in SUBSET Rows, S # {}
  PROVE  Min(S) \in S
<1>1. \E x \in S : \A y \in S : x =< y
  BY LeastExists, RowAssumption
<1>2. QED BY <1>1 DEF Min

(***************************************************************************)
(* Types                                                                   *)
(***************************************************************************)

LEMMA AggregateType ==
  ASSUME NEW rows, NEW appr
  PROVE  Aggregate(rows, appr) \in IntentStatuses
BY DEF Aggregate, Total, IntentStatuses

LEMMA StatusTypes ==
  ASSUME NEW s \in Brokerage, s # "none"
  PROVE  /\ FromPlacement(s) \in RowStatuses
         /\ FromStatus(s) \in RowStatuses
         /\ FromCancel(s) \in RowStatuses
BY DEF Brokerage, Open, Dead, FromPlacement, FromStatus, FromCancel, Mapped, RowStatuses

LEMMA RecordType ==
  ASSUME TablesOK, NEW r \in Rows, NEW s \in RowStatuses, NEW known \in BOOLEAN,
         Record(r, s, known)
  PROVE  TablesOK'
BY AggregateType DEF TablesOK, Record

LEMMA SetApprovalType ==
  ASSUME TablesOK, NEW s \in {"pending", "approved", "used"}, SetApproval(s)
  PROVE  TablesOK'
BY AggregateType DEF TablesOK, SetApproval

LEMMA ContinueType ==
  ASSUME CallsOK, NEW c \in Calls, NEW tool \in DOMAIN ToolOf, NEW left \in SUBSET Rows,
         NEW q \in Seq([kind : Kinds, row : Rows, call : Calls]),
         Continue(c, tool, left, q)
  PROVE  CallsOK'
<1>1. left # {} => Min(left) \in Rows
  BY MinIsRow
<1>2. ToolOf[tool] \in Kinds
  BY DEF ToolOf, Kinds
<1>3. tool # "idle" /\ tool \in {"idle"} \cup DOMAIN ToolOf
  BY DEF ToolOf
<1>4. queue' \in Seq([kind : Kinds, row : Rows, call : Calls])
  <2>1. CASE left = {}
    BY <2>1 DEF Continue
  <2>2. CASE left # {}
    <3>1. [kind |-> ToolOf[tool], row |-> Min(left), call |-> c]
            \in [kind : Kinds, row : Rows, call : Calls]
      BY <1>1, <1>2, <2>2
    <3>2. queue' = Append(q, [kind |-> ToolOf[tool], row |-> Min(left), call |-> c])
      BY <2>2 DEF Continue
    <3>3. QED BY <3>1, <3>2
  <2>3. QED BY <2>1, <2>2
<1>5. pc' \in [Calls -> {"idle"} \cup DOMAIN ToolOf] /\ todo' \in [Calls -> SUBSET Rows]
  BY <1>3 DEF CallsOK, Continue
<1>6. \A d \in Calls : pc'[d] = "idle" => todo'[d] = {}
  BY <1>3 DEF CallsOK, Continue
<1>7. QED BY <1>4, <1>5, <1>6 DEF CallsOK

\* What the end of a broker call does to the loop.
LEMMA AnswerType ==
  ASSUME TypeOK, op # None, op.call # None,
         Continue(op.call, pc[op.call], todo[op.call] \ {op.row}, queue)
  PROVE  CallsOK'
<1>1. op.call \in Calls /\ op.row \in Rows
  BY DEF TypeOK, WorkerOK
<1>2. CASE pc[op.call] = "idle"
  <2>1. todo[op.call] \ {op.row} = {}
    BY <1>1, <1>2 DEF TypeOK, CallsOK
  <2>2. /\ pc' = [pc EXCEPT ![op.call] = "idle"]
        /\ todo' = [todo EXCEPT ![op.call] = {}]
        /\ queue' = queue
    BY <2>1 DEF Continue
  <2>3. QED BY <1>1, <2>2 DEF TypeOK, CallsOK
<1>3. CASE pc[op.call] # "idle"
  <2>1. /\ pc[op.call] \in DOMAIN ToolOf
        /\ todo[op.call] \ {op.row} \in SUBSET Rows
        /\ queue \in Seq([kind : Kinds, row : Rows, call : Calls])
    BY <1>1, <1>3 DEF TypeOK, CallsOK
  <2>2. QED BY <1>1, <2>1, ContinueType DEF TypeOK
<1>4. QED BY <1>2, <1>3

\* A step of the worker that ends its call with some result for the tables.
LEMMA RecordAnswerType ==
  ASSUME TypeOK, op # None, NEW s \in RowStatuses, NEW known \in BOOLEAN,
         Answer(Record(op.row, s, known))
  PROVE  TablesOK' /\ CallsOK' /\ op' = None
<1>1. op.row \in Rows
  BY DEF TypeOK, WorkerOK
<1>2. CASE op.call = None
  BY <1>2 DEF Answer, TypeOK, TablesOK, CallsOK, tables, loop
<1>3. CASE op.call # None
  BY <1>1, <1>3, RecordType, AnswerType DEF Answer, TypeOK
<1>4. QED BY <1>2, <1>3

LEMMA InitType == Init => TypeOK
<1>1. ASSUME Init PROVE TablesOK
  BY <1>1, AggregateType DEF Init, TablesOK, RowStatuses
<1>2. ASSUME Init PROVE GatesOK /\ CallsOK /\ WorkerOK /\ BrokerOK
  BY <1>2, BoundAssumption
     DEF Init, GatesOK, CallsOK, WorkerOK, BrokerOK, Brokerage
<1>3. QED BY <1>1, <1>2 DEF TypeOK

\* A placement that is past its order has one at IB to wait for.
PlacedHasOrder == Running("place", "placed") => broker[op.row] # "none"

TypeInv == TypeOK /\ PlacedHasOrder

\* A sequence without one of its elements.
LEMMA RemovedType ==
  ASSUME NEW S, NEW q \in Seq(S), NEW i \in 1 .. Len(q)
  PROVE  SubSeq(q, 1, i - 1) \o SubSeq(q, i + 1, Len(q)) \in Seq(S)
<1>1. Len(q) \in Nat /\ i \in Int /\ \A j \in 1 .. Len(q) : q[j] \in S
  OBVIOUS
<1>2. SubSeq(q, 1, i - 1) \in Seq(S)
  BY <1>1, SubSeqProperties
<1>3. SubSeq(q, i + 1, Len(q)) \in Seq(S)
  BY <1>1, SubSeqProperties
<1>4. QED BY <1>2, <1>3, ConcatProperties

\* A tool that its client cancels leaves the worker with what it does.
LEMMA ClientCancelsJob ==
  ASSUME WorkerOK, NEW c \in Calls, ClientCancels(c)
  PROVE  \/ op' = op
         \/ /\ op # None /\ op' # None
            /\ op' \in [kind : Kinds, row : Rows, call : Calls \cup {None}, stage : Stages]
            /\ op'.kind = op.kind /\ op'.row = op.row /\ op'.stage = op.stage
<1>1. CASE op # None /\ op' = [op EXCEPT !.call = None]
  <2>1. op \in [kind : Kinds, row : Rows, call : Calls \cup {None}, stage : Stages]
    BY <1>1 DEF WorkerOK
  <2>2. /\ op' \in [kind : Kinds, row : Rows, call : Calls \cup {None}, stage : Stages]
        /\ op'.kind = op.kind /\ op'.row = op.row /\ op'.stage = op.stage
    BY <1>1, <2>1
  <2>3. op' # None
    BY <2>2, NoneAssumption
  <2>4. QED BY <1>1, <2>2, <2>3
<1>2. QED BY <1>1 DEF ClientCancels

LEMMA ToolType ==
  ASSUME TypeInv, NEW c \in Calls, ToolStep(c)
  PROVE  TypeInv'
<1>1. CASE Submit(c)
  <2>1. TablesOK'
    BY <1>1, SetApprovalType DEF Submit, TypeInv, TypeOK, TablesOK
  <2>2. GatesOK'
    BY <1>1 DEF Submit, TypeInv, TypeOK, GatesOK
  <2>3. CallsOK'
    BY <1>1, ContinueType DEF Submit, Planned, ToolOf, TypeInv, TypeOK, CallsOK
  <2>4. QED
    BY <1>1, <2>1, <2>2, <2>3
       DEF Submit, TypeInv, TypeOK, WorkerOK, BrokerOK, PlacedHasOrder, Running, ib
<1>2. CASE Reconcile(c)
  <2>1. CallsOK'
    BY <1>2, ContinueType DEF Reconcile, Active, ToolOf, TypeInv, TypeOK, CallsOK
  <2>2. QED
    BY <1>2, <2>1 DEF Reconcile, TypeInv, TypeOK, TablesOK, GatesOK, WorkerOK, BrokerOK,
                      PlacedHasOrder, Running, tables, gates, ib
<1>3. CASE Cancel(c)
  <2>1. CallsOK'
    BY <1>3, ContinueType DEF Cancel, Active, ToolOf, TypeInv, TypeOK, CallsOK
  <2>2. QED
    BY <1>3, <2>1 DEF Cancel, TypeInv, TypeOK, TablesOK, GatesOK, WorkerOK, BrokerOK,
                      PlacedHasOrder, Running, tables, gates, ib
<1>4. CASE Timeout(c)
  <2>1. op # None /\ op.call = c /\ op.row \in Rows
    BY <1>4 DEF Timeout, TypeInv, TypeOK, WorkerOK
  <2>2. TablesOK'
    BY <1>4, <2>1, RecordType
       DEF Timeout, TypeInv, TypeOK, TablesOK, NoRecord, tables, RowStatuses
  <2>3. op.call # None
    BY <2>1, NoneAssumption
  <2>4. CallsOK'
    BY <1>4, <2>1, <2>3, AnswerType DEF Timeout, TypeInv
  <2>5. op' # None /\ op' = [op EXCEPT !.call = None]
    BY <1>4, <2>1, NoneAssumption DEF Timeout, TypeInv, TypeOK, WorkerOK
  <2>6. WorkerOK' /\ PlacedHasOrder'
    BY <1>4, <2>1, <2>5
       DEF Timeout, TypeInv, TypeOK, WorkerOK, PlacedHasOrder, Running, ib
  <2>7. QED
    BY <1>4, <2>2, <2>4, <2>6 DEF Timeout, TypeInv, TypeOK, GatesOK, BrokerOK, gates, ib
<1>5. CASE ClientCancels(c)
  <2>1. CallsOK'
    <3>1. queue' \in Seq([kind : Kinds, row : Rows, call : Calls])
      <4>1. CASE UNCHANGED queue
        BY <4>1 DEF TypeInv, TypeOK, CallsOK
      <4>2. ASSUME NEW i \in 1 .. Len(queue),
                   queue' = SubSeq(queue, 1, i - 1) \o SubSeq(queue, i + 1, Len(queue))
            PROVE  queue' \in Seq([kind : Kinds, row : Rows, call : Calls])
        BY <4>2, RemovedType DEF TypeInv, TypeOK, CallsOK
      <4>3. QED BY <1>5, <4>1, <4>2 DEF ClientCancels
    <3>2. QED BY <1>5, <3>1 DEF ClientCancels, TypeInv, TypeOK, CallsOK
  <2>2. WorkerOK' /\ PlacedHasOrder'
    BY <1>5, ClientCancelsJob
       DEF ClientCancels, TypeInv, TypeOK, WorkerOK, PlacedHasOrder, Running, ib
  <2>3. QED
    BY <1>5, <2>1, <2>2
       DEF ClientCancels, TypeInv, TypeOK, TablesOK, GatesOK, BrokerOK, tables, gates, ib
<1>6. QED BY <1>1, <1>2, <1>3, <1>4, <1>5 DEF ToolStep

\* An answer leaves the gates and IB alone and the worker without a call.
LEMMA AnswerKeepsTypes ==
  ASSUME TypeInv, op # None, NEW s \in RowStatuses, NEW known \in BOOLEAN,
         Answer(Record(op.row, s, known)) \/ Answer(NoRecord),
         UNCHANGED <<gates, ib>>, registry' \in [Rows -> Brokerage]
  PROVE  TypeInv'
<1>1. TablesOK' /\ CallsOK' /\ op' = None
  <2>1. CASE Answer(Record(op.row, s, known))
    BY <2>1, RecordAnswerType DEF TypeInv
  <2>2. CASE Answer(NoRecord)
    <3>1. TablesOK' /\ op' = None
      BY <2>2 DEF Answer, NoRecord, TypeInv, TypeOK, TablesOK, tables
    <3>2. CallsOK'
      BY <2>2, AnswerType DEF Answer, TypeInv, TypeOK, CallsOK, loop
    <3>3. QED BY <3>1, <3>2
  <2>3. QED BY <2>1, <2>2
<1>2. GatesOK' /\ WorkerOK' /\ BrokerOK' /\ PlacedHasOrder'
  BY <1>1 DEF TypeInv, TypeOK, GatesOK, WorkerOK, BrokerOK, PlacedHasOrder, Running, gates, ib
<1>3. QED BY <1>1, <1>2 DEF TypeInv, TypeOK

LEMMA HeadAndTail ==
  ASSUME NEW T, NEW q \in Seq(T), q # << >>
  PROVE  Head(q) \in T /\ Tail(q) \in Seq(T)
OBVIOUS

LEMMA WorkerType ==
  ASSUME TypeInv, WorkerStep
  PROVE  TypeInv'
<1>1. CASE Start
  <2>1. Head(queue) \in [kind : Kinds, row : Rows, call : Calls]
        /\ Tail(queue) \in Seq([kind : Kinds, row : Rows, call : Calls])
    BY <1>1, HeadAndTail, Zenon DEF Start, TypeInv, TypeOK, CallsOK
  <2>2. op' \in [kind : Kinds, row : Rows, call : Calls \cup {None}, stage : Stages]
        /\ op'.stage = "started"
    BY <1>1, <2>1 DEF Start, Stages
  <2>3. CallsOK' /\ WorkerOK' /\ PlacedHasOrder'
    BY <1>1, <2>1, <2>2
       DEF Start, TypeInv, TypeOK, CallsOK, WorkerOK, PlacedHasOrder, Running, loop
  <2>4. QED
    BY <1>1, <2>3 DEF Start, TypeInv, TypeOK, TablesOK, GatesOK, BrokerOK, tables, gates, ib
<1>2. CASE PlaceCheck \/ PlaceOrder \/ CancelRequest
  <2>1. op # None /\ op \in [kind : Kinds, row : Rows, call : Calls \cup {None}, stage : Stages]
    BY <1>2 DEF PlaceCheck, PlaceOrder, CancelRequest, Running, TypeInv, TypeOK, WorkerOK
  <2>2. WorkerOK'
    BY <1>2, <2>1 DEF PlaceCheck, PlaceOrder, CancelRequest, Stages, TypeInv, TypeOK,
                      WorkerOK, Brokerage, Open
  <2>3. BrokerOK'
    BY <1>2, <2>1 DEF PlaceCheck, PlaceOrder, CancelRequest, TypeInv, TypeOK, BrokerOK,
                      Brokerage, Open, ib
  <2>4. PlacedHasOrder'
    BY <1>2, <2>1 DEF PlaceCheck, PlaceOrder, CancelRequest, TypeInv, TypeOK, BrokerOK,
                      PlacedHasOrder, Running, ib
  <2>5. TablesOK' /\ GatesOK' /\ CallsOK'
    BY <1>2 DEF PlaceCheck, PlaceOrder, CancelRequest, TypeInv, TypeOK, TablesOK, GatesOK,
                CallsOK, tables, gates, loop
  <2>6. QED BY <2>2, <2>3, <2>4, <2>5 DEF TypeInv, TypeOK
<1>3. CASE PlaceExisting \/ StatusDone \/ CancelNothing
  <2>1. op # None /\ op.row \in Rows /\ Existing(op.row)
    BY <1>3 DEF PlaceExisting, StatusDone, CancelNothing, Running, TypeInv, TypeOK, WorkerOK
  <2>2. Seen(op.row) \in Brokerage /\ Seen(op.row) # "none"
    BY <2>1 DEF Seen, Existing, TypeInv, TypeOK, WorkerOK, BrokerOK
  <2>3. \E s \in RowStatuses, known \in BOOLEAN : Answer(Record(op.row, s, known))
    BY <1>3, <2>2, StatusTypes DEF PlaceExisting, StatusDone, CancelNothing
  <2>4. UNCHANGED <<gates, ib>> /\ registry' \in [Rows -> Brokerage]
    BY <1>3 DEF PlaceExisting, StatusDone, CancelNothing, TypeInv, TypeOK, WorkerOK
  <2>5. QED BY <2>1, <2>3, <2>4, AnswerKeepsTypes
<1>4. CASE PlaceDone
  <2>1. op # None /\ op.row \in Rows /\ broker[op.row] \in Brokerage \ {"none"}
    BY <1>4 DEF PlaceDone, Running, TypeInv, TypeOK, WorkerOK, BrokerOK, PlacedHasOrder
  <2>2. \E s \in RowStatuses, known \in BOOLEAN : Answer(Record(op.row, s, known))
    BY <1>4, <2>1, StatusTypes DEF PlaceDone
  <2>3. UNCHANGED <<gates, ib>> /\ registry' \in [Rows -> Brokerage]
    BY <1>4, <2>1 DEF PlaceDone, TypeInv, TypeOK, WorkerOK
  <2>4. QED BY <2>1, <2>2, <2>3, AnswerKeepsTypes
<1>5. CASE PlaceSimulated \/ PlaceRefused \/ CancelDone \/ CancelFails
  <2>1. op # None
    BY <1>5 DEF PlaceSimulated, PlaceRefused, CancelDone, CancelFails, Running
  <2>2. \E s \in RowStatuses, known \in BOOLEAN : Answer(Record(op.row, s, known))
    BY <1>5 DEF PlaceSimulated, PlaceRefused, CancelDone, CancelFails, FromCancel, RowStatuses
  <2>3. UNCHANGED <<gates, ib>> /\ registry' \in [Rows -> Brokerage]
    BY <1>5 DEF PlaceSimulated, PlaceRefused, CancelDone, CancelFails, TypeInv, TypeOK, WorkerOK
  <2>4. QED BY <2>1, <2>2, <2>3, AnswerKeepsTypes
<1>6. CASE StatusFails
  <2>1. op # None /\ Answer(NoRecord)
    BY <1>6 DEF StatusFails, Running
  <2>2. UNCHANGED <<gates, ib>> /\ registry' \in [Rows -> Brokerage]
    BY <1>6 DEF StatusFails, TypeInv, TypeOK, WorkerOK
  <2>3. "FAILED" \in RowStatuses /\ FALSE \in BOOLEAN
    BY DEF RowStatuses
  <2>4. QED BY <2>1, <2>2, <2>3, AnswerKeepsTypes
<1>7. QED BY <1>1, <1>2, <1>3, <1>4, <1>5, <1>6 DEF WorkerStep

LEMMA OtherType ==
  ASSUME TypeInv,
         \/ RequestIntentApproval
         \/ \E r \in Rows : BrokerStep(r)
         \/ Approve \/ Expire \/ Toggle \/ Restart
         \/ UNCHANGED vars
  PROVE  TypeInv'
<1> USE DEF TypeInv, TypeOK
<1>1. CASE RequestIntentApproval
  <2>1. TablesOK'
    BY <1>1, SetApprovalType DEF RequestIntentApproval
  <2>2. QED
    BY <1>1, <2>1 DEF RequestIntentApproval, GatesOK, CallsOK, WorkerOK, BrokerOK,
                      PlacedHasOrder, Running, gates, loop, worker, ib
<1>2. ASSUME NEW r \in Rows, BrokerStep(r) PROVE TypeInv'
  <2>1. BrokerOK' /\ (broker'[r] # "none") /\ \A q \in Rows \ {r} : broker'[q] = broker[q]
    BY <1>2 DEF BrokerStep, BrokerMoves, BrokerOK, Brokerage, Open, Dead
  <2>2. PlacedHasOrder'
    BY <1>2, <2>1 DEF BrokerStep, PlacedHasOrder, Running, WorkerOK, worker
  <2>3. QED
    BY <1>2, <2>1, <2>2 DEF BrokerStep, TablesOK, GatesOK, CallsOK, WorkerOK,
                            tables, gates, loop, worker
<1>3. CASE Approve \/ Expire \/ Toggle
  <2>1. GatesOK'
    <3>1. given \in Nat /\ tokens \in Nat
      BY BoundAssumption DEF GatesOK
    <3>2. CASE Approve
      BY <3>1, <3>2, BoundAssumption DEF Approve, GatesOK
    <3>3. CASE Expire
      BY <3>1, <3>3, BoundAssumption DEF Expire, GatesOK
    <3>4. CASE Toggle
      BY <3>4 DEF Toggle, GatesOK
    <3>5. QED BY <1>3, <3>2, <3>3, <3>4
  <2>2. QED
    BY <1>3, <2>1 DEF Approve, Expire, Toggle, TablesOK, CallsOK, WorkerOK, BrokerOK,
                      PlacedHasOrder, Running, tables, loop, worker, ib
<1>4. CASE Restart
  BY <1>4 DEF Restart, TablesOK, GatesOK, CallsOK, WorkerOK, BrokerOK, PlacedHasOrder,
              Running, Brokerage, tables, gates, ib
<1>5. CASE UNCHANGED vars
  BY <1>5 DEF vars, TablesOK, GatesOK, CallsOK, WorkerOK, BrokerOK, PlacedHasOrder, Running,
              tables, gates, loop, worker, ib
<1>6. QED BY <1>1, <1>2, <1>3, <1>4, <1>5

LEMMA TypeInvHolds == Spec => []TypeInv
<1>1. Init => TypeInv
  BY InitType DEF Init, TypeInv, PlacedHasOrder, Running
<1>2. TypeInv /\ [Next]_vars => TypeInv'
  BY ToolType, WorkerType, OtherType DEF Next
<1>3. QED BY <1>1, <1>2, PTL DEF Spec

\* Every status that the tools, the worker and the restarts leave behind is one
\* the tables allow, whatever the basket and however many calls run.
THEOREM TypeCorrect == Spec => []TypeOK
<1>1. TypeInv => TypeOK
  BY DEF TypeInv
<1>2. QED BY TypeInvHolds, <1>1, PTL

(***************************************************************************)
(* One order per row                                                       *)
(***************************************************************************)

\* Between the idempotency check and the order nobody else places: the check's
\* answer still holds when the order goes out.
OnceInv ==
  /\ Running("place", "checked") => broker[op.row] = "none"
  /\ \A r \in Rows : placed[r] <= 1 /\ (broker[r] = "none" => placed[r] = 0)

LEMMA OrderPlaced ==
  ASSUME TypeInv, OnceInv, PlaceOrder
  PROVE  OnceInv'
<1>1. op.row \in Rows /\ broker[op.row] = "none" /\ placed[op.row] = 0
  BY DEF PlaceOrder, OnceInv, Running, TypeInv, TypeOK, WorkerOK
<1>2. \A r \in Rows : placed'[r] <= 1 /\ (broker'[r] = "none" => placed'[r] = 0)
  BY <1>1 DEF PlaceOrder, OnceInv, TypeInv, TypeOK, BrokerOK
<1>3. ~ Running("place", "checked")'
  BY DEF PlaceOrder, Running, TypeInv, TypeOK, WorkerOK
<1>4. QED BY <1>2, <1>3 DEF OnceInv

\* Everything else leaves placed alone, and at IB moves only orders that exist.
LEMMA OnceKept ==
  ASSUME KeepsClientId, TypeInv, OnceInv, [Next]_vars
  PROVE  OnceInv'
<1> USE DEF TypeInv, TypeOK
<1>1. CASE UNCHANGED <<broker, placed>> /\ (op' = op \/ op' = None)
  BY <1>1 DEF OnceInv, Running
<1>2. ASSUME NEW c \in Calls, ToolStep(c) PROVE OnceInv'
  <2>1. CASE Timeout(c)
    <3>1. op' = [op EXCEPT !.call = None] /\ op # None
          /\ op \in [kind : Kinds, row : Rows, call : Calls \cup {None}, stage : Stages]
      BY <2>1 DEF Timeout, WorkerOK
    <3>2. op'.kind = op.kind /\ op'.row = op.row /\ op'.stage = op.stage
      BY <3>1
    <3>3. QED BY <2>1, <3>1, <3>2 DEF Timeout, OnceInv, Running, ib
  <2>2. CASE Submit(c) \/ Reconcile(c) \/ Cancel(c)
    BY <1>1, <2>2 DEF Submit, Reconcile, Cancel, ib
  <2>3. CASE ClientCancels(c)
    BY <2>3, ClientCancelsJob DEF ClientCancels, OnceInv, Running, ib
  <2>4. QED BY <1>2, <2>1, <2>2, <2>3 DEF ToolStep
<1>3. CASE WorkerStep
  <2>1. CASE Start
    <3>1. op'.stage = "started" /\ UNCHANGED ib
      BY <2>1 DEF Start
    <3>2. QED BY <3>1 DEF OnceInv, Running, ib
  <2>2. CASE PlaceCheck
    <3>1. broker[op.row] = "none" /\ op'.row = op.row /\ UNCHANGED ib
      BY <2>2 DEF PlaceCheck, Existing, Running, WorkerOK
    <3>2. QED BY <3>1 DEF OnceInv, Running, ib
  <2>3. CASE PlaceOrder
    BY <2>3, OrderPlaced
  <2>4. CASE CancelRequest
    <3>1. op'.stage = "requested" /\ op.row \in Rows
      BY <2>4 DEF CancelRequest, Running, WorkerOK
    <3>2. placed' = placed /\ \A r \in Rows : broker'[r] = "none" => broker[r] = "none"
      BY <2>4, <3>1 DEF CancelRequest, BrokerOK
    <3>3. QED BY <3>1, <3>2 DEF OnceInv, Running
  <2>5. CASE \/ PlaceSimulated \/ PlaceExisting \/ PlaceDone \/ PlaceRefused
             \/ StatusDone \/ StatusFails \/ CancelNothing \/ CancelDone \/ CancelFails
    BY <1>1, <2>5
       DEF PlaceSimulated, PlaceExisting, PlaceDone, PlaceRefused, StatusDone, StatusFails,
           CancelNothing, CancelDone, CancelFails, Answer, ib
  <2>6. QED BY <1>3, <2>1, <2>2, <2>3, <2>4, <2>5 DEF WorkerStep
<1>4. ASSUME NEW r \in Rows, BrokerStep(r) PROVE OnceInv'
  <2>1. UNCHANGED <<op, placed>> /\ broker[r] # "none"
        /\ \A q \in Rows : broker'[q] = "none" <=> broker[q] = "none"
    BY <1>4 DEF BrokerStep, BrokerMoves, BrokerOK, worker
  <2>2. Running("place", "checked") => op.row \in Rows
    BY DEF Running, WorkerOK
  <2>3. QED BY <2>1, <2>2 DEF OnceInv, Running
<1>5. CASE RequestIntentApproval \/ Approve \/ Expire \/ Toggle \/ Restart \/ UNCHANGED vars
  BY <1>1, <1>5 DEF RequestIntentApproval, Approve, Expire, Toggle, Restart, vars, worker, ib
<1>6. QED BY <1>2, <1>3, <1>4, <1>5 DEF Next

\* However often a basket is submitted, given up on, retried after a restart or
\* submitted twice at once, IB holds at most one order for each of its rows.
THEOREM OneOrderPerRow == Spec => []NoDuplicateOrder
<1>1. CASE KeepsClientId
  <2>1. Init => OnceInv
    BY DEF Init, OnceInv, Running
  <2>2. TypeInv /\ OnceInv /\ [Next]_vars => OnceInv'
    BY <1>1, OnceKept
  <2>3. OnceInv => NoDuplicateOrder
    BY DEF OnceInv, NoDuplicateOrder
  <2>4. QED BY <2>1, <2>2, <2>3, TypeInvHolds, PTL DEF Spec
<1>2. CASE ~ KeepsClientId
  <2>1. NoDuplicateOrder
    BY <1>2 DEF NoDuplicateOrder
  <2>2. QED BY <2>1, PTL
<1>3. QED BY <1>1, <1>2

(***************************************************************************)
(* Final statuses are true                                                 *)
(***************************************************************************)

\* What the registry holds as done is done at IB, although nobody refreshes it.
RegistryInv ==
  \A r \in Rows :
    /\ registry[r] # "none" => broker[r] # "none"
    /\ registry[r] \in Dead => broker[r] = registry[r]
    /\ registry[r] \in Filled => broker[r] \in Filled

Claim(s, b) ==
  /\ s = "FILLED" => b = "filled"
  /\ s = "CANCELLED" => b \in {"cancelled", "partcancelled"}
  /\ s = "PARTIALLY_FILLED" => b \in Filled

\* A row claims no more than is so; also a partial fill stays one.
RowInv == \A r \in Rows : Claim(row[r], broker[r])

TruthInv == OnceInv /\ RegistryInv /\ RowInv

LEMMA DeadStaysDead ==
  ASSUME TypeInv, OnceInv, [Next]_vars, NEW r \in Rows, broker[r] # "none"
  PROVE  /\ broker'[r] # "none"
         /\ broker[r] \in Dead => broker'[r] = broker[r]
         /\ broker[r] \in Filled => broker'[r] \in Filled
<1> USE DEF TypeInv, TypeOK, Filled
<1>1. CASE broker' = broker
  BY <1>1
<1>2. CASE PlaceOrder
  BY <1>2 DEF PlaceOrder, OnceInv, Running, BrokerOK, WorkerOK
<1>3. CASE CancelRequest
  BY <1>3 DEF CancelRequest, BrokerOK, Dead
<1>4. ASSUME NEW q \in Rows, BrokerStep(q)
      PROVE  /\ broker'[r] # "none"
             /\ broker[r] \in Dead => broker'[r] = broker[r]
             /\ broker[r] \in Filled => broker'[r] \in Filled
  BY <1>4 DEF BrokerStep, BrokerMoves, BrokerOK, Dead
<1>5. ASSUME NEW c \in Calls, ToolStep(c) PROVE broker' = broker
  BY <1>5 DEF ToolStep, Submit, Reconcile, Cancel, Timeout, ClientCancels, ib
<1>6. CASE WorkerStep
  BY <1>1, <1>2, <1>3, <1>6
     DEF WorkerStep, Start, PlaceSimulated, PlaceExisting, PlaceCheck, PlaceDone,
         PlaceRefused, StatusDone, StatusFails, CancelNothing, CancelDone, CancelFails, ib
<1>7. CASE RequestIntentApproval \/ Approve \/ Expire \/ Toggle \/ Restart \/ UNCHANGED vars
  BY <1>1, <1>7 DEF RequestIntentApproval, Approve, Expire, Toggle, Restart, vars, ib
<1>8. QED BY <1>1, <1>4, <1>5, <1>6, <1>7 DEF Next

LEMMA StatusClaims ==
  ASSUME NEW s \in Brokerage, s # "none", NEW b,
         s \in Dead => b = s, s \in Filled => b \in Filled
  PROVE  Claim(FromPlacement(s), b) /\ Claim(FromStatus(s), b) /\ Claim(FromCancel(s), b)
BY DEF Brokerage, Open, Dead, Filled, Claim, FromPlacement, FromStatus, FromCancel, Mapped

LEMMA RecordClaims ==
  ASSUME TablesOK, NEW q \in Rows, NEW s, NEW known, Claim(s, broker[q]), Record(q, s, known),
         NEW r \in Rows
  PROVE  row'[r] = row[r] \/ Claim(row'[r], broker[r])
BY DEF Record, TablesOK

\* A row changes only to a status that does not claim too much.
LEMMA RowClaims ==
  ASSUME TypeInv, TruthInv, [Next]_vars, NEW r \in Rows
  PROVE  row'[r] = row[r] \/ Claim(row'[r], broker[r])
<1> USE DEF TypeInv, TypeOK
<1>1. CASE row' = row
  BY <1>1
<1>2. ASSUME NEW q \in Rows, NEW s, NEW known, Claim(s, broker[q]), Record(q, s, known)
      PROVE  row'[r] = row[r] \/ Claim(row'[r], broker[r])
  BY <1>2, RecordClaims
<1>3. Claim("REJECTED", broker[op.row]) /\ Claim("FAILED", broker[op.row])
      /\ Claim("SIMULATED", broker[op.row])
  BY DEF Claim
<1>4. op # None => op.row \in Rows
  BY DEF WorkerOK
<1>5. ASSUME NEW c \in Calls, ToolStep(c)
      PROVE  row'[r] = row[r] \/ Claim(row'[r], broker[r])
  <2>1. CASE Timeout(c)
    BY <2>1, <1>1, <1>2, <1>3, <1>4 DEF Timeout, NoRecord, tables
  <2>2. CASE Submit(c) \/ Reconcile(c) \/ Cancel(c) \/ ClientCancels(c)
    BY <1>1, <2>2 DEF Submit, Reconcile, Cancel, ClientCancels, SetApproval, tables
  <2>3. QED BY <1>5, <2>1, <2>2 DEF ToolStep
<1>6. ASSUME op # None, NEW s, NEW known, Claim(s, broker[op.row]),
             Answer(Record(op.row, s, known))
      PROVE  row'[r] = row[r] \/ Claim(row'[r], broker[r])
  BY <1>1, <1>2, <1>4, <1>6 DEF Answer, tables
<1>7. CASE WorkerStep
  <2>1. CASE PlaceExisting \/ StatusDone \/ CancelNothing
    <3>1. op # None /\ Existing(op.row)
      BY <2>1 DEF PlaceExisting, StatusDone, CancelNothing, Running
    <3>2. Seen(op.row) \in Brokerage /\ Seen(op.row) # "none"
          /\ (Seen(op.row) \in Dead => broker[op.row] = Seen(op.row))
          /\ (Seen(op.row) \in Filled => broker[op.row] \in Filled)
      BY <1>4, <3>1 DEF Seen, Existing, WorkerOK, BrokerOK, TruthInv, RegistryInv
    <3>3. QED
      BY <1>6, <2>1, <3>1, <3>2, StatusClaims DEF PlaceExisting, StatusDone, CancelNothing
  <2>2. CASE PlaceDone
    <3>1. op # None /\ broker[op.row] \in Brokerage /\ broker[op.row] # "none"
      BY <2>2, <1>4 DEF PlaceDone, Running, BrokerOK, PlacedHasOrder
    <3>2. QED BY <1>6, <2>2, <3>1, StatusClaims DEF PlaceDone
  <2>3. CASE CancelDone
    <3>1. op # None /\ op.row \in Rows
      BY <2>3, <1>4 DEF CancelDone, Running
    <3>2. Claim(FromCancel(Seen(op.row)), broker[op.row])
      BY <3>1 DEF Seen, FromCancel, Claim, TruthInv, RegistryInv, Dead
    <3>3. QED BY <1>6, <2>3, <3>1, <3>2 DEF CancelDone
  <2>4. CASE PlaceSimulated \/ PlaceRefused \/ CancelFails
    <3>1. op # None
      BY <2>4 DEF PlaceSimulated, PlaceRefused, CancelFails, Running
    <3>2. QED BY <1>3, <1>6, <2>4, <3>1 DEF PlaceSimulated, PlaceRefused, CancelFails
  <2>5. CASE Start \/ PlaceCheck \/ PlaceOrder \/ CancelRequest \/ StatusFails
    BY <1>1, <2>5 DEF Start, PlaceCheck, PlaceOrder, CancelRequest, StatusFails, Answer,
                      NoRecord, tables
  <2>6. QED BY <1>7, <2>1, <2>2, <2>3, <2>4, <2>5 DEF WorkerStep
<1>8. CASE \/ RequestIntentApproval
           \/ \E q \in Rows : BrokerStep(q)
           \/ Approve \/ Expire \/ Toggle \/ Restart \/ UNCHANGED vars
  BY <1>1, <1>8 DEF RequestIntentApproval, SetApproval, BrokerStep, Approve, Expire, Toggle,
                    Restart, vars, tables
<1>9. QED BY <1>5, <1>7, <1>8 DEF Next

LEMMA RowsKept ==
  ASSUME TypeInv, TruthInv, [Next]_vars
  PROVE  RowInv'
<1> SUFFICES ASSUME NEW r \in Rows PROVE Claim(row'[r], broker'[r])
  BY DEF RowInv
<1>1. Claim(row'[r], broker[r])
  BY RowClaims DEF TruthInv, RowInv
<1>2. /\ broker[r] \in Dead => broker'[r] = broker[r]
      /\ broker[r] \in Filled => broker'[r] \in Filled
  BY DeadStaysDead DEF TruthInv, Dead, Filled
<1>3. QED BY <1>1, <1>2 DEF Claim, Dead

LEMMA RegistryKept ==
  ASSUME TypeInv, TruthInv, [Next]_vars
  PROVE  RegistryInv'
<1> USE DEF TypeInv, TypeOK
<1> SUFFICES ASSUME NEW r \in Rows
             PROVE  /\ registry'[r] # "none" => broker'[r] # "none"
                    /\ registry'[r] \in Dead => broker'[r] = registry'[r]
                    /\ registry'[r] \in Filled => broker'[r] \in Filled
  BY DEF RegistryInv
<1>1. CASE registry'[r] = registry[r]
  BY <1>1, DeadStaysDead DEF TruthInv, RegistryInv, Dead, Filled
<1>2. CASE Restart
  BY <1>2 DEF Restart, Dead, Filled
<1>3. CASE PlaceOrder
  <2>1. op.row \in Rows
    BY <1>3 DEF PlaceOrder, Running, WorkerOK
  <2>2. CASE op.row = r
    BY <1>3, <2>2 DEF PlaceOrder, WorkerOK, BrokerOK, Dead, Filled
  <2>3. QED BY <1>1, <1>3, <2>1, <2>2 DEF PlaceOrder, WorkerOK
<1>4. CASE PlaceDone
  <2>1. op.row \in Rows /\ broker[op.row] # "none" /\ broker' = broker
    BY <1>4 DEF PlaceDone, Running, WorkerOK, PlacedHasOrder, ib
  <2>2. CASE op.row = r
    BY <1>4, <2>1, <2>2 DEF PlaceDone, WorkerOK
  <2>3. QED BY <1>1, <1>4, <2>1, <2>2 DEF PlaceDone, WorkerOK
<1>5. ASSUME NEW c \in Calls, ToolStep(c) PROVE registry' = registry
  BY <1>5 DEF ToolStep, Submit, Reconcile, Cancel, Timeout, ClientCancels
<1>6. CASE WorkerStep /\ ~ PlaceOrder /\ ~ PlaceDone
  BY <1>1, <1>6 DEF WorkerStep, Start, PlaceSimulated, PlaceExisting, PlaceCheck, PlaceRefused,
                    StatusDone, StatusFails, CancelNothing, CancelRequest, CancelDone,
                    CancelFails
<1>7. CASE \/ RequestIntentApproval
           \/ \E q \in Rows : BrokerStep(q)
           \/ Approve \/ Expire \/ Toggle \/ UNCHANGED vars
  BY <1>1, <1>7 DEF RequestIntentApproval, BrokerStep, Approve, Expire, Toggle, vars, worker
<1>8. QED BY <1>1, <1>2, <1>3, <1>4, <1>5, <1>6, <1>7 DEF Next

LEMMA TruthHolds ==
  ASSUME KeepsClientId PROVE Spec => []TruthInv
<1>1. Init => TruthInv
  BY DEF Init, TruthInv, OnceInv, RegistryInv, RowInv, Claim, Running, Dead, Filled
<1>2. TypeInv /\ TruthInv /\ [Next]_vars => TruthInv'
  BY OnceKept, RegistryKept, RowsKept DEF TruthInv
<1>3. QED BY <1>1, <1>2, TypeInvHolds, PTL DEF Spec

\* A row that says FILLED or CANCELLED tells the truth, although the worker reads
\* the status from Trade objects that may be stale: only their final states end
\* up in such a row, and a final state does not change.
THEOREM FinalClaimsHold ==
  ASSUME KeepsClientId PROVE Spec => []FinalClaimsAreTrue
<1>1. TruthInv => FinalClaimsAreTrue
  BY DEF TruthInv, RowInv, Claim, FinalClaimsAreTrue
<1>2. QED BY <1>1, TruthHolds, PTL

(***************************************************************************)
(* What the intent says                                                    *)
(***************************************************************************)

\* Nothing writes the tables but Record and SetApproval, which recompute.
StatusIsAggregate == intent = Aggregate(row, approval)

LEMMA AggregateKept ==
  ASSUME StatusIsAggregate, [Next]_vars
  PROVE  StatusIsAggregate'
<1>1. ASSUME NEW r, NEW s, NEW known, Record(r, s, known) PROVE StatusIsAggregate'
  BY <1>1 DEF Record, StatusIsAggregate
<1>2. ASSUME NEW s, SetApproval(s) PROVE StatusIsAggregate'
  BY <1>2, Zenon DEF SetApproval, StatusIsAggregate
<1>3. CASE UNCHANGED tables
  BY <1>3, Zenon DEF tables, StatusIsAggregate
<1>4. ASSUME NEW c \in Calls, ToolStep(c) PROVE StatusIsAggregate'
  BY <1>4, <1>1, <1>2, <1>3
     DEF ToolStep, Submit, Reconcile, Cancel, Timeout, ClientCancels, NoRecord
<1>5. CASE WorkerStep
  BY <1>5, <1>1, <1>3
     DEF WorkerStep, Start, PlaceSimulated, PlaceExisting, PlaceCheck, PlaceOrder, PlaceDone,
         PlaceRefused, StatusDone, StatusFails, CancelNothing, CancelRequest, CancelDone,
         CancelFails, Answer, NoRecord, tables
<1>6. CASE RequestIntentApproval
  BY <1>6, <1>2 DEF RequestIntentApproval
<1>7. CASE \/ \E r \in Rows : BrokerStep(r)
           \/ Approve \/ Expire \/ Toggle \/ Restart
           \/ UNCHANGED vars
  BY <1>7, <1>3 DEF BrokerStep, Approve, Expire, Toggle, Restart, vars
<1>8. QED BY <1>4, <1>5, <1>6, <1>7 DEF Next

LEMMA InitIsTotal == Init => StatusIsAggregate
BY Zenon DEF Init, StatusIsAggregate

\* What rows that claim no more than is so add up to.
LEMMA TotalClaims ==
  ASSUME TypeInv, TruthInv, StatusIsAggregate
  PROVE  IntentClaimsAreTrue
<1> DEFINE S == {row[r] : r \in Rows}
<1> HIDE DEF S
<1>1. \A s \in S : \E r \in Rows : s = row[r]
  BY DEF S
<1>2. \A r \in Rows : row[r] \in S
  BY DEF S
<1>3. intent = IF S # {} /\ approval = "pending" THEN "PENDING_APPROVAL" ELSE Total(S)
  BY DEF StatusIsAggregate, Aggregate, S
<1>4. ASSUME intent = "FILLED" PROVE \A r \in Rows : broker[r] = "filled"
  <2>1. S = {"FILLED"}
    BY <1>3, <1>4 DEF Total
  <2>2. QED BY <1>2, <2>1 DEF TruthInv, RowInv, Claim
<1>5. ASSUME intent = "CANCELLED"
      PROVE  \A r \in Rows : broker[r] \in {"cancelled", "partcancelled"}
  <2>1. S = {"CANCELLED"}
    BY <1>3, <1>5 DEF Total
  <2>2. QED BY <1>2, <2>1 DEF TruthInv, RowInv, Claim
<1>6. ASSUME intent = "PARTIALLY_FILLED" PROVE \E r \in Rows : broker[r] \in Filled
  <2>1. "PARTIALLY_FILLED" \in S \/ "FILLED" \in S
    BY <1>3, <1>6 DEF Total
  <2>2. PICK r \in Rows : row[r] \in {"PARTIALLY_FILLED", "FILLED"}
    BY <1>1, <2>1
  <2>3. QED BY <2>2 DEF TruthInv, RowInv, Claim, Filled
<1>7. QED BY <1>4, <1>5, <1>6 DEF IntentClaimsAreTrue

\* The intent says FILLED, CANCELLED or PARTIALLY_FILLED only of a basket that is, for
\* baskets of any size: the rows are written at different times and from statuses that
\* may be stale, and one may have failed on the way to its order.
THEOREM IntentClaimsHold ==
  ASSUME KeepsClientId PROVE Spec => []IntentClaimsAreTrue
<1>1. Init => StatusIsAggregate
  BY InitIsTotal
<1>2. StatusIsAggregate /\ [Next]_vars => StatusIsAggregate'
  BY AggregateKept
<1>3. TypeInv /\ TruthInv /\ StatusIsAggregate => IntentClaimsAreTrue
  BY TotalClaims
<1>4. QED BY <1>1, <1>2, <1>3, TypeInvHolds, TruthHolds, PTL DEF Spec

(***************************************************************************)
(* The orders of a row are those of a client order id                      *)
(***************************************************************************)

\* What any step may do at IB: place the one order of a row, or move an open one.
PlacesOne(r) ==
  /\ broker[r] = "none" /\ placed[r] = 0
  /\ broker' = [broker EXCEPT ![r] = "working"] /\ placed' = [placed EXCEPT ![r] = 1]
MovesOne(r) ==
  /\ broker[r] \in Open /\ placed' = placed
  /\ \E s \in Open \cup Dead : broker' = [broker EXCEPT ![r] = s]

LEMMA BrokerKinds ==
  ASSUME TypeInv, OnceInv, [Next]_vars
  PROVE  UNCHANGED ib \/ \E r \in Rows : PlacesOne(r) \/ MovesOne(r)
<1> USE DEF TypeInv, TypeOK
<1>1. CASE PlaceOrder
  <2>1. op.row \in Rows /\ broker[op.row] = "none" /\ placed[op.row] = 0
    BY <1>1 DEF PlaceOrder, OnceInv, Running, WorkerOK
  <2>2. PlacesOne(op.row)
    BY <1>1, <2>1 DEF PlaceOrder, PlacesOne
  <2>3. QED BY <2>1, <2>2
<1>2. CASE CancelRequest
  <2>1. op.row \in Rows
    BY <1>2 DEF CancelRequest, Running, WorkerOK
  <2>2. CASE broker[op.row] = "working"
    <3>1. MovesOne(op.row)
      BY <1>2, <2>2 DEF CancelRequest, MovesOne, Open
    <3>2. QED BY <2>1, <3>1
  <2>3. CASE broker[op.row] # "working"
    BY <1>2, <2>1, <2>3 DEF CancelRequest, BrokerOK, ib
  <2>4. QED BY <2>2, <2>3
<1>3. ASSUME NEW r \in Rows, BrokerStep(r)
      PROVE  UNCHANGED ib \/ \E q \in Rows : PlacesOne(q) \/ MovesOne(q)
  <2>1. PICK m \in BrokerMoves : broker[r] = m[1] /\ broker' = [broker EXCEPT ![r] = m[2]]
    BY <1>3 DEF BrokerStep
  <2>2. m[1] \in Open /\ m[2] \in Open \cup Dead
    BY <2>1 DEF BrokerMoves, Open, Dead
  <2>3. MovesOne(r)
    BY <1>3, <2>1, <2>2 DEF BrokerStep, MovesOne
  <2>4. QED BY <2>3
<1>4. ASSUME NEW c \in Calls, ToolStep(c) PROVE UNCHANGED ib
  BY <1>4 DEF ToolStep, Submit, Reconcile, Cancel, Timeout, ClientCancels
<1>5. CASE WorkerStep
  BY <1>1, <1>2, <1>5
     DEF WorkerStep, Start, PlaceSimulated, PlaceExisting, PlaceCheck, PlaceDone,
         PlaceRefused, StatusDone, StatusFails, CancelNothing, CancelDone, CancelFails
<1>6. CASE RequestIntentApproval \/ Approve \/ Expire \/ Toggle \/ Restart \/ UNCHANGED vars
  BY <1>6 DEF RequestIntentApproval, Approve, Expire, Toggle, Restart, vars
<1>7. QED BY <1>3, <1>4, <1>5, <1>6 DEF Next

LEMMA LedgerSim ==
  ASSUME TypeInv, OnceInv, [Next]_vars
  PROVE  [Ledger!LedgerNext]_(Ledger!ledgerVars)
<1> DEFINE open == [r \in Rows |-> Orders(r, Open)]
           filled == [r \in Rows |-> Orders(r, {"filled", "partcancelled"})]
<1>1. /\ open' \in [Rows -> SUBSET Nat] /\ filled' \in [Rows -> SUBSET Nat]
  <2>1. placed' \in [Rows -> Nat]
    BY BrokerKinds DEF PlacesOne, MovesOne, ib, TypeInv, TypeOK, BrokerOK
  <2>2. QED BY <2>1 DEF Orders
<1>2. CASE UNCHANGED ib
  BY <1>2 DEF Ledger!ledgerVars, Orders, ib
<1>3. ASSUME NEW r \in Rows, PlacesOne(r) PROVE Ledger!LedgerNext
  <2>1. \A other \in Rows \ {r} : open'[other] = open[other] /\ filled'[other] = filled[other]
    BY <1>3 DEF PlacesOne, Orders, TypeInv, TypeOK, BrokerOK
  <2>2. open[r] = {} /\ filled[r] = {} /\ filled'[r] = {} /\ open'[r] = {1}
    BY <1>3 DEF PlacesOne, Orders, TypeInv, TypeOK, BrokerOK, Open
  <2>3. Ledger!Place(r)
    BY <2>2 DEF Ledger!Place
  <2>4. \A other \in Rows \ {r} : Ledger!Keep(other)
    BY <2>1 DEF Ledger!Keep
  <2>5. open' # open
    BY <2>2
  <2>6. QED BY <1>1, <2>3, <2>4, <2>5 DEF Ledger!LedgerNext
<1>4. ASSUME NEW r \in Rows, MovesOne(r)
      PROVE  Ledger!LedgerNext \/ UNCHANGED Ledger!ledgerVars
  <2>1. PICK s \in Open \cup Dead : broker' = [broker EXCEPT ![r] = s]
    BY <1>4 DEF MovesOne
  <2>2. \A other \in Rows \ {r} : open'[other] = open[other] /\ filled'[other] = filled[other]
    BY <1>4, <2>1 DEF MovesOne, Orders, TypeInv, TypeOK, BrokerOK
  <2>3. open[r] = {placed[r]} /\ filled[r] = {}
    BY <1>4 DEF MovesOne, Orders, Open
  <2>4. broker'[r] = s /\ placed' = placed
    BY <1>4, <2>1 DEF MovesOne, TypeInv, TypeOK, BrokerOK
  <2>5. CASE s \in Open
    <3>1. open'[r] = {placed[r]} /\ filled'[r] = {}
      BY <2>4, <2>5 DEF Orders, Open
    <3>2. open' = open /\ filled' = filled
      BY <2>2, <2>3, <3>1
    <3>3. QED BY <3>2 DEF Ledger!ledgerVars
  <2>6. CASE s \in Dead
    <3>1. open'[r] = {} /\ filled'[r] \in {{}, {placed[r]}}
      BY <2>4, <2>6 DEF Orders, Open, Dead
    <3>2. Ledger!Finish(r)
      BY <2>3, <3>1 DEF Ledger!Finish
    <3>3. \A other \in Rows \ {r} : Ledger!Keep(other)
      BY <2>2 DEF Ledger!Keep
    <3>4. open' # open
      BY <2>3, <3>1
    <3>5. QED BY <1>1, <3>2, <3>3, <3>4 DEF Ledger!LedgerNext
  <2>7. QED BY <2>5, <2>6
<1>5. QED BY <1>2, <1>3, <1>4, BrokerKinds

\* Whatever the tools that share the worker, their time-outs and the restarts do, the
\* orders of a row are those that place_order promises for one client order id.
THEOREM RowsImplementLedger == KeepsClientId => (Spec => ImplementsLedger)
<1> SUFFICES ASSUME KeepsClientId PROVE Spec => ImplementsLedger
  OBVIOUS
<1>1. Init => OnceInv /\ Ledger!LedgerInit
  <2>1. Init => OnceInv
    BY DEF Init, OnceInv, Running
  <2>2. Init => Ledger!LedgerInit
    BY DEF Init, Ledger!LedgerInit, Orders, Open
  <2>3. QED BY <2>1, <2>2
<1>2. TypeInv /\ OnceInv /\ [Next]_vars => OnceInv'
  BY OnceKept
<1>3. TypeInv /\ OnceInv /\ [Next]_vars => [Ledger!LedgerNext]_(Ledger!ledgerVars)
  BY LedgerSim
<1>4. QED
  BY <1>1, <1>2, <1>3, TypeInvHolds, PTL DEF Spec, ImplementsLedger, Ledger!LedgerSpec

=============================================================================
