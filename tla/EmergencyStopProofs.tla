------------------------- MODULE EmergencyStopProofs -------------------------
(***************************************************************************)
(* What holds of an emergency stop for every set of requests, and of the   *)
(* orders among which it is called.                                        *)
(***************************************************************************)
EXTENDS EmergencyStop, OrdersProofs

StopOK ==
  /\ pc \in StopSteps /\ ahead \in 0 .. MaxAhead /\ listed \subseteq Orders
  /\ errors \in BOOLEAN
  /\ quiet \in {"no", "pending", "yes"}

\* A stop that disabled trading left it disabled, and one that returned left no
\* placement with a client behind.
QuietInv ==
  /\ quiet # "no" => ~enabled
  /\ (quiet = "yes" /\ PlaceRuns) => job.loose

Inv == IInv /\ StopOK /\ QuietInv

(***************************************************************************)
(* The orders                                                              *)
(***************************************************************************)

\* A job that its caller has given up does the same.
LEMMA GiveUpWork ==
  ASSUME OrdersTypeOK, Mine, job' = [job EXCEPT !.by = "nobody"],
         UNCHANGED <<ib, registry, enabled>>
  PROVE  OrdersTypeOK' /\ SameWork /\ (PlaceRuns' => PlaceRuns /\ job'.loose = job.loose)
<1>1. job \in PlaceJobs \cup CancelJobs
  BY DEF Mine, OrdersTypeOK
<1>2. job' = [job EXCEPT !.by = "nobody"]
  OBVIOUS
<1>3. CASE job \in PlaceJobs
  <2>1. job' \in PlaceJobs
    BY <1>2, <1>3 DEF PlaceJobs, Askers
  <2>2. SameWork /\ job'.loose = job.loose
    BY <1>2, <1>3 DEF SameWork, PlaceJobs, Mine
  <2>3. PlaceRuns
    BY <1>3 DEF PlaceRuns, PlaceJobs, Mine
  <2>4. QED BY <2>1, <2>2, <2>3 DEF ib, registry, OrdersTypeOK
<1>4. CASE job \in CancelJobs
  <2>1. job' \in CancelJobs
    BY <1>2, <1>4 DEF CancelJobs, Askers
  <2>2. SameWork
    BY <1>2, <1>4 DEF SameWork, CancelJobs, Mine
  <2>3. ~PlaceRuns'
    BY <2>1 DEF PlaceRuns, CancelJobs
  <2>4. QED BY <2>1, <2>2, <2>3 DEF ib, registry, OrdersTypeOK
<1>5. QED BY <1>1, <1>3, <1>4

\* The stop does nothing to the orders but through a cancellation of its own.
LEMMA StopStepInv ==
  ASSUME IInv, StopOK, StopStep
  PROVE  IInv' /\ UNCHANGED ib
<1>1. CASE BeginCancel
  <2>1. /\ listed \in SUBSET Orders /\ "stop" \in Askers /\ "permId" \in Names
        /\ enabled' \in BOOLEAN
    BY <1>1 DEF BeginCancel, StopOK, Askers, Names, IInv, OrdersTypeOK
  <2>2. job' = CancelJob(listed, "permId", "stop") /\ UNCHANGED <<ib, registry>>
    BY <1>1 DEF BeginCancel
  <2>3. QED BY <2>1, <2>2, CancelBeginInv
<1>2. CASE GiveUp
  <2>1. OrdersTypeOK' /\ SameWork
    BY <1>2, GiveUpWork DEF IInv, GiveUp
  <2>2. UNCHANGED <<ib, seen>>
    BY <1>2 DEF GiveUp, registry
  <2>3. QED BY <2>1, <2>2, OutsideInv
<1>3. CASE UNCHANGED <<ib, registry, job>> /\ enabled' \in BOOLEAN
  <2>1. OrdersTypeOK' /\ SameWork
    BY <1>3 DEF IInv, OrdersTypeOK, ib, registry, SameWork
  <2>2. UNCHANGED <<ib, seen>>
    BY <1>3 DEF registry
  <2>3. QED BY <2>1, <2>2, OutsideInv
<1>4. enabled \in BOOLEAN
  BY DEF IInv, OrdersTypeOK
<1>5. CASE List \/ AskFails \/ Cancelled \/ DisabledAlready \/ Drop
  BY <1>3, <1>4, <1>5 DEF List, AskFails, Cancelled, DisabledAlready, Drop, ordersVars
<1>6. CASE Disable \/ DisableFails
  BY <1>3, <1>4, <1>6 DEF Disable, DisableFails
<1>7. QED BY <1>1, <1>2, <1>5, <1>6 DEF StopStep

\* A stop that its client cancels leaves a job of its own behind.
LEMMA ClientCancelsInv ==
  ASSUME IInv, StopOK, ClientCancels
  PROVE  IInv' /\ UNCHANGED ib
<1>1. UNCHANGED <<ib, registry, enabled>> /\ OrdersTypeOK
  BY DEF ClientCancels, IInv
<1>2. UNCHANGED <<ib, seen>>
  BY <1>1 DEF registry
<1>3. OrdersTypeOK' /\ SameWork
  <2>1. CASE Mine
    BY <1>1, <2>1, GiveUpWork DEF ClientCancels
  <2>2. CASE ~Mine
    BY <1>1, <2>2 DEF ClientCancels, OrdersTypeOK, ib, registry, SameWork
  <2>3. QED BY <2>1, <2>2
<1>4. QED BY <1>2, <1>3, OutsideInv

LEMMA TakeCallInv ==
  ASSUME IInv, TakeCall
  PROVE  IInv' /\ UNCHANGED ib
<1>1. ASSUME NEW r \in Requests, PlaceBegins(r) PROVE IInv' /\ UNCHANGED ib
  BY <1>1, PlaceBeginInv DEF PlaceBegins
<1>2. ASSUME NEW os \in OrderSets, NEW name \in Names, CancelBegins(os, name)
      PROVE  IInv' /\ UNCHANGED ib
  BY <1>2, NextInv DEF OrdersNext, CancelBegins
<1>3. CASE UNCHANGED ordersVars
  BY <1>3, NextInv DEF ordersVars
<1>4. QED BY <1>1, <1>2, <1>3 DEF TakeCall

LEMMA NextOrders == IInv /\ StopOK /\ [Next]_vars => IInv'
<1> SUFFICES ASSUME IInv, StopOK, [Next]_vars PROVE IInv'
  OBVIOUS
<1>1. CASE UNCHANGED ordersVars
  BY <1>1, NextInv
<1>2. CASE WorkerStep
  BY <1>2, TakeCallInv, PlaceStepInv, CancelStepInv, OtherInv DEF WorkerStep
<1>3. CASE StopStep
  BY <1>3, StopStepInv
<1>4. CASE LoseClient \/ BrokerMoves \/ ControlChanges \/ Restart
  BY <1>4, OtherInv DEF ControlChanges, Restart
<1>5. CASE ClientCancels
  BY <1>5, ClientCancelsInv
<1>6. QED BY <1>1, <1>2, <1>3, <1>4, <1>5 DEF Next, vars, StopCalled

\* Only a placement sends anything.
LEMMA WhoSends ==
  ASSUME IInv, StopOK, [Next]_vars, Sent' # Sent
  PROVE  PlaceStep /\ UNCHANGED stop
<1>1. OrdersTypeOK
  BY DEF IInv
<1>2. SUFFICES ASSUME ~(PlaceStep /\ UNCHANGED stop) PROVE Sent' = Sent
  OBVIOUS
<1>3. CASE UNCHANGED book
  BY <1>3 DEF Sent
<1>4. CASE WorkerStep
  <2>1. CASE TakeCall
    BY <1>3, <2>1, TakeCallInv DEF ib
  <2>2. CASE CancelStep
    BY <1>1, <2>2, CancelCalm, CalmSent
  <2>3. CASE JobFails
    BY <1>3, <2>3 DEF JobFails, ib
  <2>4. QED BY <1>2, <1>4, <2>1, <2>2, <2>3 DEF WorkerStep
<1>5. CASE StopStep
  BY <1>3, <1>5, StopStepInv DEF ib
<1>6. CASE BrokerMoves
  BY <1>1, <1>6, BrokerCalm, CalmSent
<1>7. CASE LoseClient \/ ControlChanges \/ Restart \/ StopCalled \/ UNCHANGED vars
  BY <1>3, <1>7
     DEF LoseClient, ControlChanges, SetControl, Restart, RestartOrders, StopCalled, vars,
         ordersVars, ib
<1>8. CASE ClientCancels
  BY <1>3, <1>8, ClientCancelsInv DEF ib
<1>9. QED BY <1>4, <1>5, <1>6, <1>7, <1>8 DEF Next

\* What a step does to the orders it does in one of the ways module Orders knows.
LEMMA NextKinds ==
  ASSUME IInv, StopOK, [Next]_vars
  PROVE  UNCHANGED book \/ Settles \/ \E role \in Roles : LegGoes(role)
<1>1. CASE WorkerStep
  <2>1. CASE TakeCall
    BY <2>1, TakeCallInv DEF ib
  <2>2. CASE PlaceStep \/ CancelStep
    BY <2>2, PlaceSends, CancelSettles DEF IInv
  <2>3. CASE JobFails
    BY <2>3 DEF JobFails, ib
  <2>4. QED BY <1>1, <2>1, <2>2, <2>3 DEF WorkerStep
<1>2. CASE StopStep \/ ClientCancels
  BY <1>2, StopStepInv, ClientCancelsInv DEF ib
<1>3. CASE BrokerMoves
  BY <1>3, BrokerSettles DEF IInv
<1>4. CASE LoseClient \/ ControlChanges \/ Restart \/ StopCalled \/ UNCHANGED vars
  BY <1>4
     DEF LoseClient, ControlChanges, SetControl, Restart, RestartOrders, StopCalled, vars,
         ordersVars, ib
<1>5. QED BY <1>1, <1>2, <1>3, <1>4 DEF Next

(***************************************************************************)
(* The stop                                                                *)
(***************************************************************************)

LEMMA ZeroAhead == 0 \in 0 .. MaxAhead
BY AheadAssumption

LEMMA NextCallOK ==
  ASSUME StopOK, NextCall
  PROVE  StopOK'
<1>1. ahead' \in 0 .. MaxAhead
  BY AheadAssumption DEF StopOK, NextCall
<1>2. QED BY <1>1 DEF StopOK, NextCall

LEMMA StopStepOK ==
  ASSUME IInv, StopOK, StopStep
  PROVE  StopOK'
<1>1. CASE List
  <2>1. OpenOrders \subseteq Orders
    BY DEF OpenOrders, IInv, OrdersTypeOK
  <2>2. QED BY <1>1, <2>1 DEF List, StopOK, Await, StopSteps, Waiting
<1>2. CASE AskFails \/ BeginCancel \/ Cancelled \/ GiveUp
  BY <1>2 DEF AskFails, BeginCancel, Cancelled, GiveUp, StopOK, StopSteps
<1>3. CASE Disable
  BY <1>3 DEF Disable, Await, StopOK, StopSteps, Waiting
<1>4. CASE DisableFails \/ DisabledAlready
  BY <1>4, ZeroAhead DEF DisableFails, DisabledAlready, Return, StopOK, StopSteps
<1>5. CASE Drop
  BY <1>5, ZeroAhead DEF Drop, Return, StopOK, StopSteps
<1>6. QED BY <1>1, <1>2, <1>3, <1>4, <1>5 DEF StopStep

LEMMA NextStop == IInv /\ StopOK /\ [Next]_vars => StopOK'
<1> SUFFICES ASSUME IInv, StopOK, [Next]_vars PROVE StopOK'
  OBVIOUS
<1>1. CASE UNCHANGED stop
  BY <1>1 DEF stop, StopOK
<1>2. CASE WorkerStep
  <2>1. CASE TakeCall
    BY <2>1, NextCallOK DEF TakeCall
  <2>2. CASE (PlaceStep \/ CancelStep) /\ UNCHANGED stop
    BY <1>1, <2>2
  <2>3. CASE JobFails /\ errors' = (errors \/ job.by = "stop")
               /\ UNCHANGED <<pc, ahead, listed, quiet>>
    BY <2>3 DEF StopOK
  <2>4. QED BY <1>2, <2>1, <2>2, <2>3 DEF WorkerStep
<1>3. CASE LoseClient /\ NextCall
  BY <1>3, NextCallOK
<1>4. CASE StopCalled
  BY <1>4 DEF StopCalled, Await, StopOK, StopSteps, Waiting
<1>5. CASE StopStep
  BY <1>5, StopStepOK
<1>6. CASE ControlChanges
  BY <1>6 DEF ControlChanges, StopOK
<1>7. CASE Restart
  BY <1>7, ZeroAhead DEF Restart, StopOK, StopSteps
<1>8. CASE ClientCancels
  BY <1>8, ZeroAhead DEF ClientCancels, Return, StopOK, StopSteps
<1>9. QED BY <1>1, <1>2, <1>3, <1>4, <1>5, <1>6, <1>7, <1>8 DEF Next, vars

(***************************************************************************)
(* Quiet                                                                   *)
(***************************************************************************)

\* A placement that goes on keeps, or has lost, its client.
LEMMA PlaceKeepsClient ==
  ASSUME OrdersTypeOK, PlaceStep
  PROVE  PlaceRuns /\ (PlaceRuns' => job'.loose = job.loose) /\ enabled' = enabled
<1>1. job \in PlaceJobs
  BY PlacingIsPlace
     DEF PlaceStep, PlaceSimple, PlaceDone, PlaceEntry, PlaceTakeProfit, PlaceStopLoss, PlaceLeg,
         BracketDone
<1>2. PlaceRuns
  BY <1>1, NoneAssumption DEF PlaceRuns, PlaceJobs
<1>3. job' = None \/ \E to : Stage(to)
  BY DEF PlaceStep, PlaceSimple, PlaceDone, PlaceEntry, PlaceTakeProfit, PlaceStopLoss, PlaceLeg,
         BracketDone
<1>4. PlaceRuns' => job'.loose = job.loose
  BY <1>1, <1>3 DEF PlaceRuns, Stage, PlaceJobs
<1>5. enabled' = enabled
  BY DEF PlaceStep, PlaceSimple, PlaceDone, PlaceEntry, PlaceTakeProfit, PlaceStopLoss, PlaceLeg,
         BracketDone
<1>6. QED BY <1>2, <1>4, <1>5

LEMMA WorkerQuiet ==
  ASSUME Inv, WorkerStep
  PROVE  QuietInv'
<1>1. CASE TakeCall
  <2>1. quiet' = quiet /\ enabled' = enabled
    BY <1>1 DEF TakeCall, NextCall, PlaceBegins, CancelBegins, ordersVars
  <2>2. quiet = "yes" /\ PlaceRuns' => FALSE
    <3>1. ASSUME NEW r \in Requests, PlaceBegins(r) PROVE quiet # "yes"
      BY <3>1 DEF PlaceBegins, Inv, QuietInv
    <3>2. ASSUME NEW os, NEW name, CancelBegins(os, name) PROVE ~PlaceRuns'
      BY <3>2 DEF CancelBegins, CancelJob, PlaceRuns
    <3>3. ASSUME job = None, UNCHANGED ordersVars PROVE ~PlaceRuns'
      BY <3>3 DEF ordersVars, PlaceRuns
    <3>4. QED BY <1>1, <3>1, <3>2, <3>3 DEF TakeCall
  <2>3. QED BY <2>1, <2>2 DEF Inv, QuietInv
<1>2. CASE PlaceStep /\ UNCHANGED stop
  BY <1>2, PlaceKeepsClient DEF Inv, IInv, QuietInv, stop
<1>3. CASE CancelStep /\ UNCHANGED stop
  BY <1>3, CancelIsNoPlacement DEF Inv, IInv, QuietInv, stop
<1>4. CASE JobFails /\ UNCHANGED quiet
  BY <1>4 DEF JobFails, Inv, QuietInv, PlaceRuns
<1>5. QED BY <1>1, <1>2, <1>3, <1>4 DEF WorkerStep

LEMMA StopQuiet ==
  ASSUME Inv, StopStep
  PROVE  QuietInv'
<1>1. CASE List \/ AskFails \/ Cancelled \/ DisabledAlready
  BY <1>1
     DEF List, AskFails, Cancelled, DisabledAlready, ordersVars, Inv, QuietInv, PlaceRuns
<1>2. CASE BeginCancel
  BY <1>2 DEF BeginCancel, CancelJob, Inv, QuietInv, PlaceRuns
<1>3. CASE GiveUp
  <2>1. PlaceRuns' => PlaceRuns /\ job'.loose = job.loose
    BY <1>3, GiveUpWork DEF Inv, IInv, GiveUp
  <2>2. QED BY <1>3, <2>1 DEF GiveUp, Inv, QuietInv
<1>4. CASE Disable \/ DisableFails
  <2>1. enabled' = FALSE \/ enabled' = enabled
    BY <1>4 DEF Disable, DisableFails
  <2>2. (quiet' = "yes" => quiet = "yes") /\ (quiet = "no" => quiet' = "no" \/ enabled' = FALSE)
    BY <1>4 DEF Disable, DisableFails
  <2>3. job' = job
    BY <1>4 DEF Disable, DisableFails
  <2>4. quiet' # "no" => ~enabled'
    BY <2>1, <2>2 DEF Inv, QuietInv
  <2>5. (quiet' = "yes" /\ PlaceRuns') => job'.loose
    BY <2>2, <2>3 DEF Inv, QuietInv, PlaceRuns
  <2>6. QED BY <2>4, <2>5 DEF QuietInv
<1>5. CASE Drop
  BY <1>5 DEF Drop, ordersVars, Inv, StopOK, QuietInv, PlaceRuns
<1>6. QED BY <1>1, <1>2, <1>3, <1>4, <1>5 DEF StopStep

LEMMA LoseQuiet ==
  ASSUME Inv, LoseClient, NextCall
  PROVE  QuietInv'
<1>1. job \in PlaceJobs \cup CancelJobs /\ enabled' = enabled /\ quiet' = quiet
  BY DEF LoseClient, NextCall, Inv, IInv, OrdersTypeOK
<1>2. job'.loose = TRUE
  BY <1>1 DEF LoseClient, PlaceJobs, CancelJobs
<1>3. QED BY <1>1, <1>2 DEF Inv, QuietInv

LEMMA NextQuiet == Inv /\ [Next]_vars => QuietInv'
<1> SUFFICES ASSUME Inv, [Next]_vars PROVE QuietInv'
  OBVIOUS
<1>1. CASE WorkerStep \/ StopStep
  BY <1>1, WorkerQuiet, StopQuiet
<1>2. CASE LoseClient /\ NextCall
  BY <1>2, LoseQuiet
<1>3. CASE StopCalled \/ UNCHANGED vars \/ (BrokerMoves /\ UNCHANGED stop)
  BY <1>3 DEF StopCalled, vars, stop, ordersVars, BrokerMoves, Inv, QuietInv, PlaceRuns
<1>4. CASE ControlChanges
  BY <1>4 DEF ControlChanges, SetControl, Inv, QuietInv, PlaceRuns
<1>5. CASE Restart
  BY <1>5 DEF Restart, RestartOrders, Inv, StopOK, QuietInv, PlaceRuns
<1>6. CASE ClientCancels
  <2>1. PlaceRuns' => PlaceRuns /\ job'.loose = job.loose
    <3>1. CASE Mine
      BY <1>6, <3>1, GiveUpWork DEF Inv, IInv, ClientCancels
    <3>2. CASE ~Mine
      BY <1>6, <3>2 DEF ClientCancels, PlaceRuns
    <3>3. QED BY <3>1, <3>2
  <2>2. QED BY <1>6, <2>1 DEF ClientCancels, Inv, QuietInv
<1>7. QED BY <1>1, <1>2, <1>3, <1>4, <1>5, <1>6 DEF Next

LEMMA InvHolds == Spec => []Inv
<1>1. Init => Inv
  <2>1. Init => IInv
    BY InitInv DEF Init
  <2>2. Init => StopOK /\ QuietInv
    BY ZeroAhead DEF Init, StopOK, StopSteps, QuietInv
  <2>3. QED BY <2>1, <2>2 DEF Inv
<1>2. Inv /\ [Next]_vars => Inv'
  BY NextOrders, NextStop, NextQuiet DEF Inv
<1>3. QED BY <1>1, <1>2, PTL DEF Spec

(***************************************************************************)
(* The theorems                                                            *)
(***************************************************************************)

\* The variables keep their types.
THEOREM TypeCorrect == Spec => []TypeOK
<1>1. Inv => TypeOK
  BY DEF Inv, IInv, StopOK, TypeOK
<1>2. QED BY <1>1, InvHolds, PTL

\* What module Orders promises of brackets, retries and cancellations also holds of
\* those that an emergency stop cancels or gives up.
THEOREM OrdersStaySafe ==
  Spec => [](BracketGoesOutWhole /\ ExitsMatchEntry /\ NoDuplicateOrder /\ CancelledSetIsDone)
<1>1. Inv => BracketGoesOutWhole /\ ExitsMatchEntry /\ NoDuplicateOrder /\ CancelledSetIsDone
  BY InvImplies DEF Inv
<1>2. QED BY <1>1, InvHolds, PTL

\* Nothing is sent after a stop that disabled trading has returned and before it is
\* enabled again, but by a placement whose client the service has lost.
THEOREM StopIsQuiet == Spec => QuietAfterStop
<1>1. ASSUME Inv, [Next]_vars, quiet = "yes", job # None => ~job.loose
      PROVE  Sent' = Sent
  <2>1. SUFFICES ASSUME Sent' # Sent PROVE FALSE
    OBVIOUS
  <2>2. PlaceStep
    BY <1>1, <2>1, WhoSends DEF Inv
  <2>3. PlaceRuns
    BY <1>1, <2>2, PlaceKeepsClient DEF Inv, IInv
  <2>4. QED BY <1>1, <2>3 DEF Inv, QuietInv, PlaceRuns
<1>2. Inv /\ [Next]_vars
        => [(quiet = "yes" /\ (job # None => ~job.loose)) => Sent' = Sent]_vars
  BY <1>1
<1>3. QED BY <1>2, InvHolds, PTL DEF Spec, QuietAfterStop

\* Nor does a stop, given up or cancelled at any point, break the promise that
\* place_order makes to those who retry it.
THEOREM StopKeepsLedger == KeepsClientId => (Spec => ImplementsLedger)
<1> SUFFICES ASSUME KeepsClientId PROVE Spec => ImplementsLedger
  OBVIOUS
<1>1. Inv /\ [Next]_vars => [Ledger!LedgerNext]_(Ledger!ledgerVars)
  BY NextKinds, LedgerStep DEF Inv
<1>2. Init => Ledger!LedgerInit
  BY LedgerStart DEF Init
<1>3. QED BY <1>1, <1>2, InvHolds, PTL DEF Spec, ImplementsLedger, Ledger!LedgerSpec
=============================================================================
