---------------------------- MODULE EmergencyStop ----------------------------
(***************************************************************************)
(* The tool emergency_stop (mcp_server/main.py), composed with the worker  *)
(* and the orders it is to cancel (module Orders).                         *)
(*                                                                         *)
(* The tool is a coroutine: it lists the open orders, cancels them, writes *)
(* control.json and drops the client.  Each time it awaits the worker,     *)
(* behind the calls of other tools that came first: lock and worker take   *)
(* them in order (module Session).  The alert to the operator, at the end, *)
(* is left out.                                                            *)
(***************************************************************************)
EXTENDS Orders

CONSTANT MaxAhead   \* bound on the calls in front of the stop

VARIABLES
  pc,               \* where the stop is
  ahead,            \* the calls of other tools that the worker takes first
  listed,           \* order_ids
  errors,           \* something went wrong
  quiet             \* history: since trading was last enabled a stop has disabled it
                    \* ("pending") and returned ("yes")

stop == <<pc, ahead, listed, errors, quiet>>
vars == <<ordersVars, stop>>

ASSUME AheadAssumption == MaxAhead \in Nat

\* Where the stop waits for its turn, and where it does not.
Waiting == {"listing", "queued", "dropping"}
StopSteps == Waiting \cup {"idle", "cancelling", "control"}

Init ==
  /\ OrdersInit
  /\ pc = "idle" /\ ahead = 0 /\ listed = {}
  /\ errors = FALSE /\ quiet = "no"

(***************************************************************************)
(* The worker and the other tools                                          *)
(***************************************************************************)

\* The next call of another tool is taken: any, or one of those in front.
NextCall ==
  /\ pc \in Waiting => ahead > 0
  /\ ahead' = IF pc \in Waiting THEN ahead - 1 ELSE 0
  /\ UNCHANGED <<pc, listed, errors, quiet>>

Mine == job # None /\ job.by = "stop"
MyTurn == ahead = 0 /\ job = None

\* The loop resumes the stop, whose future is done, before another call has gone
\* through its disconnect and connect.
Resumes == pc = "control" \/ (pc = "cancelling" /\ ~Mine)

\* It places or cancels, or it changes nothing.
TakeCall ==
  /\ ~Resumes
  /\ \/ \E r \in Requests : PlaceBegins(r)
     \/ \E os \in OrderSets, name \in Names : CancelBegins(os, name)
     \/ pc \in Waiting /\ job = None /\ UNCHANGED ordersVars
  /\ NextCall

WorkerStep ==
  \/ TakeCall
  \/ (PlaceStep \/ CancelStep) /\ UNCHANGED stop
  \/ /\ JobFails
     /\ errors' = (errors \/ job.by = "stop")
     /\ UNCHANGED <<pc, ahead, listed, quiet>>

(***************************************************************************)
(* emergency_stop                                                          *)
(***************************************************************************)

Await(step) ==
  /\ pc' = step
  /\ ahead' \in 0 .. MaxAhead

Return == pc' = "idle" /\ ahead' = 0 /\ listed' = {} /\ errors' = FALSE

StopCalled ==
  /\ pc = "idle"
  /\ Await("listing")
  /\ UNCHANGED <<ordersVars, listed, errors, quiet>>

\* get_open_orders
OpenOrders == {o \in shown : IsOpen(o)}

List ==
  /\ pc = "listing" /\ MyTurn
  /\ listed' = OpenOrders
  /\ IF OpenOrders = {} THEN pc' = "control" /\ UNCHANGED ahead ELSE Await("queued")
  /\ UNCHANGED <<ordersVars, errors, quiet>>

\* The connection, or the list, fails or takes too long; or the connection for the
\* cancellations.
AskFails ==
  /\ pc \in {"listing", "queued"} /\ ahead = 0
  /\ pc' = "control"
  /\ errors' = TRUE
  /\ UNCHANGED <<ordersVars, ahead, listed, quiet>>

\* The list names an order by its permId.  One that has none yet is listed as
\* ord_<orderId>, which is no key of the registry and would be missed by cancel_order; here
\* every order that is listed has its permId.
BeginCancel ==
  /\ pc = "queued" /\ MyTurn
  /\ job' = CancelJob(listed, "permId", "stop")
  /\ pc' = "cancelling"
  /\ UNCHANGED <<ib, registry, enabled, ahead, listed, errors, quiet>>

\* Mutant: the stop goes on until no order is listed.
CancelledAll ==
  /\ pc = "cancelling" /\ ~Mine
  /\ Await("listing")
  /\ UNCHANGED <<ordersVars, listed, errors, quiet>>

\* What became of the orders is not looked at, only whether the call failed.
Cancelled ==
  /\ pc = "cancelling" /\ ~Mine
  /\ pc' = "control"
  /\ UNCHANGED <<ordersVars, ahead, listed, errors, quiet>>

\* The call takes too long: the worker finishes it for nobody.
GiveUp ==
  /\ pc = "cancelling" /\ Mine
  /\ job' = [job EXCEPT !.by = "nobody"]
  /\ errors' = TRUE
  /\ UNCHANGED <<ib, registry, enabled, pc, ahead, listed, quiet>>

\* Mutant: the client is not dropped.
DisableOnly ==
  /\ pc = "control" /\ enabled' = FALSE
  /\ quiet' = "yes"
  /\ Return
  /\ UNCHANGED <<ib, registry, job>>

\* load_control and write_control, with no await in between; then
\* invalidate_client.
Disable ==
  /\ pc = "control" /\ enabled' = FALSE
  /\ quiet' = IF quiet = "no" THEN "pending" ELSE quiet
  /\ Await("dropping")
  /\ UNCHANGED <<ib, registry, job, listed, errors>>

\* control.json, or control.log after it, cannot be written.
DisableFails ==
  /\ pc = "control"
  /\ enabled' \in {enabled, FALSE}
  /\ Return
  /\ UNCHANGED <<ib, registry, job, quiet>>

\* Trading is disabled for the same reason already: nothing is written or dropped.
DisabledAlready ==
  /\ pc = "control" /\ ~enabled
  /\ Return
  /\ UNCHANGED <<ordersVars, quiet>>

\* The client is disconnected behind the running job, unless the service has none:
\* then nothing is waited for.
Drop ==
  /\ pc = "dropping" /\ ahead = 0
  /\ job # None => job.loose
  /\ quiet' = IF quiet = "pending" THEN "yes" ELSE quiet
  /\ Return
  /\ UNCHANGED ordersVars

\* The MCP client cancels the request: the stop is left at its await, and what it has
\* not done by then is not done.
ClientCancels ==
  /\ pc \in Waiting \cup {"cancelling"}
  /\ job' = IF Mine THEN [job EXCEPT !.by = "nobody"] ELSE job
  /\ quiet' = IF quiet = "pending" THEN "no" ELSE quiet
  /\ Return
  /\ UNCHANGED <<ib, registry, enabled>>

StopStep ==
  \/ List \/ AskFails \/ BeginCancel \/ Cancelled \/ GiveUp
  \/ Disable \/ DisableFails \/ DisabledAlready \/ Drop

(***************************************************************************)
(* Everybody else                                                          *)
(***************************************************************************)

\* admin_update_trading_control, or somebody with an editor.
ControlChanges ==
  /\ SetControl
  /\ quiet' = IF enabled THEN quiet ELSE "no"
  /\ UNCHANGED <<pc, ahead, listed, errors>>

Restart ==
  /\ RestartOrders
  /\ pc' = "idle" /\ ahead' = 0 /\ listed' = {} /\ errors' = FALSE
  /\ quiet' = IF quiet = "pending" THEN "no" ELSE quiet

Next ==
  \/ WorkerStep
  \/ LoseClient /\ NextCall
  \/ StopCalled \/ StopStep \/ ClientCancels
  \/ BrokerMoves /\ UNCHANGED stop
  \/ ControlChanges
  \/ Restart

\* Jobs end, as every call to IB has a time limit, and the loop resumes a coroutine
\* whose future is done.
Fairness == WF_vars(WorkerStep) /\ WF_vars(StopStep)

Spec == Init /\ [][Next]_vars /\ Fairness

(***************************************************************************)
(* Properties                                                              *)
(***************************************************************************)

\* The types of the variables.
TypeOK ==
  /\ OrdersTypeOK
  /\ pc \in StopSteps /\ ahead \in 0 .. MaxAhead /\ listed \subseteq Orders
  /\ errors \in BOOLEAN
  /\ quiet \in {"no", "pending", "yes"}

\* Once an emergency stop that disabled trading has returned nothing is sent to IB
\* until trading is enabled again, not even by the placement that had passed the
\* settings before; unless that one's client was taken from the service by a call
\* that was cancelled.
QuietAfterStop ==
  [][(quiet = "yes" /\ (job # None => ~job.loose)) => Sent' = Sent]_vars

\* An emergency stop returns, however many jobs are in front of it.
StopReturns == pc # "idle" ~> pc = "idle"

\* "cancel ALL open orders" (main.py:1937): when a stop has disabled trading, nobody
\* has enabled it since and it reports success, no order of this client is open
\* without a cancellation under way.
StopLeavesNoOrder ==
  [][(Drop /\ ~errors /\ quiet # "no")
        => \A o \in shown : book[o] \notin {"held", "working"}]_vars
=============================================================================
